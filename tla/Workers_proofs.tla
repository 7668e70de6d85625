--------------------------- MODULE Workers_proofs ---------------------------
(***************************************************************************)
(* What holds of Workers for any number of processes and accounts, every   *)
(* interval, batch and bound; of CRMSync for any number of workers,        *)
(* signals and companies; of DataSources for any number of requests, keys, *)
(* companies and every limit.                                              *)
(*                                                                         *)
(* JobInv: whoever has stamped an account in its session has enqueued its  *)
(* job, so that the commit of the stamps asks for nothing that was not     *)
(* enqueued, however many scans overlap and whatever dies.                 *)
(* SlotInv: whoever searches holds the tenant's row, and its slot is free. *)
(***************************************************************************)
EXTENDS Workers, MCCRMSync, MCSources, FiniteSetTheorems, TLAPS

\* What a worker has in its hands is what it works on.
Busy ==
    \A w \in Process :
        /\ pc[w] = "idle" => job[w] = Nobody
        /\ pc[w] = "process" => job[w] \in Account
        /\ pc[w] \notin {"idle", "process"} => job[w] \in Drivers

Asked(a) == HasJob(a) \/ a \in settled

JobInv ==
    /\ \A a \in Account : stamp[a] < Interval => Asked(a)
    /\ \A w \in Process : \A a \in claimed[w] : Asked(a)

Searching == {"search", "alert", "paused", "ran"}

SlotInv ==
    \A w \in Process : pc[w] \in Searching => tenant = w /\ SlotIsFree(w)

WorkInv == TypeOK /\ Busy /\ JobInv /\ SlotInv

-----------------------------------------------------------------------------
(* Ages and queues *)

LEMMA AgeFacts ==
    /\ Cardinality(Account) \in Nat
    /\ Oldest \in Nat /\ Free \in Nat /\ Interval <= Oldest /\ Interval <= Free
    /\ Nobody \notin Account /\ Nobody \notin Drivers /\ Nobody \notin Process
<1>1. Cardinality(Account) \in Nat
  BY AccountAssumption, FS_CardinalityType
<1> QED
  BY <1>1, BoundAssumption, ProcessAssumption DEF Oldest, Free

\* An age grows by at most one, and never beyond what is told apart.
LEMMA OlderIsOlder ==
    ASSUME stamp \in [Account -> Age]
    PROVE  /\ Older(stamp) \in [Account -> Age]
           /\ \A a \in Account : Older(stamp)[a] >= stamp[a]
<1> SUFFICES ASSUME NEW a \in Account
             PROVE  Older(stamp)[a] \in Age /\ Older(stamp)[a] >= stamp[a]
  BY DEF Older
<1> DEFINE above == {c \in Account : stamp[c] > stamp[a]}
<1>1. Cardinality(above) \in Nat
  BY AccountAssumption, FS_Subset, FS_CardinalityType
<1>2. Older(stamp)[a] = IF stamp[a] < Oldest - Cardinality(above) THEN stamp[a] + 1 ELSE stamp[a]
  BY DEF Older
<1>3. stamp[a] \in 0 .. Oldest
  BY DEF Age
<1> HIDE DEF above
<1> QED
  BY <1>1, <1>2, <1>3, AgeFacts DEF Age

InQueue(q, a) == \E i \in 1 .. Len(q) : q[i] = a

LEMMA AppendKeeps ==
    ASSUME NEW q \in Seq(Job), NEW x \in Job
    PROVE  /\ Append(q, x) \in Seq(Job)
           /\ InQueue(Append(q, x), x)
           /\ \A a : InQueue(q, a) => InQueue(Append(q, x), a)
<1>1. /\ Len(Append(q, x)) = Len(q) + 1
      /\ Append(q, x)[Len(q) + 1] = x
      /\ \A i \in 1 .. Len(q) : Append(q, x)[i] = q[i]
  OBVIOUS
<1>2. Len(q) \in Nat
  OBVIOUS
<1> QED
  BY <1>1, <1>2 DEF InQueue

LEMMA TailKeeps ==
    ASSUME NEW q \in Seq(Job), q # <<>>
    PROVE  /\ Head(q) \in Job /\ Tail(q) \in Seq(Job)
           /\ \A a : InQueue(q, a) => InQueue(Tail(q), a) \/ a = Head(q)
<1>1. /\ Len(q) \in Nat \ {0} /\ Len(Tail(q)) = Len(q) - 1 /\ Head(q) = q[1]
      /\ \A i \in 1 .. Len(q) - 1 : Tail(q)[i] = q[i + 1]
  OBVIOUS
<1>2. Head(q) \in Job /\ Tail(q) \in Seq(Job)
  OBVIOUS
<1>3. ASSUME NEW a, NEW i \in 1 .. Len(q), q[i] = a PROVE InQueue(Tail(q), a) \/ a = Head(q)
  <2>1. CASE i = 1
    BY <1>1, <1>3, <2>1
  <2>2. CASE i # 1
    <3>1. i - 1 \in 1 .. Len(Tail(q)) /\ Tail(q)[i - 1] = q[i]
      BY <1>1, <2>2
    <3> QED
      BY <1>3, <3>1 DEF InQueue
  <2> QED
    BY <2>1, <2>2
<1> QED
  BY <1>2, <1>3 DEF InQueue

-----------------------------------------------------------------------------
(* Type correctness *)

LEMMA WorkInit == Init => WorkInv
<1> SUFFICES ASSUME Init PROVE WorkInv
  OBVIOUS
<1>1. TypeOK
  <2>1. stamp \in [Account -> Age] /\ slot \in 0 .. Free
    BY AgeFacts DEF Init, Age
  <2>2. now \in [Process -> 0 .. Interval] /\ losses \in 0 .. MaxLosses
    BY BoundAssumption DEF Init
  <2>3. queue \in Seq(Job)
    BY DEF Init
  <2> QED
    BY <2>1, <2>2, <2>3 DEF Init, TypeOK, Label
<1>2. Busy /\ SlotInv
  BY DEF Init, Busy, SlotInv, Searching
<1>3. JobInv
  BY AgeFacts, BoundAssumption DEF Init, JobInv
<1> QED
  BY <1>1, <1>2, <1>3 DEF WorkInv

LEMMA TypeStep == TypeOK /\ Busy /\ [Next]_vars => TypeOK'
<1> SUFFICES ASSUME TypeOK, Busy, [Next]_vars PROVE TypeOK'
  OBVIOUS
<1>w. ASSUME NEW w \in Process, Scheduler(w) \/ Loop(w) \/ SchedulerFails(w) \/ HandlerRaises(w) \/ Die(w)
      PROVE  TypeOK'
  <2>1. CASE SchedulerWakes(w)
    BY <2>1 DEF SchedulerWakes, TypeOK, loops, accounts, discovery
  <2>2. CASE SchedulerEnqueues(w)
    <3>1. driver \in Job
      BY DEF TypeOK, Job
    <3>2. queue' \in Seq(Job)
      BY <2>2, <3>1, AppendKeeps DEF SchedulerEnqueues, TypeOK
    <3> QED
      BY <2>2, <3>2 DEF SchedulerEnqueues, TypeOK, loops, accounts, discovery
  <2>3. CASE SchedulerFails(w)
    BY <2>3, BoundAssumption DEF SchedulerFails, TypeOK, loops, accounts, discovery
  <2>4. CASE Dequeue(w)
    <3>1. queue' \in Seq(Job) /\ Head(queue) \in Job
      BY <2>4, TailKeeps DEF Dequeue, TypeOK
    <3>2. job' \in [Process -> Job \cup {Nobody}] /\ pc' \in [Process -> Label]
      BY <2>4, <3>1 DEF Dequeue, TypeOK, Goto, Label
    <3> QED
      BY <2>4, <3>1, <3>2 DEF Dequeue, TypeOK, schedulers, accounts, discovery
  <2>5. CASE ProcessAccount(w)
    <3>1. job[w] \in Account
      BY <2>5 DEF ProcessAccount, Busy
    <3> QED
      BY <2>5, <3>1, BoundAssumption
         DEF ProcessAccount, Idle, Goto, TypeOK, Label, schedulers, discovery
  <2>6. CASE HandlerRaises(w)
    BY <2>6, BoundAssumption DEF HandlerRaises, Drop, Idle, Goto, TypeOK, Label, schedulers
  <2>7. CASE Die(w)
    BY <2>7, BoundAssumption DEF Die, Drop, Idle, Goto, TypeOK, Label
  <2>8. CASE RefreshScan(w)
    <3>1. todo' \in [Process -> SUBSET Account]
      BY <2>8 DEF RefreshScan, Batches, Due, TypeOK
    <3> QED
      BY <2>8, <3>1 DEF RefreshScan, Goto, TypeOK, Label, schedulers, accounts, discovery
  <2>9. ASSUME NEW a \in Account, RefreshStamp(w, a) PROVE TypeOK'
    <3>1. queue' \in Seq(Job)
      BY <2>9, AppendKeeps DEF RefreshStamp, TypeOK, Job
    <3> QED
      BY <2>9, <3>1 DEF RefreshStamp, TypeOK, schedulers, discovery
  <2>10. CASE RefreshCommit(w)
    <3>1. now[w] \in Age
      BY AgeFacts, BoundAssumption DEF TypeOK, Age
    <3>2. stamp' \in [Account -> Age]
      BY <2>10, <3>1 DEF RefreshCommit, TypeOK
    <3> QED
      BY <2>10, <3>2, BoundAssumption
         DEF RefreshCommit, Idle, Goto, TypeOK, Label, schedulers, discovery
  <2>11. CASE DiscoverStart(w)
    BY <2>11 DEF DiscoverStart, Goto, TypeOK, Label, schedulers, accounts, discovery
  <2>12. CASE DiscoverClaim(w)
    <3>1. pc' \in [Process -> Label] /\ job' \in [Process -> Job \cup {Nobody}]
      BY <2>12 DEF DiscoverClaim, Idle, Goto, TypeOK, Label
    <3>2. CASE SlotIsFree(w)
      BY <2>12, <3>1, <3>2 DEF DiscoverClaim, TypeOK, schedulers, accounts
    <3>3. CASE ~SlotIsFree(w)
      BY <2>12, <3>1, <3>3, BoundAssumption DEF DiscoverClaim, Idle, TypeOK, schedulers, accounts
    <3> QED
      BY <3>2, <3>3
  <2>13. CASE DiscoverSearch(w)
    BY <2>13 DEF DiscoverSearch, Goto, TypeOK, Label, schedulers, accounts, discovery
  <2>14. CASE DiscoverPaused(w)
    BY <2>14, BoundAssumption
       DEF DiscoverPaused, Close, Idle, Goto, TypeOK, Label, schedulers, accounts
  <2>15. CASE DiscoverRan(w)
    <3>1. now[w] \in 0 .. Free
      BY AgeFacts, BoundAssumption DEF TypeOK
    <3> QED
      BY <2>15, <3>1, BoundAssumption
         DEF DiscoverRan, Close, Idle, Goto, TypeOK, Label, schedulers, accounts
  <2> QED
    BY <1>w, <2>1, <2>2, <2>3, <2>4, <2>5, <2>6, <2>7, <2>8, <2>9, <2>10, <2>11, <2>12, <2>13,
       <2>14, <2>15 DEF Scheduler, Loop, Refresh, Discover
<1>1. CASE ProfileChanges
  BY <1>1 DEF ProfileChanges, TypeOK, schedulers, loops, accounts, discovery
<1>2. CASE AlertAcknowledged
  BY <1>2 DEF AlertAcknowledged, TypeOK, schedulers, loops, accounts
<1>3. CASE Tick
  <2>1. stamp' \in [Account -> Age]
    BY <1>3, OlderIsOlder DEF Tick, TypeOK
  <2>2. now' \in [Process -> 0 .. Interval]
    BY <1>3, BoundAssumption DEF Tick, TypeOK
  <2>3. slot' \in 0 .. Free
    BY <1>3, AgeFacts DEF Tick, TypeOK
  <2> QED
    BY <1>3, <2>1, <2>2, <2>3 DEF Tick, TypeOK
<1>4. CASE UNCHANGED vars
  BY <1>4 DEF vars, TypeOK, schedulers, loops, accounts, discovery
<1> QED
  BY <1>w, <1>1, <1>2, <1>3, <1>4 DEF Next

\* A step of w leaves the others' hands alone.
LEMMA BusyStep == TypeOK /\ Busy /\ [Next]_vars => Busy'
<1> SUFFICES ASSUME TypeOK, Busy, [Next]_vars PROVE Busy'
  OBVIOUS
<1> DEFINE Others(w) == \A v \in Process \ {w} : pc'[v] = pc[v] /\ job'[v] = job[v]
           Hands(w) == /\ pc'[w] = "idle" => job'[w] = Nobody
                       /\ pc'[w] = "process" => job'[w] \in Account
                       /\ pc'[w] \notin {"idle", "process"} => job'[w] \in Drivers
<1>1. ASSUME NEW w \in Process, Others(w), Hands(w) PROVE Busy'
  BY <1>1 DEF Busy
<1>2. ASSUME UNCHANGED <<pc, job>> PROVE Busy'
  BY <1>2 DEF Busy
<1>w. ASSUME NEW w \in Process, Scheduler(w) \/ Loop(w) \/ SchedulerFails(w) \/ HandlerRaises(w) \/ Die(w)
      PROVE  Busy'
  <2>1. CASE Scheduler(w) \/ SchedulerFails(w)
    BY <2>1, <1>2 DEF Scheduler, SchedulerWakes, SchedulerEnqueues, SchedulerFails, loops
  <2>2. CASE Dequeue(w)
    <3>1. Head(queue) \in Job
      BY <2>2, TailKeeps DEF Dequeue, TypeOK
    <3>2. Others(w) /\ job'[w] = Head(queue) /\ pc'[w] = IF Head(queue) \in Account THEN "process" ELSE "start"
      BY <2>2 DEF Dequeue, Goto, TypeOK
    <3> QED
      BY <3>1, <3>2, <1>1 DEF Job
  <2>3. ASSUME Idle(w) PROVE Busy'
    <3>1. Others(w) /\ Hands(w)
      BY <2>3 DEF Idle, Goto, TypeOK
    <3> QED
      BY <3>1, <1>1
  <2>4. ASSUME NEW label \in Label \ {"idle", "process"}, Goto(w, label), UNCHANGED job,
               pc[w] \notin {"idle", "process"}
        PROVE  Busy'
    <3>1. Others(w) /\ Hands(w)
      BY <2>4 DEF Goto, TypeOK, Busy
    <3> QED
      BY <3>1, <1>1
  <2>5. CASE ProcessAccount(w) \/ HandlerRaises(w) \/ Die(w)
    BY <2>5, <2>3 DEF ProcessAccount, HandlerRaises, Die, Drop
  <2>6. CASE Refresh(w)
    <3>1. CASE RefreshScan(w)
      BY <3>1, <2>4 DEF RefreshScan, Label
    <3>2. CASE \E a \in Account : RefreshStamp(w, a)
      BY <3>2, <1>2 DEF RefreshStamp
    <3>3. CASE RefreshCommit(w)
      BY <3>3, <2>3 DEF RefreshCommit
    <3> QED
      BY <2>6, <3>1, <3>2, <3>3 DEF Refresh
  <2>7. CASE Discover(w)
    <3>1. CASE DiscoverStart(w)
      BY <3>1, <2>4 DEF DiscoverStart, Label
    <3>2. CASE DiscoverClaim(w)
      <4>1. CASE SlotIsFree(w)
        BY <3>2, <4>1, <2>4 DEF DiscoverClaim, Label
      <4>2. CASE ~SlotIsFree(w)
        BY <3>2, <4>2, <2>3 DEF DiscoverClaim
      <4> QED
        BY <4>1, <4>2
    <3>3. CASE DiscoverSearch(w)
      BY <3>3, <2>4 DEF DiscoverSearch, Label
    <3>4. CASE DiscoverPaused(w) \/ DiscoverRan(w)
      BY <3>4, <2>3 DEF DiscoverPaused, DiscoverRan, Close
    <3> QED
      BY <2>7, <3>1, <3>2, <3>3, <3>4 DEF Discover
  <2> QED
    BY <1>w, <2>1, <2>2, <2>5, <2>6, <2>7 DEF Loop
<1>3. CASE ProfileChanges \/ AlertAcknowledged \/ Tick
  BY <1>3, <1>2 DEF ProfileChanges, AlertAcknowledged, Tick, loops
<1>4. CASE UNCHANGED vars
  BY <1>4, <1>2 DEF vars, loops
<1> QED
  BY <1>w, <1>3, <1>4 DEF Next

\* Every variable keeps its type, whoever dies and whatever is lost.
THEOREM TypeCorrect == Spec => []TypeOK
<1>1. Init => TypeOK /\ Busy
  BY WorkInit DEF WorkInv
<1>2. TypeOK /\ Busy /\ [Next]_vars => TypeOK' /\ Busy'
  BY TypeStep, BusyStep
<1> QED
  BY <1>1, <1>2, PTL DEF Spec

-----------------------------------------------------------------------------
(* Stamps and jobs *)

\* What was asked for stays so: a job leaves the queue for a worker's hands, and
\* those only when it is settled.
AskedStays == \A a \in Account : Asked(a) => Asked(a)'

LEMMA StaysAsked ==
    ASSUME TypeOK, JobInv, AskedStays, UNCHANGED <<stamp, claimed>>
    PROVE  JobInv'
BY DEF TypeOK, JobInv, AskedStays

\* w lets go of a job, which is settled if it was about an account.
LEMMA LetsGo ==
    ASSUME TypeOK, NEW w \in Process, UNCHANGED queue, \A v \in Process \ {w} : job'[v] = job[v],
           settled \subseteq settled', job[w] \in Account => job[w] \in settled'
    PROVE  AskedStays
BY DEF AskedStays, Asked, HasJob

\* w's session is over: what it had claimed is gone, or stamped.
LEMMA JobStep == TypeOK /\ Busy /\ JobInv /\ [Next]_vars => JobInv'
<1> SUFFICES ASSUME TypeOK, Busy, JobInv, [Next]_vars PROVE JobInv'
  OBVIOUS
<1>1. ASSUME UNCHANGED <<queue, job, settled>> PROVE AskedStays
  BY <1>1 DEF AskedStays, Asked, HasJob
<1>w. ASSUME NEW w \in Process, Scheduler(w) \/ Loop(w) \/ SchedulerFails(w) \/ HandlerRaises(w) \/ Die(w)
      PROVE  JobInv'
  <2>1. CASE SchedulerWakes(w) \/ SchedulerFails(w)
    BY <2>1, <1>1, StaysAsked DEF SchedulerWakes, SchedulerFails, loops, accounts
  <2>2. CASE SchedulerEnqueues(w)
    <3>1. \A a : InQueue(queue, a) => InQueue(queue', a)
      BY <2>2, AppendKeeps DEF SchedulerEnqueues, TypeOK, Job
    <3>2. AskedStays
      BY <2>2, <3>1 DEF SchedulerEnqueues, loops, accounts, AskedStays, Asked, HasJob, InQueue
    <3> QED
      BY <2>2, <3>2, StaysAsked DEF SchedulerEnqueues, loops, accounts
  <2>3. CASE Dequeue(w)
    <3>1. \A a : InQueue(queue, a) => InQueue(queue', a) \/ a = job'[w]
      BY <2>3, TailKeeps DEF Dequeue, TypeOK
    <3>2. job[w] \notin Account
      BY <2>3, AgeFacts DEF Dequeue, Busy
    <3>3. \A v \in Process \ {w} : job'[v] = job[v]
      BY <2>3 DEF Dequeue, TypeOK
    <3>4. AskedStays
      BY <2>3, <3>1, <3>2, <3>3 DEF Dequeue, accounts, AskedStays, Asked, HasJob, InQueue
    <3> QED
      BY <2>3, <3>4, StaysAsked DEF Dequeue, accounts
  <2>4. CASE ProcessAccount(w)
    <3>1. \A v \in Process \ {w} : job'[v] = job[v]
      BY <2>4 DEF ProcessAccount, Idle, TypeOK
    <3>2. AskedStays
      BY <2>4, <3>1, LetsGo DEF ProcessAccount
    <3> QED
      BY <2>4, <3>2, StaysAsked DEF ProcessAccount
  <2>5. CASE HandlerRaises(w) \/ Die(w)
    <3>1. /\ Drop(w)
          /\ UNCHANGED <<queue, stamp>>
      BY <2>5 DEF HandlerRaises, Die
    <3>2. /\ \A v \in Process \ {w} : job'[v] = job[v]
          /\ \A v \in Process : claimed'[v] \subseteq claimed[v]
      BY <3>1 DEF Drop, Idle, TypeOK
    <3>3. AskedStays
      BY <3>1, <3>2, LetsGo DEF Drop
    <3> QED
      BY <3>1, <3>2, <3>3 DEF JobInv, AskedStays, TypeOK
  <2>6. CASE RefreshScan(w)
    BY <2>6, <1>1, StaysAsked DEF RefreshScan, accounts
  <2>7. ASSUME NEW a \in Account, RefreshStamp(w, a) PROVE JobInv'
    <3>1. InQueue(queue', a) /\ \A b : InQueue(queue, b) => InQueue(queue', b)
      BY <2>7, AppendKeeps DEF RefreshStamp, TypeOK, Job
    <3>2. AskedStays /\ Asked(a)'
      BY <2>7, <3>1 DEF RefreshStamp, AskedStays, Asked, HasJob, InQueue
    <3>3. \A v \in Process : claimed'[v] \subseteq claimed[v] \cup {a}
      BY <2>7 DEF RefreshStamp, TypeOK
    <3> QED
      BY <2>7, <3>2, <3>3 DEF RefreshStamp, JobInv, AskedStays, TypeOK
  <2>8. CASE RefreshCommit(w)
    <3>1. job[w] \notin Account
      BY <2>8, DriverAssumption DEF RefreshCommit, Busy
    <3>2. /\ \A v \in Process \ {w} : job'[v] = job[v]
          /\ \A v \in Process : claimed'[v] \subseteq claimed[v]
          /\ \A b \in Account : stamp'[b] = stamp[b] \/ b \in claimed[w]
      BY <2>8 DEF RefreshCommit, Idle, TypeOK
    <3>3. AskedStays
      BY <2>8, <3>1, <3>2, LetsGo DEF RefreshCommit
    <3> QED
      BY <3>2, <3>3 DEF JobInv, AskedStays, TypeOK
  <2>9. CASE Discover(w)
    <3>1. /\ UNCHANGED <<queue, stamp, settled, claimed>>
          /\ UNCHANGED job \/ (Idle(w) /\ pc[w] \in {"slot", "alert", "paused", "ran"})
      BY <2>9 DEF Discover, DiscoverStart, DiscoverClaim, DiscoverSearch, DiscoverPaused,
                  DiscoverRan, Close, accounts
    <3>2. CASE UNCHANGED job
      BY <3>1, <3>2, <1>1, StaysAsked
    <3>3. CASE Idle(w) /\ pc[w] \in {"slot", "alert", "paused", "ran"}
      <4>1. job[w] \notin Account /\ \A v \in Process \ {w} : job'[v] = job[v]
        BY <3>3, DriverAssumption DEF Idle, Busy, TypeOK
      <4> QED
        BY <3>1, <4>1, LetsGo, StaysAsked
    <3> QED
      BY <3>1, <3>2, <3>3
  <2> QED
    BY <1>w, <2>1, <2>2, <2>3, <2>4, <2>5, <2>6, <2>7, <2>8, <2>9 DEF Scheduler, Loop, Refresh
<1>2. CASE ProfileChanges \/ AlertAcknowledged
  BY <1>2, <1>1, StaysAsked DEF ProfileChanges, AlertAcknowledged, loops, accounts
<1>3. CASE Tick
  <2>1. \A a \in Account : stamp'[a] >= stamp[a] /\ stamp'[a] \in Nat
    BY <1>3, OlderIsOlder, AgeFacts DEF Tick, TypeOK, Age
  <2>2. AskedStays
    BY <1>3, <1>1 DEF Tick
  <2>3. \A a \in Account : stamp'[a] < Interval => stamp[a] < Interval
    BY <2>1, BoundAssumption DEF TypeOK, Age
  <2> QED
    BY <1>3, <2>2, <2>3 DEF Tick, JobInv, AskedStays, TypeOK
<1>4. CASE UNCHANGED vars
  BY <1>4, <1>1, StaysAsked DEF vars, loops, accounts
<1> QED
  BY <1>w, <1>2, <1>3, <1>4 DEF Next

\* An account that is not due was processed, is about to be, or its job was lost: no
\* stamp hides one that nobody was asked to process, for any number of overlapping
\* scans (handle_refresh_due_accounts enqueues before it commits).
THEOREM StampSafe == Spec => []StampHasJob
<1>1. Init => TypeOK /\ Busy /\ JobInv
  BY WorkInit DEF WorkInv
<1>2. TypeOK /\ Busy /\ JobInv /\ [Next]_vars => TypeOK' /\ Busy' /\ JobInv'
  BY TypeStep, BusyStep, JobStep
<1>3. JobInv => StampHasJob
  BY DEF JobInv, StampHasJob, Asked
<1> QED
  BY <1>1, <1>2, <1>3, PTL DEF Spec

-----------------------------------------------------------------------------
(* The slot *)

LEMMA SlotStep == TypeOK /\ SlotInv /\ [Next]_vars => SlotInv'
<1> SUFFICES ASSUME TypeOK, SlotInv, [Next]_vars PROVE SlotInv'
  OBVIOUS
<1>1. ASSUME UNCHANGED <<pc, now, tenant, slot>> PROVE SlotInv'
  BY <1>1 DEF SlotInv, SlotIsFree
<1>w. ASSUME NEW w \in Process, Scheduler(w) \/ Loop(w) \/ SchedulerFails(w) \/ HandlerRaises(w) \/ Die(w)
      PROVE  SlotInv'
  <2>1. CASE Scheduler(w) \/ SchedulerFails(w) \/ \E a \in Account : RefreshStamp(w, a)
    BY <2>1, <1>1 DEF Scheduler, SchedulerWakes, SchedulerEnqueues, SchedulerFails,
                      RefreshStamp, loops, discovery
  \* A step of w outside its search.
  <2>2. ASSUME NEW label \in Label \ Searching, Goto(w, label), UNCHANGED <<slot, tenant>>,
               \A v \in Process \ {w} : now'[v] = now[v]
        PROVE  SlotInv'
    <3>1. pc'[w] \notin Searching /\ \A v \in Process \ {w} : pc'[v] = pc[v]
      BY <2>2 DEF Goto, TypeOK
    <3> QED
      BY <2>2, <3>1 DEF SlotInv, SlotIsFree
  \* w's job is over, and with it its lock.
  <2>3. ASSUME Idle(w), UNCHANGED slot, tenant' = IF tenant = w THEN Nobody ELSE tenant
        PROVE  SlotInv'
    <3>1. /\ pc'[w] = "idle" /\ \A v \in Process \ {w} : pc'[v] = pc[v] /\ now'[v] = now[v]
      BY <2>3 DEF Idle, Goto, TypeOK
    <3> QED
      BY <2>3, <3>1 DEF SlotInv, SlotIsFree, Searching
  <2>4. CASE Dequeue(w)
    BY <2>4, <2>2 DEF Dequeue, Label, Searching, discovery
  <2>5. CASE ProcessAccount(w) \/ RefreshCommit(w)
    <3>1. Goto(w, "idle") /\ UNCHANGED <<slot, tenant>> /\ \A v \in Process \ {w} : now'[v] = now[v]
      BY <2>5 DEF ProcessAccount, RefreshCommit, Idle, TypeOK, discovery
    <3> QED
      BY <3>1, <2>2 DEF Label, Searching
  <2>6. CASE HandlerRaises(w) \/ Die(w)
    BY <2>6, <2>3 DEF HandlerRaises, Die, Drop
  <2>7. CASE RefreshScan(w) \/ DiscoverStart(w)
    BY <2>7, <2>2 DEF RefreshScan, DiscoverStart, Label, Searching, discovery
  <2>8. CASE DiscoverClaim(w)
    <3>1. CASE ~SlotIsFree(w)
      <4>1. Goto(w, "idle") /\ UNCHANGED <<slot, tenant>> /\ \A v \in Process \ {w} : now'[v] = now[v]
        BY <2>8, <3>1 DEF DiscoverClaim, Idle, TypeOK
      <4> QED
        BY <4>1, <2>2 DEF Label, Searching
    <3>2. CASE SlotIsFree(w)
      <4>1. \A v \in Process : pc[v] \notin Searching
        BY <2>8, ProcessAssumption DEF DiscoverClaim, SlotInv
      <4>2. \A v \in Process \ {w} : pc'[v] = pc[v]
        BY <2>8, <3>2 DEF DiscoverClaim, Goto, TypeOK
      <4>3. tenant' = w /\ UNCHANGED <<slot, now>>
        BY <2>8, <3>2 DEF DiscoverClaim
      <4> QED
        BY <3>2, <4>1, <4>2, <4>3 DEF SlotInv, SlotIsFree
    <3> QED
      BY <3>1, <3>2
  <2>9. CASE DiscoverSearch(w)
    <3>1. /\ pc[w] \in Searching /\ \A v \in Process \ {w} : pc'[v] = pc[v]
          /\ UNCHANGED <<tenant, slot, now>>
      BY <2>9 DEF DiscoverSearch, Goto, TypeOK, Searching, discovery
    <3> QED
      BY <3>1 DEF SlotInv, SlotIsFree
  <2>10. CASE DiscoverPaused(w)
    BY <2>10, <2>3 DEF DiscoverPaused, Close
  <2>11. CASE DiscoverRan(w)
    <3>1. \A v \in Process \ {w} : pc[v] \notin Searching
      BY <2>11 DEF DiscoverRan, SlotInv, Searching
    <3>2. pc'[w] = "idle" /\ \A v \in Process \ {w} : pc'[v] = pc[v]
      BY <2>11 DEF DiscoverRan, Close, Idle, Goto, TypeOK
    <3> QED
      BY <3>1, <3>2 DEF SlotInv, Searching
  <2> QED
    BY <1>w, <2>1, <2>4, <2>5, <2>6, <2>7, <2>8, <2>9, <2>10, <2>11 DEF Loop, Refresh, Discover
<1>2. CASE ProfileChanges \/ AlertAcknowledged
  BY <1>2, <1>1 DEF ProfileChanges, AlertAcknowledged, loops, discovery
<1>3. CASE Tick
  <2> SUFFICES ASSUME NEW w \in Process, pc'[w] \in Searching
               PROVE  tenant' = w /\ slot' >= Interval + now'[w]
    BY DEF SlotInv, SlotIsFree
  <2>1. /\ pc[w] \in Searching /\ tenant = w /\ tenant' = tenant
        /\ slot >= Interval + now[w]
    BY <1>3 DEF Tick, SlotInv, SlotIsFree
  <2>2. now'[w] \in {0, now[w] + 1} /\ now[w] + 1 < Interval /\ now[w] \in Nat
    BY <1>3, BoundAssumption DEF Tick, TypeOK
  <2>3. slot' = slot + 1 \/ (slot' = slot /\ slot >= 2 * Interval)
    <3>1. slot \in Nat /\ Interval \in Nat
      BY BoundAssumption DEF TypeOK, Free
    <3>2. slot' = IF slot < 2 * Interval THEN slot + 1 ELSE slot
      BY <1>3 DEF Tick, Free
    <3> QED
      BY <3>1, <3>2
  <2> QED
    BY <2>1, <2>2, <2>3, BoundAssumption DEF TypeOK, Free
<1>4. CASE UNCHANGED vars
  BY <1>4, <1>1 DEF vars, loops, discovery
<1> QED
  BY <1>w, <1>2, <1>3, <1>4 DEF Next

\* Who searches for accounts is alone, and its slot is free, for any number of
\* workers and however often the driver is enqueued (the tenant is selected FOR UPDATE).
THEOREM SearchAloneSafe == Spec => []SearchAlone
<1>1. Init => TypeOK /\ Busy /\ SlotInv
  BY WorkInit DEF WorkInv
<1>2. TypeOK /\ Busy /\ SlotInv /\ [Next]_vars => TypeOK' /\ Busy' /\ SlotInv'
  BY TypeStep, BusyStep, SlotStep
<1>3. SlotInv => SearchAlone
  BY DEF SlotInv, SearchAlone, Searching
<1> QED
  BY <1>1, <1>2, <1>3, PTL DEF Spec

-----------------------------------------------------------------------------
(* The CRM sync (MCCRMSync). *)

\* Whoever has a company in hand, or has its id on the account, has one that the CRM
\* holds; while no two first pushes have overlapped, whoever is about to create one
\* creates the first, unless its search was refused when there was one.
CompanyInv ==
    /\ synced => crmId # None
    /\ crmId # None => crmId \in companies
    /\ \A w \in Worker : /\ found[w] # None => found[w] \in companies
                         /\ at[w] \in {"list", "notes"} => found[w] # None
                         /\ Crm!Loaded(w) /\ ~first[w] => synced
    /\ \A w \in Worker : w \in blind => at[w] = "upsert" /\ companies # {}
    /\ raced \/ /\ \A c, d \in companies \ blind : c = d
                /\ \A w \in Worker : Crm!Creates(w) => companies = {}

\* Unless an edit overtook a job, nobody holds an outdated copy of the account, so what
\* is pushed is what it is; and a job that leaves the id alone, which an overlapping
\* one may have replaced, leaves the id of a company that was pushed to.
StepInv ==
    /\ \A w \in Worker : w \in outdated => Crm!Loaded(w) /\ overrun
    /\ \A w \in Worker : at[w] \in {"list", "notes"} => overrun \/ found[w] \notin outdated
    /\ \A w \in Worker : Crm!Loaded(w) /\ ~first[w] =>
          /\ found[w] # None /\ at[w] # "search"
          /\ found[w] = crmId \/ overrun \/ crmId \notin outdated
    /\ due \/ ~synced \/ overrun \/ crmId \notin outdated

\* A signal that is not newer than the stamp is accounted for before it is committed; one
\* that is not newer than the clock value of a job about to commit is on its list, was
\* invisible to it, or was accounted for when the job loaded the stamp.
SignalInv ==
    /\ \A s \in Signal : ingested[s] # "none" => s \in fresh \cup told \cup excused
    /\ \A w \in Worker : Crm!Loaded(w) => old[w] \subseteq told \cup excused
    /\ \A w \in Worker : at[w] = "notes" /\ kind[w] # "play" /\ ~first[w] =>
          \A s \in Signal : ingested[s] # "none" =>
              s \in later[w] \cup unseen[w] \cup left[w] \cup told \cup excused

CrmInv == Crm!TypeOK /\ CompanyInv /\ StepInv /\ SignalInv

-----------------------------------------------------------------------------

LEMMA NewIsNew == Crm!NewCompany \subseteq Company \ companies
BY DEF Crm!NewCompany

LEMMA CrmTyped == Crm!TypeOK /\ [Crm!Next]_crm => Crm!TypeOK'
<1> SUFFICES ASSUME Crm!TypeOK, [Crm!Next]_crm PROVE Crm!TypeOK'
  OBVIOUS
<1> USE CompanyAssumption, FailuresAssumption
<1> USE DEF Crm!TypeOK, Crm!Label, Crm!Kind, Crm!Goto, Crm!Forget, Crm!row, Crm!signals, Crm!remote, Crm!jobs,
            Crm!history
<1>1. ASSUME NEW w \in Worker, Crm!Sweep(w) PROVE Crm!TypeOK'
  BY <1>1 DEF Crm!Sweep
<1>2. ASSUME NEW w \in Worker, NEW k \in Crm!Kind, Crm!StartJob(w, k) PROVE Crm!TypeOK'
  BY <1>2 DEF Crm!StartJob
<1>3. ASSUME NEW w \in Worker, Crm!Load(w) PROVE Crm!TypeOK'
  BY <1>3 DEF Crm!Load
<1>4. ASSUME NEW w \in Worker, Crm!SearchCompany(w) PROVE Crm!TypeOK'
  BY <1>4 DEF Crm!SearchCompany
<1>5. ASSUME NEW w \in Worker, Crm!Upsert(w) PROVE Crm!TypeOK'
  BY <1>5, NewIsNew DEF Crm!Upsert, Crm!Pushed
<1>6. ASSUME NEW w \in Worker, Crm!PushFails(w) PROVE Crm!TypeOK'
  BY <1>6 DEF Crm!PushFails
<1>7. ASSUME NEW w \in Worker, Crm!ListSignals(w) PROVE Crm!TypeOK'
  BY <1>7 DEF Crm!ListSignals
<1>8. ASSUME NEW w \in Worker, NEW s \in Signal, Crm!PushNote(w, s) PROVE Crm!TypeOK'
  BY <1>8 DEF Crm!PushNote
<1>9. ASSUME NEW w \in Worker, Crm!Commit(w) PROVE Crm!TypeOK'
  <2>1. Crm!Excused(w) \subseteq Signal
    BY DEF Crm!Excused
  <2>2. excused' \subseteq Signal /\ fresh' \subseteq Signal /\ outdated' \subseteq Company \cup Worker
    BY <1>9, <2>1 DEF Crm!Commit
  <2>3. crmId' \in Company \cup {None} /\ found' \in [Worker -> Company \cup {None}]
    BY <1>9 DEF Crm!Commit
  <2>4. /\ at' \in [Worker -> Crm!Label] /\ kind' \in [Worker -> Crm!Kind] /\ first' \in [Worker -> BOOLEAN]
        /\ {old', left', later', unseen'} \subseteq [Worker -> SUBSET Signal]
    BY <1>9 DEF Crm!Commit
  <2>5. {due', synced', overrun', raced'} \subseteq BOOLEAN
    BY <1>9 DEF Crm!Commit
  <2>6. UNCHANGED <<ingested, companies, told, blind, failures>>
    BY <1>9 DEF Crm!Commit
  <2> QED
    BY <2>2, <2>3, <2>4, <2>5, <2>6
<1>10. ASSUME NEW w \in Worker, Crm!PlayEnds(w) PROVE Crm!TypeOK'
  BY <1>10 DEF Crm!PlayEnds
<1>11. ASSUME NEW w \in Worker, Crm!Die(w) PROVE Crm!TypeOK'
  BY <1>11 DEF Crm!Die
<1>12. CASE Crm!Edit
  BY <1>12 DEF Crm!Edit
<1>13. ASSUME NEW s \in Signal, Crm!FlushSignal(s) PROVE Crm!TypeOK'
  BY <1>13 DEF Crm!FlushSignal
<1>14. ASSUME NEW s \in Signal, Crm!CommitSignal(s) PROVE Crm!TypeOK'
  BY <1>14 DEF Crm!CommitSignal
<1>15. ASSUME NEW w \in Worker, Crm!SearchRefused(w) PROVE Crm!TypeOK'
  BY <1>15 DEF Crm!SearchRefused
<1>16. CASE UNCHANGED crm
  BY <1>16 DEF crm
<1> QED
  BY <1>1, <1>2, <1>3, <1>4, <1>5, <1>6, <1>7, <1>8, <1>9, <1>10, <1>11, <1>12, <1>13, <1>14, <1>15, <1>16
  DEF Crm!Next, Crm!SyncStep

LEMMA CrmCompanies == Crm!TypeOK /\ CompanyInv /\ [Crm!Next]_crm => CompanyInv'
<1> SUFFICES ASSUME Crm!TypeOK, CompanyInv, [Crm!Next]_crm PROVE CompanyInv'
  OBVIOUS
<1> USE CompanyAssumption
<1> USE DEF CompanyInv, Crm!Creates, Crm!Loaded, Crm!TypeOK, Crm!Label, Crm!Kind, Crm!Goto, Crm!Forget, Crm!row, Crm!signals, Crm!remote,
            Crm!jobs, Crm!history
<1>1. ASSUME NEW w \in Worker, Crm!Sweep(w) PROVE CompanyInv'
  BY <1>1 DEF Crm!Sweep
<1>2. ASSUME NEW w \in Worker, NEW k \in Crm!Kind, Crm!StartJob(w, k) PROVE CompanyInv'
  BY <1>2 DEF Crm!StartJob
<1>3. ASSUME NEW w \in Worker, Crm!Load(w) PROVE CompanyInv'
  <2>1. /\ found' = [found EXCEPT ![w] = crmId] /\ first' = [first EXCEPT ![w] = ~synced]
        /\ at' = [at EXCEPT ![w] = IF crmId = None THEN "search" ELSE "upsert"]
        /\ synced' = synced /\ crmId' = crmId /\ companies' = companies /\ raced' = raced
        /\ blind' = blind /\ at[w] = "load"
    BY <1>3 DEF Crm!Load
  <2>2. /\ found'[w] = crmId /\ first'[w] = ~synced /\ at'[w] \in {"search", "upsert"}
        /\ at'[w] = "upsert" => crmId # None
        /\ \A v \in Worker \ {w} : found'[v] = found[v] /\ first'[v] = first[v] /\ at'[v] = at[v]
    BY <2>1
  <2>3. (\A c, d \in companies \ blind : c = d)' \/ raced'
    BY <2>1
  <2>4. raced' \/ (\A v \in Worker : Crm!Creates(v) => companies = {})'
    <3> SUFFICES ASSUME ~raced, NEW v \in Worker, (at[v] = "upsert" /\ found[v] = None /\ v \notin blind)' PROVE companies' = {}
      BY <2>1
    <3>1. v # w
      BY <2>2
    <3>2. at[v] = "upsert" /\ found[v] = None /\ v \notin blind
      BY <2>1, <2>2, <3>1
    <3> QED
      BY <2>1, <3>2
  <2>5. (\A v \in Worker : /\ found[v] # None => found[v] \in companies
                           /\ at[v] \in {"list", "notes"} => found[v] # None
                           /\ Crm!Loaded(v) /\ ~first[v] => synced)'
    <3> SUFFICES ASSUME NEW v \in Worker
                 PROVE  (/\ found[v] # None => found[v] \in companies
                         /\ at[v] \in {"list", "notes"} => found[v] # None
                         /\ Crm!Loaded(v) /\ ~first[v] => synced)'
      OBVIOUS
    <3>1. CASE v = w
      <4>1. /\ found'[v] = crmId
            /\ crmId = None \/ crmId \in companies'
            /\ at'[v] \in {"search", "upsert"}
        BY <2>1, <2>2, <3>1
      <4>2. first'[v] \/ synced'
        BY <2>1, <2>2, <3>1
      <4> QED
        BY <4>1, <4>2
    <3>2. CASE v # w
      BY <2>1, <2>2, <3>2
    <3> QED
      BY <3>1, <3>2
  <2>6. (synced' => crmId' # None) /\ (crmId' # None => crmId' \in companies')
    BY <2>1
  <2>7. (\A v \in Worker : v \in blind => at[v] = "upsert" /\ companies # {})'
    BY <2>1, <2>2
  <2> QED
    BY <2>3, <2>4, <2>5, <2>6, <2>7
<1>4. ASSUME NEW w \in Worker, Crm!SearchCompany(w) PROVE CompanyInv'
  BY <1>4 DEF Crm!SearchCompany
<1>5. ASSUME NEW w \in Worker, Crm!Upsert(w) PROVE CompanyInv'
  <2>1. PICK c \in IF found[w] = None THEN Crm!NewCompany ELSE {found[w]} :
           /\ companies' = companies \cup {c}
           /\ raced' = (raced \/ \E v \in Worker \ {w} : Crm!Creates(v) /\ Crm!Creates(w))
           /\ found' = [found EXCEPT ![w] = c]
           /\ blind' = IF w \in blind THEN (blind \ {w}) \cup {c} ELSE blind
    BY <1>5 DEF Crm!Upsert
  <2>2. /\ synced' = synced /\ crmId' = crmId /\ first' = first
        /\ at[w] = "upsert" /\ at'[w] \in {"list", "notes"}
        /\ \A v \in Worker \ {w} : at'[v] = at[v] /\ found'[v] = found[v]
        /\ c # None /\ found'[w] = c /\ c \in Company /\ c \notin Worker
        /\ found[w] # None => c \in companies
    BY <1>5, <2>1, NewIsNew DEF Crm!Upsert
  <2>3. \A v \in Worker : /\ v \in blind' <=> v \in blind /\ v # w
                          /\ Crm!Creates(v)' => v # w /\ Crm!Creates(v)
    BY <2>1, <2>2
  \* Whoever is left to create the first, if there was none to find, is alone.
  <2>4. raced' \/ (\A v \in Worker : Crm!Creates(v) => companies = {})'
    <3> SUFFICES ASSUME ~raced', NEW v \in Worker, Crm!Creates(v)' PROVE FALSE
      OBVIOUS
    <3>1. v # w /\ Crm!Creates(v) /\ companies = {} /\ ~raced
      BY <2>1, <2>3
    <3>2. found[w] = None /\ w \notin blind
      BY <2>2, <3>1
    <3> QED
      BY <2>1, <2>2, <3>1, <3>2
  <2>5. raced' \/ (\A a, b \in companies \ blind : a = b)'
    <3> SUFFICES ASSUME ~raced' PROVE (\A a, b \in companies \ blind : a = b)'
      OBVIOUS
    <3>1. CASE Crm!Creates(w)
      BY <2>1, <3>1
    <3>2. CASE ~Crm!Creates(w)
      BY <2>1, <2>2, <3>2
    <3> QED
      BY <3>1, <3>2
  <2>6. (\A v \in Worker : /\ found[v] # None => found[v] \in companies
                           /\ at[v] \in {"list", "notes"} => found[v] # None
                           /\ Crm!Loaded(v) /\ ~first[v] => synced)'
    BY <2>1, <2>2
  <2>7. (\A v \in Worker : v \in blind => at[v] = "upsert" /\ companies # {})'
    BY <2>1, <2>2, <2>3
  <2>8. (synced' => crmId' # None) /\ (crmId' # None => crmId' \in companies')
    BY <2>1, <2>2
  <2> QED
    BY <2>4, <2>5, <2>6, <2>7, <2>8
<1>6. ASSUME NEW w \in Worker, Crm!PushFails(w) PROVE CompanyInv'
  BY <1>6 DEF Crm!PushFails
<1>7. ASSUME NEW w \in Worker, Crm!ListSignals(w) PROVE CompanyInv'
  BY <1>7 DEF Crm!ListSignals
<1>8. ASSUME NEW w \in Worker, NEW s \in Signal, Crm!PushNote(w, s) PROVE CompanyInv'
  BY <1>8 DEF Crm!PushNote
<1>9. ASSUME NEW w \in Worker, Crm!Commit(w) PROVE CompanyInv'
  <2>1. /\ at[w] = "notes" /\ synced' /\ companies' = companies /\ raced' = raced /\ blind' = blind
        /\ crmId' = IF first[w] THEN found[w] ELSE crmId
        /\ at' = [at EXCEPT ![w] = "idle"] /\ found' = [found EXCEPT ![w] = None]
    BY <1>9 DEF Crm!Commit
  <2>2. crmId' # None /\ crmId' \in companies
    BY <2>1
  <2> QED
    BY <2>1, <2>2
<1>10. ASSUME NEW w \in Worker, Crm!PlayEnds(w) PROVE CompanyInv'
  BY <1>10 DEF Crm!PlayEnds
<1>11. ASSUME NEW w \in Worker, Crm!Die(w) PROVE CompanyInv'
  BY <1>11 DEF Crm!Die
<1>12. CASE Crm!Edit
  BY <1>12 DEF Crm!Edit
<1>13. ASSUME NEW s \in Signal, Crm!FlushSignal(s) PROVE CompanyInv'
  BY <1>13 DEF Crm!FlushSignal
<1>14. ASSUME NEW s \in Signal, Crm!CommitSignal(s) PROVE CompanyInv'
  BY <1>14 DEF Crm!CommitSignal
<1>15. ASSUME NEW w \in Worker, Crm!SearchRefused(w) PROVE CompanyInv'
  BY <1>15 DEF Crm!SearchRefused
<1>16. CASE UNCHANGED crm
  BY <1>16 DEF crm, Crm!Creates, Crm!Loaded
<1> QED
  BY <1>1, <1>2, <1>3, <1>4, <1>5, <1>6, <1>7, <1>8, <1>9, <1>10, <1>11, <1>12, <1>13, <1>14, <1>15, <1>16
  DEF Crm!Next, Crm!SyncStep

LEMMA CrmInStep == Crm!TypeOK /\ CompanyInv /\ StepInv /\ [Crm!Next]_crm => StepInv'
<1> SUFFICES ASSUME Crm!TypeOK, CompanyInv, StepInv, [Crm!Next]_crm PROVE StepInv'
  OBVIOUS
<1> USE CompanyAssumption
<1> USE DEF CompanyInv, StepInv, Crm!TypeOK, Crm!Label, Crm!Kind, Crm!Goto, Crm!Forget, Crm!Loaded, Crm!row, Crm!signals, Crm!remote,
            Crm!jobs, Crm!history
<1>1. ASSUME NEW w \in Worker, Crm!Sweep(w) PROVE StepInv'
  BY <1>1 DEF Crm!Sweep
<1>2. ASSUME NEW w \in Worker, NEW k \in Crm!Kind, Crm!StartJob(w, k) PROVE StepInv'
  BY <1>2 DEF Crm!StartJob
<1>3. ASSUME NEW w \in Worker, Crm!Load(w) PROVE StepInv'
  <2>1. /\ at[w] = "load" /\ UNCHANGED <<due, synced, crmId, outdated, overrun>>
        /\ at'[w] = IF crmId = None THEN "search" ELSE "upsert"
        /\ found'[w] = crmId /\ first'[w] = ~synced
        /\ \A v \in Worker \ {w} : at'[v] = at[v] /\ found'[v] = found[v] /\ first'[v] = first[v]
    BY <1>3 DEF Crm!Load
  <2>2. \A v \in Worker : Crm!Loaded(v)' <=> v = w \/ Crm!Loaded(v)
    BY <2>1
  <2>3. Crm!Loaded(w)' /\ ~first'[w] => found'[w] # None /\ at'[w] # "search" /\ found'[w] = crmId'
    BY <2>1
  <2> QED
    BY <2>1, <2>2, <2>3
<1>4. ASSUME NEW w \in Worker, Crm!SearchCompany(w) PROVE StepInv'
  BY <1>4 DEF Crm!SearchCompany
<1>5. ASSUME NEW w \in Worker, Crm!Upsert(w) PROVE StepInv'
  BY <1>5, NewIsNew DEF Crm!Upsert, Crm!Pushed
<1>6. ASSUME NEW w \in Worker, Crm!PushFails(w) PROVE StepInv'
  BY <1>6 DEF Crm!PushFails
<1>7. ASSUME NEW w \in Worker, Crm!ListSignals(w) PROVE StepInv'
  BY <1>7 DEF Crm!ListSignals
<1>8. ASSUME NEW w \in Worker, NEW s \in Signal, Crm!PushNote(w, s) PROVE StepInv'
  BY <1>8 DEF Crm!PushNote
<1>9. ASSUME NEW w \in Worker, Crm!Commit(w) PROVE StepInv'
  BY <1>9 DEF Crm!Commit, Crm!Excused
<1>10. ASSUME NEW w \in Worker, Crm!PlayEnds(w) PROVE StepInv'
  BY <1>10 DEF Crm!PlayEnds
<1>11. ASSUME NEW w \in Worker, Crm!Die(w) PROVE StepInv'
  BY <1>11 DEF Crm!Die
<1>12. CASE Crm!Edit
  BY <1>12 DEF Crm!Edit
<1>13. ASSUME NEW s \in Signal, Crm!FlushSignal(s) PROVE StepInv'
  BY <1>13 DEF Crm!FlushSignal
<1>14. ASSUME NEW s \in Signal, Crm!CommitSignal(s) PROVE StepInv'
  BY <1>14 DEF Crm!CommitSignal
<1>15. ASSUME NEW w \in Worker, Crm!SearchRefused(w) PROVE StepInv'
  BY <1>15 DEF Crm!SearchRefused
<1>16. CASE UNCHANGED crm
  BY <1>16 DEF crm, Crm!Creates, Crm!Loaded
<1> QED
  BY <1>1, <1>2, <1>3, <1>4, <1>5, <1>6, <1>7, <1>8, <1>9, <1>10, <1>11, <1>12, <1>13, <1>14, <1>15, <1>16
  DEF Crm!Next, Crm!SyncStep

LEMMA CrmSignals == Crm!TypeOK /\ SignalInv /\ [Crm!Next]_crm => SignalInv'
<1> SUFFICES ASSUME Crm!TypeOK, SignalInv, [Crm!Next]_crm PROVE SignalInv'
  OBVIOUS
<1> USE CompanyAssumption
<1> USE DEF SignalInv, Crm!TypeOK, Crm!Label, Crm!Kind, Crm!Goto, Crm!Forget, Crm!Loaded, Crm!row, Crm!signals, Crm!remote,
            Crm!jobs, Crm!history
<1>1. ASSUME NEW w \in Worker, Crm!Sweep(w) PROVE SignalInv'
  BY <1>1 DEF Crm!Sweep
<1>2. ASSUME NEW w \in Worker, NEW k \in Crm!Kind, Crm!StartJob(w, k) PROVE SignalInv'
  BY <1>2 DEF Crm!StartJob
<1>3. ASSUME NEW w \in Worker, Crm!Load(w) PROVE SignalInv'
  BY <1>3 DEF Crm!Load
<1>4. ASSUME NEW w \in Worker, Crm!SearchCompany(w) PROVE SignalInv'
  BY <1>4 DEF Crm!SearchCompany
<1>5. ASSUME NEW w \in Worker, Crm!Upsert(w) PROVE SignalInv'
  BY <1>5 DEF Crm!Upsert, Crm!Pushed
<1>6. ASSUME NEW w \in Worker, Crm!PushFails(w) PROVE SignalInv'
  BY <1>6 DEF Crm!PushFails
<1>7. ASSUME NEW w \in Worker, Crm!ListSignals(w) PROVE SignalInv'
  BY <1>7 DEF Crm!ListSignals
<1>8. ASSUME NEW w \in Worker, NEW s \in Signal, Crm!PushNote(w, s) PROVE SignalInv'
  BY <1>8 DEF Crm!PushNote
<1>9. ASSUME NEW w \in Worker, Crm!Commit(w) PROVE SignalInv'
  BY <1>9 DEF Crm!Commit, Crm!Excused
<1>10. ASSUME NEW w \in Worker, Crm!PlayEnds(w) PROVE SignalInv'
  BY <1>10 DEF Crm!PlayEnds
<1>11. ASSUME NEW w \in Worker, Crm!Die(w) PROVE SignalInv'
  BY <1>11 DEF Crm!Die
<1>12. CASE Crm!Edit
  BY <1>12 DEF Crm!Edit
<1>13. ASSUME NEW s \in Signal, Crm!FlushSignal(s) PROVE SignalInv'
  BY <1>13 DEF Crm!FlushSignal
<1>14. ASSUME NEW s \in Signal, Crm!CommitSignal(s) PROVE SignalInv'
  BY <1>14 DEF Crm!CommitSignal
<1>15. ASSUME NEW w \in Worker, Crm!SearchRefused(w) PROVE SignalInv'
  BY <1>15 DEF Crm!SearchRefused
<1>16. CASE UNCHANGED crm
  BY <1>16 DEF crm, Crm!Creates, Crm!Loaded
<1> QED
  BY <1>1, <1>2, <1>3, <1>4, <1>5, <1>6, <1>7, <1>8, <1>9, <1>10, <1>11, <1>12, <1>13, <1>14, <1>15, <1>16
  DEF Crm!Next, Crm!SyncStep

LEMMA CrmInvariance == CrmSpec => []CrmInv
<1>1. ASSUME Crm!Init PROVE CrmInv
  <2> USE <1>1, CompanyAssumption, FailuresAssumption DEF Crm!Init
  <2>1. Crm!TypeOK
    <3>1. {due, synced, overrun, raced} \subseteq BOOLEAN
      OBVIOUS
    <3>2. {old, left, later, unseen} \subseteq [Worker -> SUBSET Signal]
      OBVIOUS
    <3> QED
      BY <3>1, <3>2 DEF Crm!TypeOK, Crm!Label, Crm!Kind
  <2>2. CompanyInv /\ StepInv
    BY DEF CompanyInv, StepInv, Crm!Creates, Crm!Loaded
  <2>3. SignalInv
    BY DEF SignalInv, Crm!Loaded
  <2> QED
    BY <2>1, <2>2, <2>3 DEF CrmInv
<1>2. CrmInv /\ [Crm!Next]_crm => CrmInv'
  BY CrmTyped, CrmCompanies, CrmInStep, CrmSignals DEF CrmInv
<1> QED
  BY <1>1, <1>2, PTL DEF CrmSpec

\* The variables of CRMSync keep their types.
THEOREM CrmTypeCorrect == CrmSpec => []Crm!TypeOK
<1>1. CrmInv => Crm!TypeOK
  BY DEF CrmInv
<1> QED
  BY <1>1, CrmInvariance, PTL

\* Whatever edits, signals, jobs, failures and deaths overlap, what the account says of its
\* sync is so (SyncedIsTrue).
THEOREM CrmToldTrue == CrmSpec => []SyncedIsTrue
<1>1. CrmInv => SyncedIsTrue
  BY DEF CrmInv, CompanyInv, StepInv, SignalInv, SyncedIsTrue, Crm!SyncedIsTrue, Crm!InStep, Crm!SignalsAccounted
<1> QED
  BY <1>1, CrmInvariance, PTL

\* Retries after a crash and the pushes of plays do not duplicate the company; overlapping
\* first pushes and searches that the CRM refuses do (OneCompany).
THEOREM CrmHasOneCompany == CrmSpec => []OneCompany
<1>1. CrmInv => OneCompany
  BY DEF CrmInv, CompanyInv, OneCompany, Crm!OneCompany
<1> QED
  BY <1>1, CrmInvariance, PTL

-----------------------------------------------------------------------------
(* The registry and the discovery of companies (MCSources). *)

Keys == 0 .. NumKeys - 1

SourcesTyped ==
    /\ calls \in [Src!Source -> Nat] /\ failed \in [Src!Source -> Nat] /\ open \in [Src!Source -> BOOLEAN]
    /\ DOMAIN cache = Src!Query /\ keyIdx \in Keys
    /\ stage \in [Session -> {"idle", "ask", "wait", "send", "sent", "auto", "persist", "insert", "commit"}]
    /\ DOMAIN query = Session /\ pos \in [Session -> 1 .. 3]
    /\ key \in [Session -> Keys] /\ attempts \in [Session -> Nat] /\ pauses \in [Session -> 0 .. 2]
    /\ tried \in [Session -> SUBSET Keys] /\ rotated \in [Session -> BOOLEAN]
    /\ lookups \in [Src!Query -> Nat] /\ overlapped \in BOOLEAN

\* A request looks a query up, from the miss in the cache to the answer it caches, and
\* asks the source at which it is.
Looking(s) == stage[s] \in {"ask", "wait", "send", "sent"}

AtSource ==
    \A s \in Session : /\ stage[s] = "wait" => pos[s] = 1
                       /\ stage[s] \in {"send", "sent"} => pos[s] = 2

\* Until two lookups of one query overlap, the engine was asked a query that is not cached
\* by nobody but the request that looks it up, when it is past the engine or there.
OnceInv ==
    overlapped \/ \A q \in Src!Query :
        /\ lookups[q] <= 1
        /\ \A s, v \in Session : Looking(s) /\ Looking(v) /\ query[s] = q /\ query[v] = q => s = v
        /\ \A s \in Session : Looking(s) /\ query[s] = q =>
              /\ cache[q] = {}
              /\ stage[s] \in {"ask", "wait"} /\ pos[s] <= 2 => lookups[q] = 0
        /\ cache[q] = {} /\ (\A s \in Session : Looking(s) => query[s] # q) => lookups[q] = 0

AtEngine(s) == stage[s] \in {"send", "sent"}
NextKey(k) == (k + 1) % NumKeys

\* As long as no other search has changed the key, the keys that a search has tried
\* are those that led to the one in use, and each attempt but the paused ones has
\* added one, until all were tried.
KeyInv ==
    \A s \in Session :
        /\ ~AtEngine(s) => attempts[s] = 0 /\ pauses[s] = 0 /\ tried[s] = {} /\ ~rotated[s]
        /\ AtEngine(s) /\ ~rotated[s] =>
              /\ stage[s] = "sent" => key[s] = keyIdx
              /\ \A k \in tried[s] : NextKey(k) \in tried[s] \cup {keyIdx}
              /\ tried[s] = Keys \/ attempts[s] <= Cardinality(tried[s]) + pauses[s]

SourcesInv == SourcesTyped /\ AtSource /\ OnceInv /\ KeyInv

-----------------------------------------------------------------------------

LEMMA NextKeyIs ==
    ASSUME NEW k \in Keys
    PROVE  NextKey(k) \in Keys /\ NextKey(k) = IF k + 1 = NumKeys THEN 0 ELSE k + 1
<1>1. NumKeys \in Nat \ {0}
  BY LimitAssumption
<1>2. \A j \in Nat : j < NumKeys => j % NumKeys = j
  BY <1>1
<1>3. NumKeys % NumKeys = 0
  BY <1>1
<1> QED
  BY <1>1, <1>2, <1>3 DEF NextKey, Keys

LEMMA KeysFinite == IsFiniteSet(Keys) /\ Cardinality(Keys) = NumKeys
<1>1. NumKeys \in Nat \ {0}
  BY LimitAssumption
<1> QED
  BY <1>1, FS_Interval DEF Keys


\* What a search leaves that ends, with results or without.
LEMMA SearchEnds ==
    ASSUME SourcesTyped, AtSource, NEW s \in Session, Src!Results(s) \/ Src!Degrade(s) \/ Src!GiveUp(s)
    PROVE  /\ AtEngine(s) /\ pos[s] = 2
           /\ stage' = [stage EXCEPT ![s] = "ask"] /\ pos' = [pos EXCEPT ![s] = 3]
           /\ failed' \in [Src!Source -> Nat]
           /\ key' = [key EXCEPT ![s] = 0] /\ attempts' = [attempts EXCEPT ![s] = 0]
           /\ pauses' = [pauses EXCEPT ![s] = 0] /\ tried' = [tried EXCEPT ![s] = {}]
           /\ rotated' = [rotated EXCEPT ![s] = FALSE]
           /\ calls' = calls /\ open' = open /\ cache' = cache /\ keyIdx' = keyIdx /\ query' = query
           /\ lookups' = lookups /\ overlapped' = overlapped
<1>1. AtEngine(s) /\ pos[s] = 2
  BY DEF AtEngine, AtSource, Src!Results, Src!Degrade, Src!GiveUp
<1>2. /\ \E list : Src!Return(s, list)
      /\ Src!ForgetSearch(s) /\ keyIdx' = keyIdx
  BY DEF Src!Results, Src!Degrade, Src!GiveUp
<1>3. PICK list : Src!Return(s, list)
  BY <1>2
<1>4. failed' \in [Src!Source -> Nat]
  BY <1>3 DEF Src!Return, SourcesTyped
<1>5. /\ stage' = [stage EXCEPT ![s] = "ask"] /\ pos' = [pos EXCEPT ![s] = 3]
  BY <1>1, <1>3 DEF Src!Return, Src!Goto, SourcesTyped
<1>6. /\ calls' = calls /\ open' = open /\ cache' = cache /\ query' = query
      /\ lookups' = lookups /\ overlapped' = overlapped
  BY <1>3 DEF Src!Return
<1> QED
  BY <1>1, <1>2, <1>4, <1>5, <1>6 DEF Src!ForgetSearch

\* What a request or run leaves that ends.
LEMMA RequestEnds ==
    ASSUME SourcesTyped, NEW s \in Session, Src!Clash(s) \/ Src!Commit(s)
    PROVE  /\ stage[s] \in {"insert", "commit"}
           /\ stage' = [stage EXCEPT ![s] = "idle"]
           /\ pos' = [pos EXCEPT ![s] = 1] /\ DOMAIN query' = Session
           /\ \A v \in Session \ {s} : query'[v] = query[v]
           /\ calls' = calls /\ failed' = failed /\ open' = open /\ cache' = cache /\ keyIdx' = keyIdx
           /\ key' = key /\ attempts' = attempts /\ pauses' = pauses /\ tried' = tried /\ rotated' = rotated
           /\ lookups' = lookups /\ overlapped' = overlapped
  BY DEF Src!Clash, Src!Commit, Src!Forget, Src!Goto, Src!policy, Src!search, Src!history, SourcesTyped

\* The least-number principle: well-foundedness of the subsets of a finite set.
LEMMA LeastKey ==
    ASSUME NEW T \in SUBSET Keys, T # {}
    PROVE  \E i \in T : \A j \in T : i <= j
<1> DEFINE Below == {0 .. i : i \in T}
           R == StrictSubsetOrdering(Keys)
<1>1. IsWellFoundedOn(R, SUBSET Keys)
  BY KeysFinite, FS_StrictSubsetOrderingWellFounded, FS_FiniteSubsetsOfFinite
<1>2. Below \subseteq SUBSET Keys /\ Below # {}
  <2>1. \A i \in T : 0 .. i \subseteq Keys
    BY LimitAssumption DEF Keys
  <2> QED
    BY <2>1
<1> HIDE DEF R
<1>3. PICK x \in Below : \A y \in Below : ~(<<y, x>> \in R)
  BY <1>1, <1>2, WFMin
<1>4. PICK i \in T : x = 0 .. i
  OBVIOUS
<1>5. ASSUME NEW j \in T, j < i PROVE FALSE
  <2>1. 0 .. j \in Below /\ 0 .. j \subseteq 0 .. i /\ i \notin 0 .. j /\ i \in 0 .. i
    BY <1>5, LimitAssumption DEF Keys
  <2>2. <<0 .. j, 0 .. i>> \in R
    BY <1>2, <1>4, <2>1 DEF R, StrictSubsetOrdering
  <2> QED
    BY <1>3, <1>4, <2>1, <2>2
<1> QED
  BY <1>5, LimitAssumption DEF Keys

LEMMA GreatestKey ==
    ASSUME NEW T \in SUBSET Keys, T # {}
    PROVE  \E i \in T : \A j \in T : j <= i
<1> DEFINE Mirrored == {NumKeys - 1 - j : j \in T}
<1>1. \A j \in T : j \in Nat /\ j < NumKeys /\ NumKeys \in Nat
  BY LimitAssumption DEF Keys
<1>2. Mirrored \in SUBSET Keys /\ Mirrored # {}
  <2>1. \A j \in T : NumKeys - 1 - j \in Keys
    BY <1>1 DEF Keys
  <2> QED
    BY <2>1
<1>3. PICK m \in Mirrored : \A n \in Mirrored : m <= n
  <2> HIDE DEF Mirrored
  <2> QED
    BY <1>2, LeastKey
<1>4. PICK i \in T : m = NumKeys - 1 - i
  OBVIOUS
<1>5. ASSUME NEW j \in T PROVE j <= i
  <2>1. m <= NumKeys - 1 - j
    BY <1>3
  <2>2. NumKeys - 1 - i <= NumKeys - 1 - j
    BY <1>4, <2>1
  <2> QED
    BY <1>1, <2>2
<1> QED
  BY <1>5

\* A set of keys that holds with each key the next one is empty or holds them all.
LEMMA RoundTrip ==
    ASSUME NEW T \in SUBSET Keys, NEW k \in T, \A j \in T : NextKey(j) \in T
    PROVE  T = Keys
<1>1. NumKeys \in Nat \ {0} /\ IsFiniteSet(T) /\ IsFiniteSet(Keys \ T)
  BY LimitAssumption, KeysFinite, FS_Subset
<1>2. NumKeys - 1 \in T
  <2>1. PICK m \in T : \A j \in T : j <= m
    BY <1>1, GreatestKey
  <2>2. NextKey(m) \in T
    BY <2>1
  <2>3. CASE m + 1 # NumKeys
    <3>1. m + 1 \in T
      BY <2>2, <2>3, NextKeyIs
    <3> QED
      BY <2>1, <3>1 DEF Keys
  <2>4. CASE m + 1 = NumKeys
    BY <1>1, <2>1, <2>4 DEF Keys
  <2> QED
    BY <2>3, <2>4
<1>3. 0 \in T
  <2>1. NumKeys - 1 \in Keys
    BY <1>2
  <2>2. NextKey(NumKeys - 1) = 0
    BY <1>1, <2>1, NextKeyIs
  <2> QED
    BY <1>2, <2>2
<1>4. ASSUME Keys \ T # {} PROVE FALSE
  <2>1. PICK m \in Keys \ T : \A j \in Keys \ T : m <= j
    BY <1>1, <1>4, LeastKey
  <2>2. m # 0 /\ m - 1 \in Keys /\ ~(m <= m - 1)
    BY <1>1, <1>3, <2>1 DEF Keys
  <2>3. m - 1 \in T
    BY <2>1, <2>2
  <2>4. NextKey(m - 1) = m
    BY <1>1, <2>1, <2>2, NextKeyIs DEF Keys
  <2> QED
    BY <2>1, <2>3, <2>4
<1> QED
  BY <1>4

\* One more attempt with the key in use.
LEMMA AttemptCounts ==
    ASSUME NEW T \in SUBSET Keys, NEW k \in Keys, NEW a \in Nat, NEW p \in Nat, NEW q \in Nat, p <= q,
           \A j \in T : NextKey(j) \in T \cup {k},
           T = Keys \/ a <= Cardinality(T) + p
    PROVE  T \cup {k} = Keys \/ a + 1 <= Cardinality(T \cup {k}) + q
<1>1. IsFiniteSet(T) /\ Cardinality(T) \in Nat
  BY KeysFinite, FS_Subset, FS_CardinalityType
<1>2. CASE k \notin T
  <2>1. Cardinality(T \cup {k}) = Cardinality(T) + 1
    BY <1>1, <1>2, FS_AddElement
  <2>2. T = Keys => T \cup {k} = Keys
    OBVIOUS
  <2> QED
    BY <1>1, <2>1, <2>2
<1>3. CASE k \in T
  <2>1. T = Keys
    BY <1>3, RoundTrip
  <2> QED
    BY <1>3, <2>1
<1> QED
  BY <1>2, <1>3


LEMMA SourcesTypes == SourcesTyped /\ AtSource /\ [Src!Next]_sources => SourcesTyped'
<1> SUFFICES ASSUME SourcesTyped, AtSource, [Src!Next]_sources PROVE SourcesTyped'
  OBVIOUS
<1> USE LimitAssumption
<1> USE DEF SourcesTyped, AtSource, Keys, Src!Source, Src!Backoffs, Src!Goto, Src!Here, Src!Waterfall, Src!OneFailure, Src!NoFailure, Src!policy, Src!search,
            Src!request, Src!history
<1>1. ASSUME NEW s \in Session, Src!Discover(s) PROVE SourcesTyped'
  <2>1. \E q : /\ query' = [query EXCEPT ![s] = q]
               /\ \/ /\ stage' = [stage EXCEPT ![s] = "ask"]
                     /\ overlapped' = (overlapped \/ \E v \in Session : query[v] = q)
                  \/ stage' = [stage EXCEPT ![s] = "persist"] /\ overlapped' = overlapped
    BY <1>1 DEF Src!Discover
  <2>2. DOMAIN query' = Session
    BY <2>1
  <2>3. stage' \in [Session -> {"idle", "ask", "wait", "send", "sent", "auto", "persist", "insert", "commit"}]
    BY <2>1
  <2>4. overlapped' \in BOOLEAN
    BY <2>1
  <2>5. UNCHANGED <<calls, failed, open, cache, keyIdx, pos, key, attempts, pauses, tried, rotated, lookups>>
    BY <1>1 DEF Src!Discover
  <2> QED
    BY <2>2, <2>3, <2>4, <2>5
<1>2. ASSUME NEW s \in Session, Src!Skip(s) PROVE SourcesTyped'
  BY <1>2 DEF Src!Skip
<1>3. ASSUME NEW s \in Session, Src!Call(s) PROVE SourcesTyped'
  <2>1. Src!Here(s) \in Src!Source /\ pos[s] \in {1, 2}
    BY <1>3 DEF Src!Call
  <2>2. calls' \in [Src!Source -> Nat]
    BY <1>3, <2>1 DEF Src!Call
  <2>3. lookups' \in [Src!Query -> Nat]
    <3>1. lookups' = lookups \/ lookups' = [lookups EXCEPT ![query[s]] = @ + 1]
      BY <1>3 DEF Src!Call
    <3>2. CASE query[s] \in Src!Query
      BY <3>1, <3>2
    <3>3. CASE query[s] \notin Src!Query
      BY <3>1, <3>3
    <3> QED
      BY <3>2, <3>3
  <2>4. stage' \in [Session -> {"idle", "ask", "wait", "send", "sent", "auto", "persist", "insert", "commit"}]
    BY <1>3 DEF Src!Call
  <2>5. UNCHANGED <<failed, open, cache, keyIdx, query, pos, key, attempts, pauses, tried, rotated, overlapped>>
    BY <1>3 DEF Src!Call
  <2> QED
    BY <2>2, <2>3, <2>4, <2>5
<1>4. ASSUME NEW s \in Session, Src!Answer(s) PROVE SourcesTyped'
  BY <1>4 DEF Src!Answer, Src!Return
<1>5. ASSUME NEW s \in Session, Src!Raise(s) PROVE SourcesTyped'
  BY <1>5 DEF Src!Raise
<1>6. ASSUME NEW s \in Session, Src!Resolve(s) PROVE SourcesTyped'
  BY <1>6 DEF Src!Resolve
<1>7. ASSUME NEW s \in Session, Src!Send(s) PROVE SourcesTyped'
  BY <1>7 DEF Src!Send
<1>8. ASSUME NEW s \in Session, Src!RateLimited(s) PROVE SourcesTyped'
  <2>1. keyIdx' \in Keys /\ key[s] = key[s]
    BY <1>8, NextKeyIs DEF Src!RateLimited, Src!Rotated, NextKey
  <2>2. rotated' \in [Session -> BOOLEAN] /\ tried' = [tried EXCEPT ![s] = @ \cup {key[s]}]
    BY <1>8 DEF Src!RateLimited
  <2>3. attempts' \in [Session -> Nat] /\ pauses' \in [Session -> 0 .. 2]
    BY <1>8 DEF Src!RateLimited
  <2>4. stage' \in [Session -> {"idle", "ask", "wait", "send", "sent", "auto", "persist", "insert", "commit"}]
    BY <1>8 DEF Src!RateLimited
  <2> QED
    BY <1>8, <2>1, <2>2, <2>3, <2>4 DEF Src!RateLimited
<1>9. ASSUME NEW s \in Session, Src!Retry(s) PROVE SourcesTyped'
  BY <1>9 DEF Src!Retry
<1>10. ASSUME NEW s \in Session, Src!Results(s) \/ Src!Degrade(s) \/ Src!GiveUp(s) PROVE SourcesTyped'
  <2>1. /\ stage' \in [Session -> {"idle", "ask", "wait", "send", "sent", "auto", "persist", "insert", "commit"}]
        /\ pos' \in [Session -> 1 .. 3] /\ failed' \in [Src!Source -> Nat]
    BY <1>10, SearchEnds
  <2>2. 0 \in Keys
    OBVIOUS
  <2>3. /\ key' = [key EXCEPT ![s] = 0] /\ attempts' = [attempts EXCEPT ![s] = 0]
        /\ pauses' = [pauses EXCEPT ![s] = 0] /\ tried' = [tried EXCEPT ![s] = {}]
        /\ rotated' = [rotated EXCEPT ![s] = FALSE]
    BY <1>10, SearchEnds
  <2>4. key' \in [Session -> Keys]
    BY <2>2, <2>3
  <2>5. attempts' \in [Session -> Nat] /\ pauses' \in [Session -> 0 .. 2]
    BY <2>3
  <2>6. tried' \in [Session -> SUBSET Keys] /\ rotated' \in [Session -> BOOLEAN]
    BY <2>3
  <2>7. UNCHANGED <<calls, open, cache, keyIdx, query, lookups, overlapped>>
    BY <1>10, SearchEnds
  <2> QED
    BY <2>1, <2>4, <2>5, <2>6, <2>7
<1>11. ASSUME NEW s \in Session, Src!AutoStart(s) PROVE SourcesTyped'
  BY <1>11 DEF Src!AutoStart
<1>12. ASSUME NEW s \in Session, Src!AutoSearch(s) PROVE SourcesTyped'
  BY <1>12 DEF Src!AutoSearch
<1>13. ASSUME NEW s \in Session, Src!Choose(s) PROVE SourcesTyped'
  BY <1>13 DEF Src!Choose
<1>14. ASSUME NEW s \in Session, Src!Insert(s) PROVE SourcesTyped'
  BY <1>14 DEF Src!Insert
<1>15. ASSUME NEW s \in Session, Src!Clash(s) \/ Src!Commit(s) PROVE SourcesTyped'
  BY <1>15, RequestEnds
<1>16. CASE Src!Restart
  <2>1. 0 \in Keys
    OBVIOUS
  <2>2. /\ calls' \in [Src!Source -> Nat] /\ failed' \in [Src!Source -> Nat] /\ open' \in [Src!Source -> BOOLEAN]
        /\ DOMAIN cache' = Src!Query /\ keyIdx' \in Keys /\ lookups' \in [Src!Query -> Nat]
        /\ overlapped' \in BOOLEAN
    BY <1>16, <2>1 DEF Src!Restart
  <2> QED
    BY <1>16, <2>1, <2>2 DEF Src!Restart
<1>17. CASE UNCHANGED sources
  BY <1>17 DEF sources
<1> QED
  BY <1>1, <1>2, <1>3, <1>4, <1>5, <1>6, <1>7, <1>8, <1>9, <1>10, <1>11, <1>12, <1>13, <1>14, <1>15, <1>16, <1>17
  DEF Src!Next, Src!Step, Src!Lookup, Src!EngineSearch, Src!Persist

LEMMA SourcesAt == SourcesTyped /\ AtSource /\ [Src!Next]_sources => AtSource'
<1> SUFFICES ASSUME SourcesTyped, AtSource, [Src!Next]_sources PROVE AtSource'
  OBVIOUS
<1> USE LimitAssumption
<1> USE DEF SourcesTyped, AtSource, Src!Goto, Src!Here, Src!Waterfall, Src!OneFailure, Src!NoFailure, Src!policy, Src!search,
            Src!request, Src!history
<1>1. ASSUME NEW s \in Session, Src!Discover(s) PROVE AtSource'
  BY <1>1 DEF Src!Discover
<1>2. ASSUME NEW s \in Session, Src!Skip(s) PROVE AtSource'
  BY <1>2 DEF Src!Skip
<1>3. ASSUME NEW s \in Session, Src!Call(s) PROVE AtSource'
  BY <1>3 DEF Src!Call
<1>4. ASSUME NEW s \in Session, Src!Answer(s) PROVE AtSource'
  BY <1>4 DEF Src!Answer, Src!Return
<1>5. ASSUME NEW s \in Session, Src!Raise(s) PROVE AtSource'
  BY <1>5 DEF Src!Raise
<1>6. ASSUME NEW s \in Session, Src!Resolve(s) PROVE AtSource'
  BY <1>6 DEF Src!Resolve
<1>7. ASSUME NEW s \in Session, Src!Send(s) PROVE AtSource'
  BY <1>7 DEF Src!Send
<1>8. ASSUME NEW s \in Session, Src!RateLimited(s) PROVE AtSource'
  BY <1>8 DEF Src!RateLimited, Src!Rotated
<1>9. ASSUME NEW s \in Session, Src!Retry(s) PROVE AtSource'
  BY <1>9 DEF Src!Retry
<1>10. ASSUME NEW s \in Session, Src!Results(s) \/ Src!Degrade(s) \/ Src!GiveUp(s) PROVE AtSource'
  BY <1>10, SearchEnds
<1>11. ASSUME NEW s \in Session, Src!AutoStart(s) PROVE AtSource'
  BY <1>11 DEF Src!AutoStart
<1>12. ASSUME NEW s \in Session, Src!AutoSearch(s) PROVE AtSource'
  BY <1>12 DEF Src!AutoSearch
<1>13. ASSUME NEW s \in Session, Src!Choose(s) PROVE AtSource'
  BY <1>13 DEF Src!Choose
<1>14. ASSUME NEW s \in Session, Src!Insert(s) PROVE AtSource'
  BY <1>14 DEF Src!Insert
<1>15. ASSUME NEW s \in Session, Src!Clash(s) \/ Src!Commit(s) PROVE AtSource'
  BY <1>15, RequestEnds
<1>16. CASE Src!Restart
  BY <1>16 DEF Src!Restart
<1>17. CASE UNCHANGED sources
  BY <1>17 DEF sources
<1> QED
  BY <1>1, <1>2, <1>3, <1>4, <1>5, <1>6, <1>7, <1>8, <1>9, <1>10, <1>11, <1>12, <1>13, <1>14, <1>15, <1>16, <1>17
  DEF Src!Next, Src!Step, Src!Lookup, Src!EngineSearch, Src!Persist

\* A step that starts, charges and caches no lookup.
LEMMA NothingAsked ==
    ASSUME OnceInv, overlapped' = overlapped, lookups' = lookups, cache' = cache,
           \A v \in Session :
               /\ Looking(v)' <=> Looking(v)
               /\ Looking(v) => query'[v] = query[v]
               /\ stage'[v] \in {"ask", "wait"} /\ pos'[v] <= 2 => stage[v] \in {"ask", "wait"} /\ pos[v] <= 2
    PROVE  OnceInv'
  BY DEF OnceInv

LEMMA SourcesOnce == SourcesTyped /\ AtSource /\ OnceInv /\ [Src!Next]_sources => OnceInv'
<1> SUFFICES ASSUME SourcesTyped, AtSource, OnceInv, [Src!Next]_sources PROVE OnceInv'
  OBVIOUS
<1> USE LimitAssumption
<1> USE DEF SourcesTyped, AtSource, Src!NotCached, Src!Goto, Src!Here, Src!Waterfall, Src!OneFailure, Src!NoFailure, Src!policy, Src!search,
            Src!request, Src!history
<1>1. ASSUME NEW s \in Session, Src!Discover(s) PROVE OnceInv'
  <2> PICK q : /\ stage[s] = "idle" /\ query' = [query EXCEPT ![s] = q]
               /\ lookups' = lookups /\ cache' = cache /\ pos' = pos
               /\ \/ /\ cache[q] = {} /\ stage' = [stage EXCEPT ![s] = "ask"]
                     /\ overlapped' = (overlapped \/ \E v \in Session : query[v] = q)
                  \/ cache[q] # {} /\ stage' = [stage EXCEPT ![s] = "persist"] /\ overlapped' = overlapped
    BY <1>1 DEF Src!Discover
  <2>1. /\ stage[s] = "idle" /\ query' = [query EXCEPT ![s] = q]
        /\ lookups' = lookups /\ cache' = cache /\ pos' = pos
    OBVIOUS
  <2>2. /\ ~Looking(s)
        /\ \A v \in Session \ {s} : stage'[v] = stage[v] /\ query'[v] = query[v] /\ (Looking(v)' <=> Looking(v))
    BY <2>1 DEF Looking
  <2>3. CASE cache[q] # {}
    <3>1. stage'[s] = "persist" /\ overlapped' = overlapped
      BY <2>3
    <3>2. ~Looking(s)'
      BY <3>1 DEF Looking
    <3>3. \A v \in Session : stage'[v] \in {"ask", "wait"} => v # s
      BY <3>1
    <3> QED
      BY <2>1, <2>2, <3>1, <3>2, <3>3, NothingAsked
  <2>4. CASE cache[q] = {}
    <3>1. stage'[s] = "ask" /\ overlapped' = (overlapped \/ \E v \in Session : query[v] = q)
      BY <2>4
    <3> SUFFICES ASSUME ~overlapped', NEW r \in Src!Query
                 PROVE  /\ lookups'[r] <= 1
                        /\ \A u, v \in Session : Looking(u)' /\ Looking(v)' /\ query'[u] = r /\ query'[v] = r
                              => u = v
                        /\ \A v \in Session : Looking(v)' /\ query'[v] = r =>
                              /\ cache'[r] = {}
                              /\ stage'[v] \in {"ask", "wait"} /\ pos'[v] <= 2 => lookups'[r] = 0
                        /\ cache'[r] = {} /\ (\A v \in Session : Looking(v)' => query'[v] # r) => lookups'[r] = 0
      BY DEF OnceInv
    <3>2. /\ ~overlapped /\ \A v \in Session : query[v] # q
          /\ query'[s] = q
      BY <2>1, <3>1
    <3>3. /\ lookups[r] <= 1
          /\ \A u, v \in Session : Looking(u) /\ Looking(v) /\ query[u] = r /\ query[v] = r => u = v
          /\ \A v \in Session : Looking(v) /\ query[v] = r =>
                /\ cache[r] = {}
                /\ stage[v] \in {"ask", "wait"} /\ pos[v] <= 2 => lookups[r] = 0
          /\ cache[r] = {} /\ (\A v \in Session : Looking(v) => query[v] # r) => lookups[r] = 0
      BY <3>2 DEF OnceInv
    <3>4. Looking(s)'
      BY <3>1 DEF Looking
    <3>5. CASE r = q
      BY <2>1, <2>2, <2>4, <3>2, <3>3, <3>4, <3>5
    <3>6. CASE r # q
      BY <2>1, <2>2, <3>2, <3>3, <3>4, <3>6
    <3> QED
      BY <3>5, <3>6
  <2> QED
    BY <2>3, <2>4
<1>2. ASSUME NEW s \in Session, Src!Skip(s) PROVE OnceInv'
  BY <1>2, NothingAsked DEF Src!Skip, Looking
<1>3. ASSUME NEW s \in Session, Src!Call(s) PROVE OnceInv'
  <2>1. /\ stage[s] = "ask" /\ pos[s] \in {1, 2} /\ Looking(s) /\ Looking(s)'
        /\ \A v \in Session \ {s} : stage'[v] = stage[v] /\ (Looking(v)' <=> Looking(v))
        /\ query' = query /\ cache' = cache /\ overlapped' = overlapped /\ pos' = pos
    BY <1>3 DEF Src!Call, Looking
  <2>2. CASE pos[s] = 1
    <3>1. lookups' = lookups
      BY <1>3, <2>2 DEF Src!Call
    <3> QED
      BY <2>1, <2>2, <3>1, NothingAsked
  <2>3. CASE pos[s] = 2
    <3>1. stage'[s] = "send" /\ lookups' = [lookups EXCEPT ![query[s]] = @ + 1]
      BY <1>3, <2>3 DEF Src!Call
    <3> SUFFICES ASSUME ~overlapped, NEW r \in Src!Query
                 PROVE  /\ lookups'[r] <= 1
                        /\ \A u, v \in Session : Looking(u)' /\ Looking(v)' /\ query'[u] = r /\ query'[v] = r
                              => u = v
                        /\ \A v \in Session : Looking(v)' /\ query'[v] = r =>
                              /\ cache'[r] = {}
                              /\ stage'[v] \in {"ask", "wait"} /\ pos'[v] <= 2 => lookups'[r] = 0
                        /\ cache'[r] = {} /\ (\A v \in Session : Looking(v)' => query'[v] # r) => lookups'[r] = 0
      BY <2>1 DEF OnceInv
    <3>2. /\ lookups[r] <= 1
          /\ \A u, v \in Session : Looking(u) /\ Looking(v) /\ query[u] = r /\ query[v] = r => u = v
          /\ \A v \in Session : Looking(v) /\ query[v] = r =>
                /\ cache[r] = {}
                /\ stage[v] \in {"ask", "wait"} /\ pos[v] <= 2 => lookups[r] = 0
          /\ cache[r] = {} /\ (\A v \in Session : Looking(v) => query[v] # r) => lookups[r] = 0
      BY DEF OnceInv
    <3>3. \A v \in Session : (Looking(v)' <=> Looking(v)) /\ (stage'[v] \in {"ask", "wait"} => v # s /\ stage'[v] = stage[v])
      BY <2>1, <3>1
    <3>4. CASE r = query[s]
      <4>1. lookups[r] = 0 /\ lookups'[r] = 1
        BY <2>1, <2>3, <3>1, <3>2, <3>4
      <4>2. \A v \in Session : Looking(v)' /\ query'[v] = r => v = s
        BY <2>1, <3>2, <3>3, <3>4
      <4> QED
        BY <2>1, <3>2, <3>3, <3>4, <4>1, <4>2
    <3>5. CASE r # query[s]
      <4>1. lookups'[r] = lookups[r]
        BY <3>1, <3>5
      <4> QED
        BY <2>1, <3>2, <3>3, <4>1
    <3> QED
      BY <3>4, <3>5
  <2> QED
    BY <2>1, <2>2, <2>3
<1>4. ASSUME NEW s \in Session, Src!Answer(s) PROVE OnceInv'
  BY <1>4, NothingAsked DEF Src!Answer, Looking, Src!Return
<1>5. ASSUME NEW s \in Session, Src!Raise(s) PROVE OnceInv'
  BY <1>5, NothingAsked DEF Src!Raise, Looking
<1>6. ASSUME NEW s \in Session, Src!Resolve(s) PROVE OnceInv'
  <2>1. /\ stage[s] = "ask" /\ pos[s] = 3 /\ stage'[s] = "persist" /\ ~Looking(s)' /\ Looking(s)
        /\ \A v \in Session \ {s} : stage'[v] = stage[v] /\ (Looking(v)' <=> Looking(v))
        /\ query' = query /\ lookups' = lookups /\ overlapped' = overlapped /\ pos' = pos
    BY <1>6 DEF Src!Resolve, Looking
  <2>2. \A q \in Src!Query : cache'[q] = IF q = query[s] THEN {Src!Top(got[s], query[s])} ELSE cache[q]
    BY <1>6 DEF Src!Resolve
  <2> SUFFICES ASSUME ~overlapped, NEW r \in Src!Query
               PROVE  /\ lookups'[r] <= 1
                      /\ \A u, v \in Session : Looking(u)' /\ Looking(v)' /\ query'[u] = r /\ query'[v] = r
                            => u = v
                      /\ \A v \in Session : Looking(v)' /\ query'[v] = r =>
                            /\ cache'[r] = {}
                            /\ stage'[v] \in {"ask", "wait"} /\ pos'[v] <= 2 => lookups'[r] = 0
                      /\ cache'[r] = {} /\ (\A v \in Session : Looking(v)' => query'[v] # r) => lookups'[r] = 0
    BY <2>1 DEF OnceInv
  <2>3. /\ lookups[r] <= 1
        /\ \A u, v \in Session : Looking(u) /\ Looking(v) /\ query[u] = r /\ query[v] = r => u = v
        /\ \A v \in Session : Looking(v) /\ query[v] = r =>
              /\ cache[r] = {}
              /\ stage[v] \in {"ask", "wait"} /\ pos[v] <= 2 => lookups[r] = 0
        /\ cache[r] = {} /\ (\A v \in Session : Looking(v) => query[v] # r) => lookups[r] = 0
    BY DEF OnceInv
  <2>4. \A v \in Session : Looking(v)' => v # s /\ Looking(v) /\ stage'[v] = stage[v]
    BY <2>1
  <2>5. CASE r = query[s]
    <3>1. cache'[r] # {}
      BY <2>2, <2>5
    <3>2. Looking(s) /\ query[s] = r
      BY <2>1, <2>5
    <3>3. \A v \in Session : Looking(v)' => query'[v] # r
      BY <2>1, <2>3, <2>4, <3>2
    <3> QED
      BY <2>1, <2>3, <3>1, <3>3
  <2>6. CASE r # query[s]
    <3>1. cache'[r] = cache[r]
      BY <2>2, <2>6
    <3>2. (\A v \in Session : Looking(v)' => query'[v] # r) => (\A v \in Session : Looking(v) => query[v] # r)
      BY <2>1, <2>6
    <3> QED
      BY <2>1, <2>3, <2>4, <3>1, <3>2
  <2> QED
    BY <2>5, <2>6
<1>7. ASSUME NEW s \in Session, Src!Send(s) PROVE OnceInv'
  BY <1>7, NothingAsked DEF Src!Send, Looking
<1>8. ASSUME NEW s \in Session, Src!RateLimited(s) PROVE OnceInv'
  BY <1>8, NothingAsked DEF Src!RateLimited, Looking
<1>9. ASSUME NEW s \in Session, Src!Retry(s) PROVE OnceInv'
  BY <1>9, NothingAsked DEF Src!Retry, Looking
<1>10. ASSUME NEW s \in Session, Src!Results(s) \/ Src!Degrade(s) \/ Src!GiveUp(s) PROVE OnceInv'
  <2>a. AtEngine(s) /\ stage' = [stage EXCEPT ![s] = "ask"]
    BY <1>10, SearchEnds
  <2>b. Looking(s) /\ stage'[s] = "ask" /\ \A v \in Session \ {s} : stage'[v] = stage[v]
    BY <2>a DEF AtEngine, Looking
  <2>1. \A v \in Session : Looking(v)' <=> Looking(v)
    BY <2>b DEF Looking
  <2> QED
    BY <1>10, <2>1, SearchEnds, NothingAsked
<1>11. ASSUME NEW s \in Session, Src!AutoStart(s) PROVE OnceInv'
  BY <1>11, NothingAsked DEF Src!AutoStart, Looking
<1>12. ASSUME NEW s \in Session, Src!AutoSearch(s) PROVE OnceInv'
  BY <1>12, NothingAsked DEF Src!AutoSearch, Looking
<1>13. ASSUME NEW s \in Session, Src!Choose(s) PROVE OnceInv'
  BY <1>13, NothingAsked DEF Src!Choose, Looking
<1>14. ASSUME NEW s \in Session, Src!Insert(s) PROVE OnceInv'
  BY <1>14, NothingAsked DEF Src!Insert, Looking
<1>15. ASSUME NEW s \in Session, Src!Clash(s) \/ Src!Commit(s) PROVE OnceInv'
  <2>1. /\ stage'[s] = "idle" /\ stage[s] \in {"insert", "commit"}
        /\ \A v \in Session \ {s} : stage'[v] = stage[v] /\ query'[v] = query[v] /\ pos'[v] = pos[v]
        /\ overlapped' = overlapped /\ lookups' = lookups /\ cache' = cache
    BY <1>15, RequestEnds
  <2>2. \A v \in Session : (Looking(v)' <=> Looking(v)) /\ (Looking(v) => v # s)
    BY <2>1 DEF Looking
  <2>3. ASSUME NEW v \in Session, stage'[v] \in {"ask", "wait"} /\ pos'[v] <= 2
        PROVE  stage[v] \in {"ask", "wait"} /\ pos[v] <= 2
    BY <2>1, <2>3
  <2> QED
    BY <2>1, <2>2, <2>3, NothingAsked
<1>16. CASE Src!Restart
  BY <1>16 DEF Src!Restart, OnceInv, Looking
<1>17. CASE UNCHANGED sources
  BY <1>17, NothingAsked DEF sources, Looking
<1> QED
  BY <1>1, <1>2, <1>3, <1>4, <1>5, <1>6, <1>7, <1>8, <1>9, <1>10, <1>11, <1>12, <1>13, <1>14, <1>15, <1>16, <1>17
  DEF Src!Next, Src!Step, Src!Lookup, Src!EngineSearch, Src!Persist

LEMMA SourcesKeys == SourcesTyped /\ AtSource /\ KeyInv /\ [Src!Next]_sources => KeyInv'
<1> SUFFICES ASSUME SourcesTyped, AtSource, KeyInv, [Src!Next]_sources PROVE KeyInv'
  OBVIOUS
<1> USE LimitAssumption
<1> USE DEF SourcesTyped, AtSource, KeyInv, AtEngine, Src!Goto, Src!Here, Src!Waterfall, Src!OneFailure, Src!NoFailure, Src!policy, Src!search,
            Src!request, Src!history
<1>1. ASSUME NEW s \in Session, Src!Discover(s) PROVE KeyInv'
  BY <1>1 DEF Src!Discover
<1>2. ASSUME NEW s \in Session, Src!Skip(s) PROVE KeyInv'
  BY <1>2 DEF Src!Skip
<1>3. ASSUME NEW s \in Session, Src!Call(s) PROVE KeyInv'
  <2>1. /\ stage[s] = "ask" /\ stage'[s] \in {"send", "wait"}
        /\ \A v \in Session \ {s} : stage'[v] = stage[v]
        /\ UNCHANGED <<keyIdx, key, attempts, pauses, tried, rotated>>
    BY <1>3 DEF Src!Call
  <2>2. ~AtEngine(s) /\ tried[s] = {} /\ attempts[s] = 0 /\ pauses[s] = 0
    BY <2>1
  <2>3. attempts[s] <= Cardinality(tried[s]) + pauses[s]
    BY <2>2, FS_EmptySet
  <2> QED
    BY <2>1, <2>2, <2>3
<1>4. ASSUME NEW s \in Session, Src!Answer(s) PROVE KeyInv'
  BY <1>4 DEF Src!Answer, Src!Return
<1>5. ASSUME NEW s \in Session, Src!Raise(s) PROVE KeyInv'
  BY <1>5 DEF Src!Raise
<1>6. ASSUME NEW s \in Session, Src!Resolve(s) PROVE KeyInv'
  BY <1>6 DEF Src!Resolve
<1>7. ASSUME NEW s \in Session, Src!Send(s) PROVE KeyInv'
  BY <1>7 DEF Src!Send
<1>8. ASSUME NEW s \in Session, Src!RateLimited(s) PROVE KeyInv'
  <2> DEFINE T == tried[s] \cup {keyIdx}
  <2>1. /\ stage[s] = "sent" /\ stage' = [stage EXCEPT ![s] = "send"]
        /\ tried' = [tried EXCEPT ![s] = @ \cup {key[s]}] /\ attempts' = [attempts EXCEPT ![s] = @ + 1]
        /\ keyIdx' = NextKey(keyIdx) /\ key' = key
        /\ rotated' = [v \in Session |->
              rotated[v] \/ (v # s /\ stage[v] \in {"send", "sent"} /\ keyIdx' # keyIdx)]
    BY <1>8 DEF Src!RateLimited, Src!Rotated, NextKey
  <2>2. pauses'[s] \in 0 .. 2 /\ pauses[s] <= pauses'[s] /\ \A v \in Session \ {s} : pauses'[v] = pauses[v]
    BY <1>8 DEF Src!RateLimited, Src!Backoffs
  <2>3. \A v \in Session : AtEngine(v)' <=> AtEngine(v)
    BY <2>1
  <2>4. ASSUME NEW v \in Session \ {s} PROVE
           /\ ~AtEngine(v)' => attempts'[v] = 0 /\ pauses'[v] = 0 /\ tried'[v] = {} /\ ~rotated'[v]
           /\ AtEngine(v)' /\ ~rotated'[v] =>
                 /\ stage'[v] = "sent" => key'[v] = keyIdx'
                 /\ \A k \in tried'[v] : NextKey(k) \in tried'[v] \cup {keyIdx'}
                 /\ tried'[v] = Keys \/ attempts'[v] <= Cardinality(tried'[v]) + pauses'[v]
    <3>1. /\ stage'[v] = stage[v] /\ tried'[v] = tried[v] /\ attempts'[v] = attempts[v] /\ key'[v] = key[v]
          /\ rotated'[v] = (rotated[v] \/ (AtEngine(v) /\ keyIdx' # keyIdx))
      BY <2>1, <2>4
    <3>2. AtEngine(v)' /\ ~rotated'[v] => keyIdx' = keyIdx /\ ~rotated[v]
      BY <2>3, <3>1
    <3> QED
      BY <2>2, <2>3, <3>1, <3>2
  <2>5. ASSUME ~rotated'[s]
        PROVE  /\ \A k \in tried'[s] : NextKey(k) \in tried'[s] \cup {keyIdx'}
               /\ tried'[s] = Keys \/ attempts'[s] <= Cardinality(tried'[s]) + pauses'[s]
    <3>1. /\ ~rotated[s] /\ key[s] = keyIdx
          /\ \A k \in tried[s] : NextKey(k) \in T
          /\ tried[s] = Keys \/ attempts[s] <= Cardinality(tried[s]) + pauses[s]
      BY <2>1, <2>5
    <3>2. tried'[s] = T /\ attempts'[s] = attempts[s] + 1
      BY <2>1, <3>1
    <3>3. T = Keys \/ attempts[s] + 1 <= Cardinality(T) + pauses'[s]
      <4>1. tried[s] \in SUBSET Keys /\ keyIdx \in Keys
        OBVIOUS
      <4>2. attempts[s] \in Nat /\ pauses[s] \in Nat /\ pauses'[s] \in Nat
        BY <2>2
      <4> QED
        BY <2>2, <3>1, <4>1, <4>2, AttemptCounts
    <3> QED
      BY <2>1, <3>1, <3>2, <3>3
  <2>6. AtEngine(s) /\ stage'[s] = "send"
    BY <2>1
  <2> QED
    BY <2>3, <2>4, <2>5, <2>6
<1>9. ASSUME NEW s \in Session, Src!Retry(s) PROVE KeyInv'
  <2>1. /\ stage[s] = "sent" /\ stage' = [stage EXCEPT ![s] = "send"]
        /\ attempts' = [attempts EXCEPT ![s] = @ + 1] /\ pauses' = [pauses EXCEPT ![s] = @ + 1]
        /\ UNCHANGED <<keyIdx, key, tried, rotated>>
    BY <1>9 DEF Src!Retry
  <2>2. IsFiniteSet(tried[s]) /\ Cardinality(tried[s]) \in Nat
    BY KeysFinite, FS_Subset, FS_CardinalityType
  <2>3. attempts[s] <= Cardinality(tried[s]) + pauses[s] =>
            attempts'[s] <= Cardinality(tried'[s]) + pauses'[s]
    BY <2>1, <2>2
  <2>4. \A v \in Session : AtEngine(v)' <=> AtEngine(v)
    BY <2>1
  <2> QED
    BY <2>1, <2>3, <2>4
<1>10. ASSUME NEW s \in Session, Src!Results(s) \/ Src!Degrade(s) \/ Src!GiveUp(s) PROVE KeyInv'
  BY <1>10, SearchEnds
<1>11. ASSUME NEW s \in Session, Src!AutoStart(s) PROVE KeyInv'
  BY <1>11 DEF Src!AutoStart
<1>12. ASSUME NEW s \in Session, Src!AutoSearch(s) PROVE KeyInv'
  BY <1>12 DEF Src!AutoSearch
<1>13. ASSUME NEW s \in Session, Src!Choose(s) PROVE KeyInv'
  BY <1>13 DEF Src!Choose
<1>14. ASSUME NEW s \in Session, Src!Insert(s) PROVE KeyInv'
  BY <1>14 DEF Src!Insert
<1>15. ASSUME NEW s \in Session, Src!Clash(s) \/ Src!Commit(s) PROVE KeyInv'
  BY <1>15, RequestEnds
<1>16. CASE Src!Restart
  BY <1>16 DEF Src!Restart
<1>17. CASE UNCHANGED sources
  BY <1>17 DEF sources
<1> QED
  BY <1>1, <1>2, <1>3, <1>4, <1>5, <1>6, <1>7, <1>8, <1>9, <1>10, <1>11, <1>12, <1>13, <1>14, <1>15, <1>16, <1>17
  DEF Src!Next, Src!Step, Src!Lookup, Src!EngineSearch, Src!Persist

LEMMA SourcesInvariance == SourcesSpec => []SourcesInv
<1>1. ASSUME Src!Init PROVE SourcesInv
  <2> USE <1>1, LimitAssumption DEF Src!Init
  <2>a. 0 \in Keys
    BY DEF Keys
  <2>b. SourcesTyped
    <3>1. /\ calls \in [Src!Source -> Nat] /\ failed \in [Src!Source -> Nat] /\ open \in [Src!Source -> BOOLEAN]
          /\ DOMAIN cache = Src!Query /\ keyIdx \in Keys
      BY <2>a
    <3>2. /\ stage \in [Session -> {"idle", "ask", "wait", "send", "sent", "auto", "persist", "insert", "commit"}]
          /\ DOMAIN query = Session /\ pos \in [Session -> 1 .. 3]
      OBVIOUS
    <3>3. key \in [Session -> Keys] /\ attempts \in [Session -> Nat] /\ pauses \in [Session -> 0 .. 2]
      BY <2>a
    <3>4. /\ tried \in [Session -> SUBSET Keys] /\ rotated \in [Session -> BOOLEAN]
          /\ lookups \in [Src!Query -> Nat] /\ overlapped \in BOOLEAN
      OBVIOUS
    <3> QED
      BY <3>1, <3>2, <3>3, <3>4 DEF SourcesTyped
  <2>1. AtSource
    BY DEF AtSource
  <2>2. OnceInv
    BY DEF OnceInv, Looking
  <2>3. KeyInv
    BY DEF KeyInv, AtEngine
  <2> QED
    BY <2>b, <2>1, <2>2, <2>3 DEF SourcesInv
<1>2. SourcesInv /\ [Src!Next]_sources => SourcesInv'
  BY SourcesTypes, SourcesAt, SourcesOnce, SourcesKeys DEF SourcesInv
<1> QED
  BY <1>1, <1>2, PTL DEF SourcesSpec

\* However many requests share the registry, a query goes to the network once, unless two
\* lookups of it overlap, and a search that gives up has tried every key, unless another
\* has changed the key (AskedAsNeeded).
THEOREM SourcesAskedAsNeeded == SourcesSpec => []AskedAsNeeded
<1>1. SourcesInv => Src!AskedOnce
  BY DEF SourcesInv, OnceInv, Src!AskedOnce
<1>2. SourcesInv => Src!TriedAllKeys
  <2> SUFFICES ASSUME SourcesInv, NEW s \in Session, stage[s] = "send",
                      attempts[s] = NumKeys + Src!Backoffs, ~rotated[s]
               PROVE  tried[s] = 0 .. NumKeys - 1
    BY DEF Src!TriedAllKeys
  <2>1. tried[s] \subseteq Keys /\ pauses[s] \in 0 .. 2 /\ NumKeys \in Nat
    BY LimitAssumption DEF SourcesInv, SourcesTyped
  <2>2. tried[s] = Keys \/ NumKeys + 2 <= Cardinality(tried[s]) + pauses[s]
    BY DEF SourcesInv, KeyInv, AtEngine, Src!Backoffs
  <2>3. /\ Cardinality(tried[s]) <= Cardinality(Keys) /\ Cardinality(tried[s]) \in Nat
        /\ Cardinality(tried[s]) = Cardinality(Keys) => tried[s] = Keys
    BY <2>1, KeysFinite, FS_Subset, FS_CardinalityType
  <2>4. tried[s] = Keys
    BY <2>1, <2>2, <2>3, KeysFinite
  <2> QED
    BY <2>4 DEF Keys
<1>3. SourcesInv => AskedAsNeeded
  BY <1>1, <1>2 DEF AskedAsNeeded, Src!AskedAsNeeded
<1> QED
  BY <1>3, SourcesInvariance, PTL

\* An open breaker stays open for the rest of the process, and no call is made while it
\* is, whatever answers come late (BreakerHolds).
THEOREM BreakersHold == SourcesSpec => BreakerHolds
<1>1. ASSUME SourcesTyped, AtSource, [Src!Next]_sources PROVE [Src!BreakerKept]_sources
  <2> USE DEF SourcesTyped, AtSource, Src!BreakerKept, Src!Source, Src!policy, Src!Here, Src!Waterfall
  <2>1. ASSUME NEW s \in Session, Src!Call(s) PROVE Src!BreakerKept
    BY <2>1 DEF Src!Call, Src!Allowed
  <2>2. ASSUME NEW s \in Session, Src!Raise(s) PROVE Src!BreakerKept
    <3>1. calls' = calls
      BY <2>2 DEF Src!Raise
    <3>2. open' = [open EXCEPT ![Src!Here(s)] = @ \/ failed[Src!Here(s)] + 1 >= Threshold]
      BY <2>2 DEF Src!Raise
    <3>3. ASSUME NEW p \in Src!Source, open[p] PROVE open'[p]
      <4>1. CASE p = Src!Here(s)
        <5>1. open'[p] = (open[Src!Here(s)] \/ failed[Src!Here(s)] + 1 >= Threshold)
          <6> HIDE DEF Src!Here, SourcesTyped
          <6>1. p \in DOMAIN open
            BY <1>1, <3>3 DEF SourcesTyped
          <6> QED
            BY <3>2, <4>1, <6>1, Zenon
        <5> QED
          BY <3>3, <4>1, <5>1
      <4>2. CASE p # Src!Here(s)
        <5>1. open'[p] = open[p]
          BY <3>2, <4>2
        <5> QED
          BY <3>3, <5>1
      <4> QED
        BY <4>1, <4>2
    <3> QED
      BY <3>1, <3>3
  <2>3. ASSUME NEW s \in Session, Src!Answer(s) PROVE Src!BreakerKept
    BY <2>3 DEF Src!Answer, Src!Return
  <2>4. ASSUME NEW s \in Session, Src!Results(s) \/ Src!Degrade(s) \/ Src!GiveUp(s) PROVE Src!BreakerKept
    BY <2>4, SearchEnds, <1>1
  <2>5. ASSUME NEW s \in Session, Src!Clash(s) \/ Src!Commit(s) PROVE Src!BreakerKept
    BY <2>5, RequestEnds, <1>1
  <2>6. ASSUME NEW s \in Session,
               \/ Src!Discover(s) \/ Src!Skip(s) \/ Src!Resolve(s) \/ Src!Send(s) \/ Src!RateLimited(s)
               \/ Src!Retry(s) \/ Src!AutoStart(s) \/ Src!AutoSearch(s) \/ Src!Choose(s) \/ Src!Insert(s)
        PROVE  Src!BreakerKept
    <3>1. open' = open /\ calls' = calls
      BY <2>6 DEF Src!Discover, Src!Skip, Src!Resolve, Src!Send, Src!RateLimited, Src!Retry, Src!AutoStart,
                  Src!AutoSearch, Src!Choose, Src!Insert
    <3> QED
      BY <3>1
  <2>7. Src!Restart => Src!BreakerKept
    OBVIOUS
  <2> QED
    BY <1>1, <2>1, <2>2, <2>3, <2>4, <2>5, <2>6, <2>7
    DEF Src!Next, Src!Step, Src!Lookup, Src!EngineSearch, Src!Persist
<1>2. SourcesInv /\ [Src!Next]_sources => [Src!BreakerKept]_sources
  BY <1>1 DEF SourcesInv
<1> QED
  BY <1>2, SourcesInvariance, PTL DEF SourcesSpec, BreakerHolds
=============================================================================

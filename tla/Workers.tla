------------------------------ MODULE Workers ------------------------------
(***************************************************************************)
(* The worker processes (src/nexus/workers/): each runs a scheduler, which *)
(* enqueues the periodic drivers on every tick, and a loop that pops jobs  *)
(* off the queue.  A popped job is nowhere but in its worker's hands.      *)
(*                                                                         *)
(* The drivers must be harmless however often they are enqueued and on     *)
(* however many workers they run: the refresh driver stamps the accounts   *)
(* that are due and enqueues a job for each, the discovery driver claims   *)
(* the tenant's slot of the interval.  Both on behalf of one tenant.       *)
(*                                                                         *)
(* Time is counted in ticks of the scheduler; an age is the number of      *)
(* ticks since a time stamp was taken.                                     *)
(***************************************************************************)
EXTENDS Naturals, Sequences, FiniteSets

CONSTANTS
    Process,      \* the worker processes
    Nobody,       \* "no process"
    Account,      \* the tenant's accounts
    Drivers,      \* the drivers that may be switched on
    Interval,     \* ticks after which an account, or the tenant, is due again
    Batch,        \* account_refresh_batch_size
    MaxQueue,     \* bound: jobs in the queue when a scheduler wakes up
    MaxLosses     \* bound: deaths, failed enqueues and failed jobs in a behaviour

ASSUME ProcessAssumption == Nobody \notin Process \cup Account \cup Drivers
ASSUME AccountAssumption == IsFiniteSet(Account)
ASSUME DriverAssumption == Drivers \subseteq {"refresh", "discover"} /\ Drivers \cap Account = {}
ASSUME BoundAssumption ==
    /\ Interval \in Nat \ {0} /\ Batch \in Nat \ {0}
    /\ MaxQueue \in Nat /\ MaxLosses \in Nat

Job == Drivers \cup Account      \* a job about an account is named for it
Oldest == Interval + Cardinality(Account)   \* older than that is not told apart
Age == 0 .. Oldest
Free == 2 * Interval        \* a slot of that age is free for whoever looks

Label == {"idle", "start", "process", "stamp", "slot", "search", "alert", "paused", "ran"}

VARIABLES
    driver,     \* the driver that is switched on
    icp,        \* the tenant has an ideal customer profile
    queue,      \* the Redis list
    leader,     \* who holds the scheduler's advisory lock
    beat,       \* where each scheduler is: "sleep", "awake", "enqueue"
    pc, job,    \* where each worker loop is, and the job in its hands
    now,        \* now[w]: age of the clock value that w's handler took
    todo,       \* todo[w]: accounts that w has still to stamp
    claimed,    \* claimed[w]: accounts that w stamped and has not committed
    stamp,      \* stamp[a]: age of the account's last_refreshed_at
    settled,    \* accounts processed, or a job of theirs lost, since the last was enqueued
    slot,       \* age of the tenant's icp_discovery_last_run_at
    tenant,     \* who holds the tenant's row
    paused,     \* open alerts "discovery is paused"
    losses

schedulers == <<leader, beat>>
loops == <<pc, job, now, todo, claimed>>
accounts == <<stamp, settled>>
discovery == <<slot, tenant, paused>>
vars == <<driver, icp, queue, schedulers, loops, accounts, discovery, losses>>

\* An age that is not told apart any more still comes after those that are older.
Older(ages) ==
    [a \in DOMAIN ages |->
        IF ages[a] < Oldest - Cardinality({c \in DOMAIN ages : ages[c] > ages[a]})
        THEN ages[a] + 1 ELSE ages[a]]

Goto(w, label) == pc' = [pc EXCEPT ![w] = label]

Idle(w) ==
    /\ Goto(w, "idle")
    /\ job' = [job EXCEPT ![w] = Nobody]
    /\ now' = [now EXCEPT ![w] = 0]

\* A job, and what its session held, is gone; what it enqueued is not.
Drop(w) ==
    /\ Idle(w)
    /\ todo' = [todo EXCEPT ![w] = {}]
    /\ claimed' = [claimed EXCEPT ![w] = {}]
    /\ tenant' = IF tenant = w THEN Nobody ELSE tenant
    /\ settled' = settled \cup ({job[w]} \cap Account)
    /\ losses < MaxLosses
    /\ losses' = losses + 1

-----------------------------------------------------------------------------
(* The scheduler *)

\* A tick: the advisory lock is tried, never waited for.
SchedulerWakes(w) ==
    /\ beat[w] = "awake"
    /\ Len(queue) < MaxQueue
    /\ IF leader = Nobody
       THEN leader' = w /\ beat' = [beat EXCEPT ![w] = "enqueue"]
       ELSE leader' = leader /\ beat' = [beat EXCEPT ![w] = "sleep"]
    /\ UNCHANGED <<driver, icp, queue, loops, accounts, discovery, losses>>

\* The burst, and the lock is released at its end.
SchedulerEnqueues(w) ==
    /\ beat[w] = "enqueue"
    /\ queue' = Append(queue, driver)
    /\ leader' = Nobody
    /\ beat' = [beat EXCEPT ![w] = "sleep"]
    /\ UNCHANGED <<driver, icp, loops, accounts, discovery, losses>>

\* The queue is not available: the beat is lost, not the heartbeat.
SchedulerFails(w) ==
    /\ beat[w] = "enqueue"
    /\ losses < MaxLosses
    /\ losses' = losses + 1
    /\ leader' = Nobody
    /\ beat' = [beat EXCEPT ![w] = "sleep"]
    /\ UNCHANGED <<driver, icp, queue, loops, accounts, discovery>>

-----------------------------------------------------------------------------
(* The worker loop *)

\* BLPOP: the job is the worker's alone, and is kept nowhere else.
Dequeue(w) ==
    /\ pc[w] = "idle"
    /\ queue # <<>>
    /\ queue' = Tail(queue)
    /\ job' = [job EXCEPT ![w] = Head(queue)]
    /\ Goto(w, IF Head(queue) \in Account THEN "process" ELSE "start")
    /\ UNCHANGED <<driver, icp, schedulers, now, todo, claimed, accounts, discovery, losses>>

\* process_account has committed.
ProcessAccount(w) ==
    /\ pc[w] = "process"
    /\ settled' = settled \cup {job[w]}
    /\ Idle(w)
    /\ UNCHANGED <<driver, icp, queue, schedulers, todo, claimed, stamp, discovery, losses>>

\* dispatch: an exception of a handler ends the job, not the loop.
HandlerRaises(w) ==
    /\ pc[w] # "idle"
    /\ Drop(w)
    /\ UNCHANGED <<driver, icp, queue, schedulers, stamp, slot, paused>>

\* A process dies, with its scheduler; it is started again.
Die(w) ==
    /\ Drop(w)
    /\ leader' = IF leader = w THEN Nobody ELSE leader
    /\ beat' = [beat EXCEPT ![w] = "awake"]
    /\ UNCHANGED <<driver, icp, queue, stamp, slot, paused>>

-----------------------------------------------------------------------------
(* handle_refresh_due_accounts *)

Due == {a \in Account : stamp[a] >= Interval}

\* The batch of a scan: the accounts that were stamped longest ago.
Batches ==
    {b \in SUBSET Due :
        /\ Cardinality(b) = IF Cardinality(Due) < Batch THEN Cardinality(Due) ELSE Batch
        /\ \A a \in b, c \in Due \ b : stamp[a] >= stamp[c]}

\* Mutant of RefreshScan: whoever was refreshed last comes first.
RefreshScanNewest(w) ==
    /\ pc[w] = "start"
    /\ job[w] = "refresh"
    /\ \E b \in {{a} : a \in {c \in Due : \A d \in Due : stamp[c] <= stamp[d]}} \cup {{}} :
          /\ (b = {}) = (Due = {})
          /\ todo' = [todo EXCEPT ![w] = b]
    /\ Goto(w, "stamp")
    /\ UNCHANGED <<driver, icp, queue, schedulers, job, now, claimed, accounts, discovery, losses>>

\* The scan takes "now"; its row locks are gone before anything is stamped.
RefreshScan(w) ==
    /\ pc[w] = "start"
    /\ job[w] = "refresh"
    /\ \E b \in Batches : todo' = [todo EXCEPT ![w] = b]
    /\ Goto(w, "stamp")
    /\ UNCHANGED <<driver, icp, queue, schedulers, job, now, claimed, accounts, discovery, losses>>

\* One account of the batch is stamped, in the session, and its job enqueued.
RefreshStamp(w, a) ==
    /\ pc[w] = "stamp"
    /\ a \in todo[w]
    /\ todo' = [todo EXCEPT ![w] = @ \ {a}]
    /\ claimed' = [claimed EXCEPT ![w] = @ \cup {a}]
    /\ queue' = Append(queue, a)
    /\ settled' = settled \ {a}
    /\ UNCHANGED <<driver, icp, schedulers, pc, job, now, stamp, discovery, losses>>

\* Mutant of RefreshCommit: the batch is stamped before its jobs are enqueued.
RefreshCommitEarly(w) ==
    /\ pc[w] = "stamp"
    /\ stamp' = [a \in Account |-> IF a \in claimed[w] \cup todo[w] THEN now[w] ELSE stamp[a]]
    /\ IF todo[w] = {}
       THEN Idle(w) /\ claimed' = [claimed EXCEPT ![w] = {}]
       ELSE UNCHANGED <<pc, job, now, claimed>>
    /\ UNCHANGED <<driver, icp, queue, schedulers, todo, settled, discovery, losses>>

\* The tenant's session commits the stamps.
RefreshCommit(w) ==
    /\ pc[w] = "stamp"
    /\ todo[w] = {}
    /\ stamp' = [a \in Account |-> IF a \in claimed[w] THEN now[w] ELSE stamp[a]]
    /\ claimed' = [claimed EXCEPT ![w] = {}]
    /\ Idle(w)
    /\ UNCHANGED <<driver, icp, queue, schedulers, todo, settled, discovery, losses>>

-----------------------------------------------------------------------------
(* handle_discover_icp_accounts *)

\* The handler takes "now" and lists the tenants that opted in.
DiscoverStart(w) ==
    /\ pc[w] = "start"
    /\ job[w] = "discover"
    /\ Goto(w, "slot")
    /\ UNCHANGED <<driver, icp, queue, schedulers, job, now, todo, claimed, accounts, discovery, losses>>

\* The tenant's last run is an interval before w's clock value, or more.
SlotIsFree(w) == slot >= Interval + now[w]

\* Mutant of DiscoverClaim: the tenant is read without FOR UPDATE.
DiscoverClaimUnlocked(w) ==
    /\ pc[w] = "slot"
    /\ IF SlotIsFree(w)
       THEN Goto(w, "search") /\ UNCHANGED <<job, now, tenant>>
       ELSE Idle(w) /\ UNCHANGED tenant
    /\ UNCHANGED <<driver, icp, queue, schedulers, todo, claimed, accounts, slot, paused, losses>>

\* SELECT ... FOR UPDATE of the tenant, which waits for whoever holds it.
DiscoverClaim(w) ==
    /\ pc[w] = "slot"
    /\ tenant = Nobody
    /\ IF SlotIsFree(w)
       THEN Goto(w, "search") /\ tenant' = w /\ UNCHANGED <<job, now>>
       ELSE Idle(w) /\ UNCHANGED tenant
    /\ UNCHANGED <<driver, icp, queue, schedulers, todo, claimed, accounts, slot, paused, losses>>

\* auto_discover_for_tenant: without a profile there is nothing to search for,
\* and one alert says so.
DiscoverSearch(w) ==
    /\ pc[w] = "search"
    /\ Goto(w, IF icp THEN "ran" ELSE IF paused = 0 THEN "alert" ELSE "paused")
    /\ UNCHANGED <<driver, icp, queue, schedulers, job, now, todo, claimed, accounts, discovery, losses>>

Close(w) ==
    /\ tenant' = IF tenant = w THEN Nobody ELSE tenant
    /\ Idle(w)

DiscoverPaused(w) ==
    /\ pc[w] \in {"alert", "paused"}
    /\ paused' = IF pc[w] = "alert" THEN paused + 1 ELSE paused
    /\ Close(w)
    /\ UNCHANGED <<driver, icp, queue, schedulers, todo, claimed, accounts, slot, losses>>

\* A search takes the interval's slot, and the alert is acknowledged.
DiscoverRan(w) ==
    /\ pc[w] = "ran"
    /\ slot' = now[w]
    /\ paused' = IF paused > 0 THEN paused - 1 ELSE 0
    /\ Close(w)
    /\ UNCHANGED <<driver, icp, queue, schedulers, todo, claimed, accounts, losses>>

-----------------------------------------------------------------------------
(* The world *)

ProfileChanges ==
    /\ driver = "discover"
    /\ icp' = ~icp
    /\ UNCHANGED <<driver, queue, schedulers, loops, accounts, discovery, losses>>

AlertAcknowledged ==
    /\ paused > 0
    /\ paused' = paused - 1
    /\ UNCHANGED <<driver, icp, queue, schedulers, loops, accounts, slot, tenant, losses>>

\* A tick passes and every scheduler wakes up.  A driver's job takes less than
\* an interval, an account's job any time.
Tick ==
    /\ \A w \in Process : now[w] + 1 < Interval
    /\ stamp' = Older(stamp)
    /\ slot' = IF slot < Free THEN slot + 1 ELSE slot
    /\ now' = [w \in Process |-> IF job[w] \in Drivers THEN now[w] + 1 ELSE 0]
    /\ beat' = [w \in Process |-> IF beat[w] = "sleep" THEN "awake" ELSE beat[w]]
    /\ UNCHANGED <<driver, icp, queue, leader, pc, job, todo, claimed, settled,
                   tenant, paused, losses>>

-----------------------------------------------------------------------------

\* Nothing was ever refreshed or discovered.
Init ==
    /\ driver \in Drivers
    /\ icp = FALSE
    /\ queue = <<>>
    /\ leader = Nobody
    /\ beat = [w \in Process |-> "awake"]
    /\ pc = [w \in Process |-> "idle"]
    /\ job = [w \in Process |-> Nobody]
    /\ now = [w \in Process |-> 0]
    /\ todo = [w \in Process |-> {}]
    /\ claimed = [w \in Process |-> {}]
    /\ stamp = [a \in Account |-> Oldest]
    /\ settled = {}
    /\ slot = Free
    /\ tenant = Nobody
    /\ paused = 0
    /\ losses = 0

Scheduler(w) == SchedulerWakes(w) \/ SchedulerEnqueues(w)

Refresh(w) == RefreshScan(w) \/ (\E a \in Account : RefreshStamp(w, a)) \/ RefreshCommit(w)

Discover(w) ==
    DiscoverStart(w) \/ DiscoverClaim(w) \/ DiscoverSearch(w) \/ DiscoverPaused(w) \/ DiscoverRan(w)

Loop(w) == Dequeue(w) \/ ProcessAccount(w) \/ Refresh(w) \/ Discover(w)

Next ==
    \/ \E w \in Process :
          Scheduler(w) \/ Loop(w) \/ SchedulerFails(w) \/ HandlerRaises(w) \/ Die(w)
    \/ ProfileChanges
    \/ AlertAcknowledged
    \/ Tick

Spec == Init /\ [][Next]_vars

\* Time passes, schedulers and loops go on, and the database serves those who
\* wait for the tenant's row in turn.  No one is obliged to die or to decide.
FairSpec ==
    /\ Spec
    /\ WF_vars(Tick)
    /\ \A w \in Process : WF_vars(Scheduler(w)) /\ SF_vars(Loop(w))

-----------------------------------------------------------------------------
(* Properties *)

TypeOK ==
    /\ driver \in Drivers
    /\ icp \in BOOLEAN
    /\ queue \in Seq(Job)
    /\ leader \in Process \cup {Nobody}
    /\ beat \in [Process -> {"sleep", "awake", "enqueue"}]
    /\ pc \in [Process -> Label]
    /\ job \in [Process -> Job \cup {Nobody}]
    /\ now \in [Process -> 0 .. Interval]
    /\ todo \in [Process -> SUBSET Account]
    /\ claimed \in [Process -> SUBSET Account]
    /\ stamp \in [Account -> Age]
    /\ settled \in SUBSET Account
    /\ slot \in 0 .. Free
    /\ tenant \in Process \cup {Nobody}
    /\ paused \in Nat
    /\ losses \in 0 .. MaxLosses

\* The job of an account is somewhere: in the queue or in a worker's hands.
HasJob(a) ==
    \/ \E i \in 1 .. Len(queue) : queue[i] = a
    \/ \E w \in Process : job[w] = a

\* An account that is not due was processed, will be, or its job was lost:
\* jobs are enqueued before the stamps are committed, so a stamp never hides an
\* account that nobody was asked to process.
StampHasJob ==
    \A a \in Account : stamp[a] < Interval => HasJob(a) \/ a \in settled

\* A job that is lost with its worker costs an interval: every account is
\* processed again and again.
RefreshedAgain ==
    driver = "refresh" =>
        \A a \in Account : []<><<\E w \in Process : job[w] = a /\ ProcessAccount(w)>>_vars

\* Whoever searches for accounts does so alone, and in a slot that is free.
SearchAlone ==
    \A w \in Process : pc[w] \in {"search", "ran", "alert"} =>
        /\ SlotIsFree(w)
        /\ \A v \in Process \ {w} : pc[v] \notin {"search", "ran", "alert"}

\* Once there is a profile for good, discovery is not said to be paused for ever.
PauseEnds == (<>[]icp) => <>[](paused = 0)

\* The schedule goes on: accounts are processed again, discovery is taken up again.
ScheduleGoesOn == RefreshedAgain /\ PauseEnds
=============================================================================

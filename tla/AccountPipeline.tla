--------------------------- MODULE AccountPipeline -------------------------
(***************************************************************************)
(* What the signals of one account make of work (src/nexus/pipeline.py and *)
(* the services it calls): a job pulls the sources, ingests what is new,   *)
(* screens and scores the account, gives the rep an inbox task, fires the  *)
(* plays and their alerts, all in one transaction.  Requests ingest on     *)
(* their own, complete and reopen tasks, and keep the queue of calls.      *)
(*                                                                         *)
(* What a transaction reads is what is committed when it reads it: no row  *)
(* is locked.  Only the insertion of a signal that another transaction     *)
(* has inserted waits for it, at the unique index on its key.              *)
(***************************************************************************)
EXTENDS Naturals, FiniteSets, Sequences

CONSTANTS
    Session,      \* transactions that run at the same time
    Signal,       \* what the sources have to report, by dedupe_key
    Strong,       \* the signals that make an inbox task
    Shared,       \* those that the tenant has another account for, as of the same company
    Discovered,   \* the account comes from auto-discovery, without contacts
    MaxTasks,     \* bound: inbox tasks
    MaxFailures   \* bound: sources, deliveries and transactions that fail

ASSUME SignalAssumption == Strong \subseteq Signal /\ Shared \subseteq Signal /\ Discovered \in BOOLEAN
ASSUME BoundAssumption == MaxTasks \in Nat \ {0} /\ MaxFailures \in Nat

Label == {"idle", "fetched", "ingested", "scored", "plays", "ingest", "call"}
NoDecision == [what |-> "nothing"]
Touch(t, s) == [what |-> "touch", task |-> t, signal |-> s]
Create(s) == [what |-> "create", signal |-> s]

VARIABLES
    reported,   \* signals the sources report
    ingested,   \* signals in the database
    elsewhere,  \* signals in the database as those of the other account
    fired,      \* signals whose plays are recorded
    pushed,     \* signals that plays have pushed and alerted about
    skipped,    \* signals that no play looks at
    tasks,      \* the account's inbox tasks: open or done, their signal, cooling down
    archived,
    calls,      \* open call tasks of a contact that reps queued
    pc,
    new,        \* new[w]: signals that w inserts
    decision,   \* decision[w]: what w does to the inbox
    overlapped, \* two transactions held decisions on one inbox or call, or a task was reopened
    failures

work == <<tasks, calls>>
events == <<reported, ingested, elsewhere, fired, pushed, skipped>>
session == <<pc, new, decision>>
vars == <<events, work, archived, session, overlapped, failures>>

Goto(w, label) == pc' = [pc EXCEPT ![w] = label]

\* The end of w's transaction.
Close(w) ==
    /\ Goto(w, "idle")
    /\ new' = [new EXCEPT ![w] = {}]
    /\ decision' = [decision EXCEPT ![w] = NoDecision]

OpenTasks == {t \in DOMAIN tasks : tasks[t].status = "open"}

\* A task of the account was completed less than the cool-down ago.
CoolingDown == \E t \in DOMAIN tasks : tasks[t].status = "done" /\ tasks[t].cooling

-----------------------------------------------------------------------------
(* process_account *)

\* run_sources, without what is ingested as the account's: a source that is slow or
\* broken reports nothing this time.
Fetch(w, label) ==
    /\ pc[w] = "idle"
    /\ \E got \in SUBSET reported :
          /\ got # reported => failures < MaxFailures
          /\ failures' = IF got # reported THEN failures + 1 ELSE failures
          /\ new' = [new EXCEPT ![w] = got \ ingested]
    /\ Goto(w, label)
    /\ UNCHANGED <<events, work, archived, decision, overlapped>>

\* Sessions other than w that have inserted signals and not committed.
Inserters(w) == {v \in Session \ {w} : pc[v] \in {"ingested", "scored", "plays"}}

\* Signals whose key is taken: it is unique in the tenant.
Taken == ingested \cup elsewhere

\* The flush waits for those who insert the same signal.
Ingest(w) ==
    /\ pc[w] = "fetched"
    /\ \A v \in Inserters(w) : new[v] \cap new[w] = {}
    /\ new[w] \cap Taken = {}
    /\ Goto(w, "ingested")
    /\ UNCHANGED <<events, work, archived, new, decision, overlapped, failures>>

\* They have committed, or the other account has the signal: an integrity error ends
\* the job or the request.
IngestFails(w) ==
    /\ pc[w] \in {"fetched", "ingest"}
    /\ new[w] \cap Taken # {}
    /\ Close(w)
    /\ UNCHANGED <<events, work, archived, overlapped, failures>>

\* The enrichment has found a headcount outside the band of the profile: the
\* account is archived, and nothing more is done about it.
Screen(w) ==
    /\ pc[w] = "ingested"
    /\ Discovered /\ ~archived
    /\ archived' = TRUE
    /\ ingested' = ingested \cup new[w]
    /\ skipped' = skipped \cup new[w]
    /\ Close(w)
    /\ UNCHANGED <<reported, elsewhere, fired, pushed, work, overlapped, failures>>

\* Scoring never fails the job, and what is archived already is not screened.
Score(w) ==
    /\ pc[w] = "ingested"
    /\ Goto(w, "scored")
    /\ UNCHANGED <<events, work, archived, new, decision, overlapped, failures>>

\* Mutant of Decide: every headline gets a task.
DecideEach(strong) ==
    IF CoolingDown THEN {NoDecision} ELSE {Create(s) : s \in strong} \cup {NoDecision}

\* Mutant of Decide: a task that was completed does not count.
DecideAnyway(strong) ==
    IF strong = {} THEN {NoDecision}
    ELSE IF OpenTasks # {}
    THEN {NoDecision} \cup {Touch(t, s) : t \in OpenTasks, s \in strong}
    ELSE {Create(s) : s \in strong}

\* create_from_signal, for the new signals in turn: the account's open task is
\* pointed at the strongest, and is made if there is none and nothing cools down.
Decide(strong) ==
    IF strong = {} THEN {NoDecision}
    ELSE IF OpenTasks # {}
    THEN {NoDecision} \cup {Touch(t, s) : t \in OpenTasks, s \in strong}
    ELSE IF CoolingDown THEN {NoDecision}
    ELSE {Create(s) : s \in strong}

\* Sessions other than w that have given or pointed a task and not committed.
Deciders(w) == {v \in Session \ {w} : decision[v].what # "nothing"}

GiveTask(w) ==
    /\ pc[w] = "scored"
    /\ \E d \in Decide(new[w] \cap Strong) :
          /\ d.what = "create" => Len(tasks) < MaxTasks
          /\ decision' = [decision EXCEPT ![w] = d]
          /\ overlapped' = (overlapped \/ (d.what = "create" /\ Deciders(w) # {}))
    /\ Goto(w, "plays")
    /\ UNCHANGED <<events, work, archived, new, failures>>

\* The inbox after w's decision.  The cool-down of a task counts from its last
\* change, a change that comes after its completion included.
InboxAfter(d) ==
    CASE d.what = "nothing" -> tasks
      [] d.what = "touch" -> 
            [tasks EXCEPT ![d.task].signal = d.signal,
                          ![d.task].cooling = tasks[d.task].status = "done"]
      [] d.what = "create" ->
            Append(tasks, [status |-> "open", signal |-> d.signal, cooling |-> FALSE])

\* Every enabled play that matches pushes and alerts, and the job commits.
PlaysAndCommit(w) ==
    /\ pc[w] = "plays"
    /\ pushed' = pushed \cup new[w]
    /\ ingested' = ingested \cup new[w]
    /\ fired' = fired \cup new[w]
    /\ tasks' = InboxAfter(decision[w])
    /\ Close(w)
    /\ UNCHANGED <<reported, elsewhere, skipped, calls, archived, overlapped, failures>>

\* The job fails or dies after a play has pushed: what it pushed stays.
PlaysFail(w) ==
    /\ pc[w] = "plays"
    /\ failures < MaxFailures
    /\ failures' = failures + 1
    /\ \E s \in SUBSET new[w] : pushed' = pushed \cup s
    /\ Close(w)
    /\ UNCHANGED <<reported, elsewhere, ingested, fired, skipped, work, archived, overlapped>>

\* A transaction fails or its process dies.
Fail(w) ==
    /\ pc[w] # "idle"
    /\ failures < MaxFailures
    /\ failures' = failures + 1
    /\ Close(w)
    /\ UNCHANGED <<events, work, archived, overlapped>>

\* POST /ingest/{account_id}: the sources and nothing else.
IngestOnly(w) ==
    /\ pc[w] = "ingest"
    /\ \A v \in Inserters(w) : new[v] \cap new[w] = {}
    /\ new[w] \cap Taken = {}
    /\ ingested' = ingested \cup new[w]
    /\ skipped' = skipped \cup new[w]
    /\ Close(w)
    /\ UNCHANGED <<reported, elsewhere, fired, pushed, work, archived, overlapped, failures>>

-----------------------------------------------------------------------------
(* The inbox and the account, by request *)

\* complete: the cool-down begins.
CompleteTask(t) ==
    /\ t \in OpenTasks
    /\ tasks' = [tasks EXCEPT ![t].status = "done", ![t].cooling = TRUE]
    /\ UNCHANGED <<events, calls, archived, session, overlapped, failures>>

\* reopen does not look for another open task.
ReopenTask(t) ==
    /\ t \in DOMAIN tasks \ OpenTasks
    /\ tasks' = [tasks EXCEPT ![t].status = "open", ![t].cooling = FALSE]
    /\ overlapped' = TRUE
    /\ UNCHANGED <<events, calls, archived, session, failures>>

CoolDownEnds(t) ==
    /\ t \in DOMAIN tasks
    /\ tasks[t].cooling
    /\ tasks' = [tasks EXCEPT ![t].cooling = FALSE]
    /\ UNCHANGED <<events, calls, archived, session, overlapped, failures>>

\* The sources have something to report.
Report(s) ==
    /\ s \notin reported
    /\ reported' = reported \cup {s}
    /\ UNCHANGED <<ingested, elsewhere, fired, pushed, skipped, work, archived, session, overlapped,
                   failures>>

\* The pipeline of the other account commits a signal that it has found first.
IngestedElsewhere(s) ==
    /\ s \in Shared \ Taken
    /\ \A w \in Session : pc[w] \in {"ingested", "scored", "plays"} => s \notin new[w]
    /\ elsewhere' = elsewhere \cup {s}
    /\ UNCHANGED <<reported, ingested, fired, pushed, skipped, work, archived, session,
                   overlapped, failures>>

-----------------------------------------------------------------------------
(* The queue of calls *)

\* enqueue: a task that is open is returned, otherwise one is inserted.
LookForCall(w) ==
    /\ pc[w] = "idle"
    /\ calls = 0
    /\ overlapped' = (overlapped \/ \E v \in Session \ {w} : pc[v] = "call")
    /\ Goto(w, "call")
    /\ UNCHANGED <<events, work, archived, new, decision, failures>>

InsertCall(w) ==
    /\ pc[w] = "call"
    /\ calls' = calls + 1
    /\ Close(w)
    /\ UNCHANGED <<events, tasks, archived, overlapped, failures>>

\* log_disposition and skip: a call that is to be tried again stays.
CloseCall ==
    /\ calls > 0
    /\ calls' = calls - 1
    /\ UNCHANGED <<events, tasks, archived, session, overlapped, failures>>

-----------------------------------------------------------------------------

Init ==
    /\ reported = {} /\ ingested = {} /\ elsewhere = {} /\ fired = {} /\ pushed = {} /\ skipped = {}
    /\ tasks = <<>>
    /\ archived = FALSE
    /\ calls = 0
    /\ pc = [w \in Session |-> "idle"]
    /\ new = [w \in Session |-> {}]
    /\ decision = [w \in Session |-> NoDecision]
    /\ overlapped = FALSE
    /\ failures = 0

Refresh(w) == Fetch(w, "fetched")

Step(w) ==
    \/ Ingest(w) \/ IngestFails(w) \/ Screen(w) \/ Score(w) \/ GiveTask(w)
    \/ PlaysAndCommit(w) \/ IngestOnly(w) \/ InsertCall(w)

Next ==
    \/ \E w \in Session :
          \/ Refresh(w) \/ Step(w) \/ Fail(w) \/ PlaysFail(w)
          \/ Fetch(w, "ingest")
          \/ LookForCall(w)
    \/ \E t \in DOMAIN tasks : CompleteTask(t) \/ ReopenTask(t) \/ CoolDownEnds(t)
    \/ \E s \in Signal : Report(s) \/ IngestedElsewhere(s)
    \/ CloseCall

Spec == Init /\ [][Next]_vars

\* The account is refreshed again and again (RefreshedAgain of Workers), and
\* a transaction goes on until it ends.
FairSpec ==
    /\ Spec
    /\ \A w \in Session : SF_vars(Refresh(w)) /\ WF_vars(Step(w))

-----------------------------------------------------------------------------
(* Properties *)

TypeOK ==
    /\ {reported, ingested, elsewhere, fired, pushed, skipped} \subseteq SUBSET Signal
    /\ tasks \in Seq([status : {"open", "done"}, signal : Signal, cooling : BOOLEAN])
    /\ archived \in BOOLEAN
    /\ calls \in Nat
    /\ pc \in [Session -> Label]
    /\ new \in [Session -> SUBSET Signal]
    /\ overlapped \in BOOLEAN
    /\ failures \in 0 .. MaxFailures

\* The account, not the headline, is the unit of work: unless transactions that
\* create overlap or a rep reopens a task, it has one open task, and a
\* contact one open call that reps asked for.
OneOpenTask ==
    overlapped \/ (Cardinality(OpenTasks) <= 1 /\ calls <= 1)

\* What a rep has completed stays quiet: no task appears while it cools down, unless one
\* was decided while another transaction was about to touch the task that has been
\* completed since, which starts its cool-down anew (updated_at).
NoRealert ==
    [][CoolingDown /\ ~overlapped => Len(tasks') = Len(tasks)]_vars

\* A signal is in the database with the records of its plays, or no play will
\* ever look at it; and no play is recorded that has not pushed.
PlaysWithSignals == ingested = fired \cup skipped /\ fired \subseteq pushed

\* A rep who was given no task is not left so: the signals a source goes on
\* reporting get in, whoever fails and whoever else ingests them for the account,
\* until one of them is another account's.
ReportedGetsIn ==
    \A s \in Signal : s \in reported ~> s \in ingested \/ reported \cap elsewhere # {}

\* Not so: a signal that the tenant has elsewhere is one that is in already (models/signal.py),
\* and leaves the others alone.  It makes each job of the account fail, with all it reports.
OthersGetIn == \A s \in Signal : s \in reported ~> s \in Taken

\* One unit of work per account: one open task and one open call, and the records
\* of plays that go with its signals.
OneUnitOfWork == OneOpenTask /\ PlaysWithSignals

\* What a rep has seen is not raised again, and what no rep has seen is.
RaisedOnceForAll == NoRealert /\ ReportedGetsIn

\* Not so: "the daily list only shows matches" (discovery/auto.py), but the screen
\* archives an account at its discovery only, and the refresh of an archived account
\* creates a task as of any other.
ScreenedGetsNoTask == [][archived => Len(tasks') = Len(tasks)]_vars
=============================================================================

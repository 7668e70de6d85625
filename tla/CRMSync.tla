------------------------------ MODULE CRMSync ------------------------------
(***************************************************************************)
(* One account, with a domain, and its company in a remote CRM             *)
(* (src/nexus/ingestion/crm.py, crm_sync.py).  Three kinds of job push the *)
(* account: the sweep of the scheduler, the fast path that account.scored  *)
(* triggers, the request of a user; a play pushes it too, and records      *)
(* nothing.  Meanwhile users and enrichment edit the account and the       *)
(* pipeline ingests signals.                                               *)
(*                                                                         *)
(* A time stamp is modelled by what it is compared with.  due is           *)
(* updated_at > crm_synced_at, or no crm_synced_at; fresh are the signals  *)
(* with created_at > crm_synced_at; later[w] are those created after the   *)
(* clock value that w's handler took.  outdated are the copies of the      *)
(* account's content, in companies and in the hands of jobs, that an edit  *)
(* has overtaken.                                                          *)
(***************************************************************************)
EXTENDS Naturals

CONSTANTS
    Worker,         \* where a job that pushes the account runs
    Signal,
    Company,        \* the ids that the CRM gives to companies
    None,           \* no id
    MaxFailures     \* bound: failed pushes, refused searches and deaths

Kind == {"sync", "play"}
Label == {"idle", "load", "search", "upsert", "list", "notes"}

VARIABLES
    due, synced, crmId,     \* the account's row: see above; has it been synced
    ingested,               \* ingested[s]: "none", "flushed", "committed"
    fresh,
    companies,              \* what the CRM holds
    outdated,
    pc, kind,
    found,      \* found[w]: the company w works on
    old,        \* old[w]: signals that are not newer than the stamp w loaded
    first,      \* first[w]: w loaded no stamp, and no crm_id
    todo,       \* todo[w]: signals w has still to push
    later,
    told,       \* told[s]: pushed as an activity
    excused,    \* signals that a sync could not see, or that came before the first
    unseen,     \* unseen[w]: signals not committed when w listed them
    overrun,    \* the last edit was committed while a job had the account loaded
    raced,      \* two jobs were between their search and their creation of a company
    blind,      \* companies that the CRM's refusal of a search has had created, jobs about to
    failures

row == <<due, synced, crmId>>
signals == <<ingested, fresh>>
remote == <<companies, outdated>>
jobs == <<pc, kind, found, old, first, todo, later, unseen>>
history == <<told, excused, overrun, raced, blind>>
vars == <<row, signals, remote, jobs, history, failures>>

Goto(w, label) == pc' = [pc EXCEPT ![w] = label]

\* The job is over: w forgets what it had loaded.
Forget(w) ==
    /\ Goto(w, "idle")
    /\ kind' = [kind EXCEPT ![w] = "sync"]
    /\ found' = [found EXCEPT ![w] = None]
    /\ old' = [old EXCEPT ![w] = {}]
    /\ first' = [first EXCEPT ![w] = FALSE]
    /\ todo' = [todo EXCEPT ![w] = {}]
    /\ later' = [later EXCEPT ![w] = {}]
    /\ unseen' = [unseen EXCEPT ![w] = {}]

Loaded(w) == pc[w] \notin {"idle", "load"}

-----------------------------------------------------------------------------
(* The jobs *)

\* Mutant of Sweep: accounts that were never synced are not selected.
SweepSyncedOnly(w) ==
    /\ pc[w] = "idle"
    /\ due /\ synced
    /\ Goto(w, "load")
    /\ kind' = [kind EXCEPT ![w] = "sync"]
    /\ UNCHANGED <<row, signals, remote, found, old, first, todo, later, unseen,
                   history, failures>>

\* The sweep takes "now" and selects the account if it is due.
Sweep(w) ==
    /\ pc[w] = "idle"
    /\ due
    /\ Goto(w, "load")
    /\ kind' = [kind EXCEPT ![w] = "sync"]
    /\ UNCHANGED <<row, signals, remote, found, old, first, todo, later, unseen,
                   history, failures>>

\* The fast path of account.scored (which is enqueued before the pipeline
\* commits), a user's request and a play push the account, due or not.
StartJob(w, k) ==
    /\ pc[w] = "idle"
    /\ Goto(w, "load")
    /\ kind' = [kind EXCEPT ![w] = k]
    /\ UNCHANGED <<row, signals, remote, found, old, first, todo, later, unseen,
                   history, failures>>

\* The account is loaded, with its contacts; a play has no use for its stamp.
Load(w) ==
    /\ pc[w] = "load"
    /\ found' = [found EXCEPT ![w] = crmId]
    /\ old' = [old EXCEPT ![w] =
          IF kind[w] = "play" THEN {} ELSE {s \in Signal : ingested[s] # "none"} \ fresh]
    /\ first' = [first EXCEPT ![w] = ~synced]
    /\ Goto(w, IF crmId = None THEN "search" ELSE "upsert")
    /\ UNCHANGED <<row, signals, remote, kind, todo, later, unseen, history, failures>>

\* Mutant of SearchCompany: the domain is not looked up.
SearchCompanyNever(w) ==
    /\ pc[w] = "search"
    /\ Goto(w, "upsert")
    /\ UNCHANGED <<row, signals, remote, kind, found, old, first, todo, later, unseen,
                   history, failures>>

\* _find_company_by_domain
SearchCompany(w) ==
    /\ pc[w] = "search"
    /\ \E c \in IF companies = {} THEN {None} ELSE companies :
          found' = [found EXCEPT ![w] = c]
    /\ Goto(w, "upsert")
    /\ UNCHANGED <<row, signals, remote, kind, old, first, todo, later, unseen,
                   history, failures>>

\* A search that is answered with an error, as over the rate limit, is taken for one that
\* has found nothing.
SearchRefused(w) ==
    /\ pc[w] = "search"
    /\ failures < MaxFailures
    /\ failures' = failures + 1
    /\ blind' = IF companies = {} THEN blind ELSE blind \cup {w}
    /\ Goto(w, "upsert")
    /\ UNCHANGED <<row, signals, remote, kind, found, old, first, todo, later, unseen,
                   told, excused, overrun, raced>>

\* The content that w has loaded is now c's.
Pushed(w, c) == outdated' = IF w \in outdated THEN outdated \cup {c} ELSE outdated \ {c}

\* w looked for a company and there was none.
Creates(w) == pc[w] = "upsert" /\ found[w] = None /\ w \notin blind

\* The id of a company to come: ids mean nothing, so which of them makes no difference.
NewCompany == {c \in Company \ companies : c = CHOOSE d \in Company : d \notin companies}

\* _upsert_company: PATCH what was found, or POST.  A play's push ends here.
Upsert(w) ==
    /\ pc[w] = "upsert"
    /\ \E c \in IF found[w] = None THEN NewCompany ELSE {found[w]} :
          /\ companies' = companies \cup {c}
          /\ raced' = (raced \/ \E v \in Worker \ {w} : Creates(v) /\ Creates(w))
          /\ blind' = IF w \in blind THEN (blind \ {w}) \cup {c} ELSE blind
          /\ Pushed(w, c)
          /\ found' = [found EXCEPT ![w] = c]
    /\ Goto(w, IF kind[w] = "play" THEN "notes" ELSE "list")
    /\ UNCHANGED <<row, signals, kind, old, first, todo, later, unseen, told, excused,
                   overrun, failures>>

\* A call that fails ends the push, which leaves the account as it is.
PushFails(w) ==
    /\ pc[w] \in {"search", "upsert"}
    /\ failures < MaxFailures
    /\ failures' = failures + 1
    /\ outdated' = outdated \ {w}
    /\ blind' = blind \ {w}
    /\ Forget(w)
    /\ UNCHANGED <<row, signals, companies, told, excused, overrun, raced>>

\* The signals since the stamp, unless there was none: no backfill.
ListSignals(w) ==
    /\ pc[w] = "list"
    /\ todo' = [todo EXCEPT ![w] =
          IF first[w] THEN {} ELSE {s \in Signal : ingested[s] = "committed"} \ old[w]]
    /\ unseen' = [unseen EXCEPT ![w] = {s \in Signal : ingested[s] = "flushed"}]
    /\ old' = [old EXCEPT ![w] = {}]
    /\ Goto(w, "notes")
    /\ UNCHANGED <<row, signals, remote, kind, found, first, later, history, failures>>

\* push_activity: its result is not looked at.
PushNote(w, s) ==
    /\ pc[w] = "notes"
    /\ s \in todo[w]
    /\ todo' = [todo EXCEPT ![w] = @ \ {s}]
    /\ told' = told \cup {s}
    /\ UNCHANGED <<row, signals, remote, pc, kind, found, old, first, later, unseen,
                   excused, overrun, raced, blind, failures>>

\* What w's commit excuses the CRM from: what its list could not show, and
\* whatever came before the first sync.
Excused(w) ==
    (unseen[w] \ later[w])
        \cup (IF first[w] THEN {s \in Signal : ingested[s] # "none"} \ later[w] ELSE {})

\* Mutant of Commit: the stamp is the time of the commit.
CommitAtEnd(w) ==
    /\ pc[w] = "notes" /\ todo[w] = {} /\ kind[w] # "play"
    /\ crmId' = IF first[w] THEN found[w] ELSE crmId
    /\ synced' = TRUE
    /\ due' = FALSE
    /\ fresh' = {}
    /\ excused' = excused \cup Excused(w)
    /\ outdated' = outdated \ {w}
    /\ Forget(w)
    /\ UNCHANGED <<ingested, companies, told, overrun, raced, blind, failures>>

\* crm_synced_at and updated_at are set to the clock value of the handler.
Commit(w) ==
    /\ pc[w] = "notes" /\ todo[w] = {} /\ kind[w] # "play"
    /\ crmId' = IF first[w] THEN found[w] ELSE crmId
    /\ synced' = TRUE
    /\ due' = FALSE
    /\ fresh' = later[w]
    /\ excused' = excused \cup Excused(w)
    /\ outdated' = outdated \ {w}
    /\ Forget(w)
    /\ UNCHANGED <<ingested, companies, told, overrun, raced, blind, failures>>

\* crm_push stores neither the company's id nor a stamp.
PlayEnds(w) ==
    /\ pc[w] = "notes" /\ kind[w] = "play"
    /\ outdated' = outdated \ {w}
    /\ Forget(w)
    /\ UNCHANGED <<row, signals, companies, history, failures>>

\* The job's process dies: its transaction is rolled back, its pushes stay.
Die(w) ==
    /\ pc[w] # "idle"
    /\ failures < MaxFailures
    /\ failures' = failures + 1
    /\ outdated' = outdated \ {w}
    /\ blind' = blind \ {w}
    /\ Forget(w)
    /\ UNCHANGED <<row, signals, companies, told, excused, overrun, raced>>

-----------------------------------------------------------------------------
(* The rest of the system *)

\* A request or the enrichment commits a change of the account's content.
Edit ==
    /\ due' = TRUE
    /\ outdated' = companies \cup {w \in Worker : Loaded(w)}
    /\ overrun' = (\E w \in Worker : Loaded(w))
    /\ UNCHANGED <<synced, crmId, signals, companies, jobs, told, excused, raced, blind, failures>>

\* The pipeline flushes a signal: created_at is taken, nobody sees it yet.
FlushSignal(s) ==
    /\ ingested[s] = "none"
    /\ ingested' = [ingested EXCEPT ![s] = "flushed"]
    /\ fresh' = fresh \cup {s}
    /\ later' = [w \in Worker |->
          IF pc[w] = "idle" \/ kind[w] = "play" THEN {} ELSE later[w] \cup {s}]
    /\ UNCHANGED <<row, remote, pc, kind, found, old, first, todo, unseen,
                   history, failures>>

CommitSignal(s) ==
    /\ ingested[s] = "flushed"
    /\ ingested' = [ingested EXCEPT ![s] = "committed"]
    /\ UNCHANGED <<row, fresh, remote, jobs, history, failures>>

-----------------------------------------------------------------------------

\* An account that never was in the CRM.
Init ==
    /\ due = TRUE /\ synced = FALSE /\ crmId = None
    /\ ingested = [s \in Signal |-> "none"]
    /\ fresh = {}
    /\ companies = {}
    /\ outdated = {}
    /\ pc = [w \in Worker |-> "idle"]
    /\ kind = [w \in Worker |-> "sync"]
    /\ found = [w \in Worker |-> None]
    /\ old = [w \in Worker |-> {}]
    /\ first = [w \in Worker |-> FALSE]
    /\ todo = [w \in Worker |-> {}]
    /\ later = [w \in Worker |-> {}]
    /\ unseen = [w \in Worker |-> {}]
    /\ told = {}
    /\ excused = {}
    /\ overrun = FALSE
    /\ raced = FALSE
    /\ blind = {}
    /\ failures = 0

SyncStep(w) ==
    \/ Load(w) \/ SearchCompany(w) \/ Upsert(w)
    \/ ListSignals(w) \/ (\E s \in Signal : PushNote(w, s))
    \/ Commit(w) \/ PlayEnds(w)

Next ==
    \/ \E w \in Worker :
          \/ Sweep(w) \/ SyncStep(w) \/ SearchRefused(w) \/ PushFails(w) \/ Die(w)
          \/ \E k \in Kind : StartJob(w, k)
    \/ \E s \in Signal : FlushSignal(s) \/ CommitSignal(s)
    \/ Edit

Spec == Init /\ [][Next]_vars

\* The scheduler goes on sweeping and jobs that run go on.
FairSpec ==
    /\ Spec
    /\ SF_vars(\E w \in Worker : Sweep(w))
    /\ \A w \in Worker : WF_vars(SyncStep(w))

-----------------------------------------------------------------------------
(* Properties *)

TypeOK ==
    /\ {due, synced, overrun, raced} \subseteq BOOLEAN
    /\ crmId \in Company \cup {None}
    /\ ingested \in [Signal -> {"none", "flushed", "committed"}]
    /\ fresh \in SUBSET Signal
    /\ companies \in SUBSET Company
    /\ outdated \in SUBSET (Company \cup Worker) /\ blind \in SUBSET (Company \cup Worker)
    /\ pc \in [Worker -> Label] /\ kind \in [Worker -> Kind]
    /\ found \in [Worker -> Company \cup {None}]
    /\ first \in [Worker -> BOOLEAN]
    /\ {old, todo, later, unseen} \subseteq [Worker -> SUBSET Signal]
    /\ told \in SUBSET Signal /\ excused \in SUBSET Signal
    /\ failures \in 0 .. MaxFailures

\* The sync is change-aware: an account that is not due, and that nobody edited
\* while a job had it loaded, is in the CRM as it is here, whatever failed and
\* whatever is under way.
InStep == synced /\ ~due /\ ~overrun => crmId \in companies \ outdated

\* The watermark loses no signal: once the account is in the CRM, a signal that
\* was committed is either newer than the stamp or was pushed, except those that
\* came before the first sync or were not committed when a sync listed them.
SignalsAccounted ==
    \A s \in Signal : ingested[s] = "committed" => s \in fresh \cup told \cup excused

\* What the account says of its sync is so: its fields and its signals are in the CRM.
SyncedIsTrue == InStep /\ SignalsAccounted

\* Retries after a crash and the pushes of plays, which store no id, do not
\* duplicate the company; only two first pushes that overlap do, and a search
\* that the CRM refuses, which creates a company beside the one there is.
OneCompany == raced \/ \A c, d \in companies \ blind : c = d

\* Not so: a push that is not answered well duplicates nothing, however often it is
\* repeated (the docstring of HubSpotConnector).
NeverDuplicates == raced \/ \A c, d \in companies : c = d

\* The sweep is self-healing: a due account is synced, however pushes fail.
DueIsSynced == due ~> ~due
=============================================================================

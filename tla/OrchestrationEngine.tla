------------------------- MODULE OrchestrationEngine -------------------------
(***************************************************************************)
(* The run engine of src/nexus/orchestration/engine.py, driving ONE        *)
(* orchestration run under concurrent requests, process deaths and the     *)
(* transaction discipline of the API and of the workers.                   *)
(*                                                                         *)
(* Every request and every worker job is one database transaction          *)
(* (api/deps.py get_tenant_session, workers/tasks.py tenant_session): the  *)
(* rows are read without a lock, the first write that is flushed takes the *)
(* row locks of the run (and the next number of its event log), they are   *)
(* kept until the commit, and a commit writes only the columns the session *)
(* changed.  Messages pushed to the outside world are not undone by a      *)
(* rollback.                                                               *)
(*                                                                         *)
(* A draft is a version number: what matters is which draft a reviewer was *)
(* shown and which one went out.  The event log that every transition also *)
(* appends to is modelled in EventLog.tla.                                 *)
(***************************************************************************)
EXTENDS Integers, FiniteSets

CONSTANTS
    NumSteps,      \* number of steps of the plan
    Deps,          \* Deps[i]: the steps that step i depends on
    Gated,         \* the steps that require approval (the outbound ones)
    Composer,      \* the step whose tool stages the draft on the blackboard
    Session,       \* requests and jobs that may be in progress at once
    NoSession,     \* "nobody holds the row locks of the run"
    MaxAttempts,   \* settings.orch_max_attempts
    MaxRequests,   \* bound: operations submitted in a behaviour
    MaxAborts      \* bound: transactions rolled back in a behaviour

Steps == 0 .. NumSteps - 1

\* What Planner._validate guarantees of every plan the engine is given.
ValidPlan ==
    /\ NumSteps \in Nat \ {0}
    /\ Deps \in [Steps -> SUBSET Steps]
    /\ \A i \in Steps : \A d \in Deps[i] : d < i
    /\ Gated \subseteq Steps

ASSUME PlanAssumption == ValidPlan
ASSUME ComposerAssumption == Composer \in Steps \ Gated
ASSUME SessionAssumption == NoSession \notin Session
ASSUME BoundAssumption ==
    MaxAttempts \in Nat \ {0} /\ MaxRequests \in Nat /\ MaxAborts \in Nat

RunStatus == {"absent", "planning", "running", "awaiting_approval",
              "completed", "failed", "cancelled"}
RunTerminal == {"completed", "failed", "cancelled"}
StepStatus == {"pending", "running", "awaiting_approval", "completed",
               "failed", "skipped", "rejected"}
StepTerminal == {"completed", "failed", "skipped", "rejected"}
GateStatus == {"none", "pending", "approved", "rejected"}

\* The rows of one run: the run's status and the draft on its blackboard, the
\* status of each step, and each step's approval: status and payload shown.
Rows == [run   : RunStatus,
         draft : Nat,
         step  : [Steps -> StepStatus],
         gate  : [Steps -> GateStatus],
         shown : [Steps -> Nat]]

\* A column of a row.  The run's own columns are filed under step 0.
RunCell == <<"run", 0>>
DraftCell == <<"draft", 0>>
Cells == {RunCell, DraftCell} \cup ({"step", "gate", "shown"} \X Steps)

VARIABLES
    db,        \* the committed rows
    lock,      \* the session that has flushed a write, or NoSession
    pc,        \* where each session is in its handler
    op,        \* the operation it performs
    at,        \* the step it works on
    mem,       \* its copy of the rows (the ORM session's identity map)
    dirty,     \* the cells it has flushed
    attempt,   \* attempts at the current step
    edit,      \* the draft a reviewer typed at the gate, 0 if none
    drafts,    \* number of drafts written so far
    granted,   \* drafts a human asked to send, per step
    pushed,    \* pushes to the outside world, per step
    content,   \* drafts that were pushed, per step
    requests,  \* operations submitted so far
    aborts     \* transactions rolled back so far

session == <<pc, op, at, mem, dirty, attempt, edit>>
outside == <<granted, pushed, content>>
vars == <<db, lock, session, drafts, outside, requests, aborts>>

-----------------------------------------------------------------------------
(* Helpers of the engine *)

Fresh == [run   |-> "absent",
          draft |-> 0,
          step  |-> [i \in Steps |-> "pending"],
          gate  |-> [i \in Steps |-> "none"],
          shown |-> [i \in Steps |-> 0]]

Runnable(rows) ==
    {i \in Steps : /\ rows.step[i] = "pending"
                   /\ \A d \in Deps[i] : rows.step[d] = "completed"}

\* Steps are loaded ordered by idx and the first runnable one is taken.
IsNext(rows, i) == i \in Runnable(rows) /\ \A j \in Runnable(rows) : i <= j

\* The steps reachable from i along dependency edges: the least set that is
\* closed under "depends on i or on a member".
Dependents(i) ==
    {j \in Steps : \A S \in SUBSET Steps :
        (\A k \in Steps : (Deps[k] \cap (S \cup {i}) # {}) => k \in S) => j \in S}

CascadeSkip(rows, i) ==
    [rows EXCEPT !.step = [j \in Steps |->
        IF j \in Dependents(i) /\ rows.step[j] = "pending"
        THEN "skipped" ELSE rows.step[j]]]

Finalized(rows) ==
    LET Some(st) == \E i \in Steps : rows.step[i] = st
    IN  [rows EXCEPT !.run =
            IF Some("failed") THEN "failed"
            ELSE IF Some("awaiting_approval") THEN "awaiting_approval"
            ELSE IF \A i \in Steps : rows.step[i] \in StepTerminal THEN "completed"
            ELSE "running"]

Parked(rows, i) ==
    [rows EXCEPT !.gate[i] = "pending", !.shown[i] = rows.draft,
                 !.step[i] = "awaiting_approval", !.run = "awaiting_approval"]

Decided(rows, i, verdict) == [rows EXCEPT !.gate[i] = verdict]

\* Mutant of CancelledRows: the run keeps its status.
CancelledStepsOnly(rows) ==
    [rows EXCEPT !.step = [i \in Steps |->
        IF rows.step[i] \in {"pending", "awaiting_approval"}
        THEN "skipped" ELSE rows.step[i]]]

CancelledRows(rows) ==
    [rows EXCEPT
        !.run = "cancelled",
        !.gate = [i \in Steps |->
            IF rows.step[i] = "awaiting_approval" /\ rows.gate[i] = "pending"
            THEN "rejected" ELSE rows.gate[i]],
        !.step = [i \in Steps |->
            IF rows.step[i] \in {"pending", "awaiting_approval"}
            THEN "skipped" ELSE rows.step[i]]]

-----------------------------------------------------------------------------
(* The transaction around a handler *)

Changed(old, new) ==
    {c \in {RunCell} : old.run # new.run}
    \cup {c \in {DraftCell} : old.draft # new.draft}
    \cup {<<"step", i>> : i \in {j \in Steps : old.step[j] # new.step[j]}}
    \cup {<<"gate", i>> : i \in {j \in Steps : old.gate[j] # new.gate[j]}}
    \cup {<<"shown", i>> : i \in {j \in Steps : old.shown[j] # new.shown[j]}}

\* The committed rows with the flushed cells of a session laid over them.
Merge(base, rows, cells) ==
    LET Pick(cell, new, old) == IF cell \in cells THEN new ELSE old
    IN  [run   |-> Pick(RunCell, rows.run, base.run),
         draft |-> Pick(DraftCell, rows.draft, base.draft),
         step  |-> [i \in Steps |-> Pick(<<"step", i>>, rows.step[i], base.step[i])],
         gate  |-> [i \in Steps |-> Pick(<<"gate", i>>, rows.gate[i], base.gate[i])],
         shown |-> [i \in Steps |-> Pick(<<"shown", i>>, rows.shown[i], base.shown[i])]]

\* Flush new values of the rows; "also" names cells flagged as modified.
Flush(s, rows, also) ==
    /\ lock \in {s, NoSession}
    /\ lock' = s
    /\ mem' = [mem EXCEPT ![s] = rows]
    /\ dirty' = [dirty EXCEPT ![s] = @ \cup Changed(mem[s], rows) \cup also]

Goto(s, label) == pc' = [pc EXCEPT ![s] = label]

\* The session ends: nothing of its memory survives.
Reset(s) ==
    /\ Goto(s, "idle")
    /\ op' = [op EXCEPT ![s] = "none"]
    /\ at' = [at EXCEPT ![s] = 0]
    /\ mem' = [mem EXCEPT ![s] = Fresh]
    /\ dirty' = [dirty EXCEPT ![s] = {}]
    /\ attempt' = [attempt EXCEPT ![s] = 0]
    /\ edit' = [edit EXCEPT ![s] = 0]

-----------------------------------------------------------------------------
(* A request arrives: what its handler reads first *)

Submit(s, name, i, label) ==
    /\ pc[s] = "idle"
    /\ requests < MaxRequests
    /\ requests' = requests + 1
    /\ Goto(s, label)
    /\ op' = [op EXCEPT ![s] = name]
    /\ at' = [at EXCEPT ![s] = i]
    /\ mem' = [mem EXCEPT ![s] = db]
    /\ UNCHANGED <<db, lock, dirty, attempt, pushed, content, aborts>>

\* POST /runs with a new idempotency key.
SubmitCreate(s) ==
    /\ db.run = "absent"
    /\ Submit(s, "create", 0, "ready")
    /\ UNCHANGED <<edit, drafts, granted>>

\* POST /runs with a known key, or the run_orchestration job: execute_run.
SubmitExecute(s) ==
    /\ db.run \notin RunTerminal \cup {"absent"}
    /\ Submit(s, "execute", 0, "ready")
    /\ UNCHANGED <<edit, drafts, granted>>

\* POST /approvals/{id}/decision: the approval is read and must be pending.
\* The human asks to send the draft shown, or one typed over it.
SubmitApprove(s, i, edited) ==
    /\ db.gate[i] = "pending"
    /\ Submit(s, "approve", i, "read")
    /\ drafts' = IF edited THEN drafts + 1 ELSE drafts
    /\ edit' = [edit EXCEPT ![s] = IF edited THEN drafts + 1 ELSE 0]
    /\ granted' = [granted EXCEPT ![i] =
            @ \cup {IF edited THEN drafts + 1 ELSE db.shown[i]}]

SubmitReject(s, i) ==
    /\ db.gate[i] = "pending"
    /\ Submit(s, "reject", i, "read")
    /\ UNCHANGED <<edit, drafts, granted>>

\* POST /approvals/{id}/redraft.
SubmitRedraft(s, i) ==
    /\ db.gate[i] = "pending"
    /\ Submit(s, "redraft", i, "read")
    /\ UNCHANGED <<edit, drafts, granted>>

\* POST /runs/{id}/cancel: the run is read and must not be terminal.
SubmitCancel(s) ==
    /\ db.run \notin RunTerminal \cup {"absent"}
    /\ Submit(s, "cancel", 0, "read")
    /\ UNCHANGED <<edit, drafts, granted>>

\* The rows read second: the run and its steps for a decision, the steps and
\* their approvals for a cancellation.  What was read first is kept.
ReadRest(s) ==
    /\ pc[s] = "read"
    /\ mem' = [mem EXCEPT ![s] =
            IF op[s] = "cancel"
            THEN [db EXCEPT !.run = mem[s].run, !.draft = mem[s].draft]
            ELSE [db EXCEPT !.gate[at[s]] = mem[s].gate[at[s]],
                            !.shown[at[s]] = mem[s].shown[at[s]]]]
    /\ Goto(s, "ready")
    /\ UNCHANGED <<db, lock, op, at, dirty, attempt, edit, drafts,
                   outside, requests, aborts>>

-----------------------------------------------------------------------------
(* The first flush of each operation *)

\* create_run: the insert takes the idempotency key, then execute_run starts.
ApplyCreate(s) ==
    /\ pc[s] = "ready" /\ op[s] = "create"
    /\ db.run = "absent"
    /\ Flush(s, [Fresh EXCEPT !.run = "running"], Cells)
    /\ Goto(s, "drive")
    /\ UNCHANGED <<db, op, at, attempt, edit, drafts, outside,
                   requests, aborts>>

\* Another request committed the same key first: the insert violates
\* uq_run_idempotency and the request fails.
CreateConflict(s) ==
    /\ pc[s] = "ready" /\ op[s] = "create"
    /\ lock = NoSession
    /\ db.run # "absent"
    /\ Reset(s)
    /\ UNCHANGED <<db, lock, drafts, outside, requests, aborts>>

\* execute_run: the status is flushed (if it changes), then the steps are read.
ApplyExecute(s) ==
    /\ pc[s] = "ready" /\ op[s] = "execute"
    /\ LET rows == [db EXCEPT !.run = "running", !.draft = mem[s].draft]
       IN  IF mem[s].run = "running"
           THEN /\ mem' = [mem EXCEPT ![s] = rows]
                /\ UNCHANGED <<lock, dirty>>
           ELSE /\ lock \in {s, NoSession}
                /\ lock' = s
                /\ mem' = [mem EXCEPT ![s] = rows]
                /\ dirty' = [dirty EXCEPT ![s] = @ \cup {RunCell}]
    /\ Goto(s, "drive")
    /\ UNCHANGED <<db, op, at, attempt, edit, drafts, outside,
                   requests, aborts>>

\* Mutant of ApplyApprove: the reviewer's edits are not merged into the draft.
ApplyApproveUnedited(s) ==
    /\ pc[s] = "ready" /\ op[s] = "approve"
    /\ Flush(s, [Decided(mem[s], at[s], "approved") EXCEPT
                    !.run = "running", !.step[at[s]] = "running"], {})
    /\ attempt' = [attempt EXCEPT ![s] = 1]
    /\ Goto(s, "run")
    /\ UNCHANGED <<db, op, at, edit, drafts, outside, requests, aborts>>

\* decide, approve: the draft takes the edits, the approval is decided and the
\* parked step is run, whatever the status of the run and of the step.
ApplyApprove(s) ==
    /\ pc[s] = "ready" /\ op[s] = "approve"
    /\ Flush(s, [Decided(mem[s], at[s], "approved") EXCEPT
                    !.draft = IF edit[s] # 0 THEN edit[s] ELSE @,
                    !.run = "running",
                    !.step[at[s]] = "running"],
             {})
    /\ attempt' = [attempt EXCEPT ![s] = 1]
    /\ Goto(s, "run")
    /\ UNCHANGED <<db, op, at, edit, drafts, outside, requests, aborts>>

\* decide, reject: the step and what depends on it never run.
ApplyReject(s) ==
    /\ pc[s] = "ready" /\ op[s] = "reject"
    /\ Flush(s, CascadeSkip([Decided(mem[s], at[s], "rejected") EXCEPT
                                !.step[at[s]] = "rejected"], at[s]), {})
    /\ Goto(s, "final")
    /\ UNCHANGED <<db, op, at, attempt, edit, drafts, outside,
                   requests, aborts>>

\* redraft: a new draft on the blackboard and on the approval, still pending.
\* (A redraft the agent fails is a request that is rolled back: Abort.)
ApplyRedraft(s) ==
    /\ pc[s] = "ready" /\ op[s] = "redraft"
    /\ drafts' = drafts + 1
    /\ Flush(s, [mem[s] EXCEPT !.draft = drafts + 1, !.shown[at[s]] = drafts + 1], {})
    /\ Goto(s, "commit")
    /\ UNCHANGED <<db, op, at, attempt, edit, outside, requests, aborts>>

ApplyCancel(s) ==
    /\ pc[s] = "ready" /\ op[s] = "cancel"
    /\ Flush(s, CancelledRows(mem[s]), {})
    /\ Goto(s, "commit")
    /\ UNCHANGED <<db, op, at, attempt, edit, drafts, outside,
                   requests, aborts>>

-----------------------------------------------------------------------------
(* The drive loop *)

DriveNothingLeft(s) ==
    /\ pc[s] = "drive"
    /\ Runnable(mem[s]) = {}
    /\ Goto(s, "final")
    /\ UNCHANGED <<db, lock, op, at, mem, dirty, attempt, edit, drafts,
                   outside, requests, aborts>>

\* The first runnable step needs approval: park and stop.
DrivePark(s, i) ==
    /\ pc[s] = "drive"
    /\ IsNext(mem[s], i)
    /\ i \in Gated
    /\ Flush(s, Parked(mem[s], i), {})
    /\ Goto(s, "commit")
    /\ UNCHANGED <<db, op, at, attempt, edit, drafts, outside,
                   requests, aborts>>

\* Mutant of DriveStart: the gate of a step is not looked at.
DriveStartUngated(s, i) ==
    /\ pc[s] = "drive"
    /\ IsNext(mem[s], i)
    /\ Flush(s, [mem[s] EXCEPT !.step[i] = "running"], {})
    /\ at' = [at EXCEPT ![s] = i]
    /\ attempt' = [attempt EXCEPT ![s] = 1]
    /\ Goto(s, "run")
    /\ UNCHANGED <<db, op, edit, drafts, outside, requests, aborts>>

DriveStart(s, i) ==
    /\ pc[s] = "drive"
    /\ IsNext(mem[s], i)
    /\ i \notin Gated
    /\ Flush(s, [mem[s] EXCEPT !.step[i] = "running"], {})
    /\ at' = [at EXCEPT ![s] = i]
    /\ attempt' = [attempt EXCEPT ![s] = 1]
    /\ Goto(s, "run")
    /\ UNCHANGED <<db, op, edit, drafts, outside, requests, aborts>>

-----------------------------------------------------------------------------
(* One attempt at the current step *)

\* What the attempt does outside.  A gated step is SendMessageTool: it refuses
\* to push when there is no draft, may refuse one (ungrounded, undeliverable),
\* may save it to a mailbox instead, and pushes before it delivers by SMTP.
Outcomes(i, rows) ==
    IF i \notin Gated THEN {"ok", "error"}
    ELSE IF rows.draft = 0 THEN {"error"}
    ELSE {"pushed", "pushed_undelivered", "saved", "error"}

Record(i, outcome, draft) ==
    IF outcome \in {"pushed", "pushed_undelivered"}
    THEN /\ pushed' = [pushed EXCEPT ![i] = @ + 1]
         /\ content' = [content EXCEPT ![i] = @ \cup {draft}]
    ELSE UNCHANGED <<pushed, content>>

Succeeds(outcome) == outcome \in {"ok", "pushed", "saved"}

\* Mutant of AttemptSucceeds: the step is left pending, the loop goes on.
AttemptLeavesPending(s, outcome) ==
    /\ pc[s] = "run"
    /\ outcome \in Outcomes(at[s], mem[s]) /\ Succeeds(outcome)
    /\ Record(at[s], outcome, mem[s].draft)
    /\ Flush(s, [mem[s] EXCEPT !.step[at[s]] = "pending"], {})
    /\ Goto(s, "drive")
    /\ UNCHANGED <<db, op, at, attempt, edit, drafts, granted,
                   requests, aborts>>

\* The tool returns: the step is completed and the blackboard is written.
AttemptSucceeds(s, outcome) ==
    /\ pc[s] = "run"
    /\ outcome \in Outcomes(at[s], mem[s]) /\ Succeeds(outcome)
    /\ Record(at[s], outcome, mem[s].draft)
    /\ drafts' = IF at[s] = Composer THEN drafts + 1 ELSE drafts
    /\ Flush(s, [mem[s] EXCEPT !.step[at[s]] = "completed",
                               !.draft = IF at[s] = Composer THEN drafts + 1 ELSE @],
             {DraftCell})
    /\ Goto(s, "drive")
    /\ UNCHANGED <<db, op, at, attempt, edit, granted, requests, aborts>>

AttemptRetries(s, outcome) ==
    /\ pc[s] = "run"
    /\ outcome \in Outcomes(at[s], mem[s]) /\ ~Succeeds(outcome)
    /\ attempt[s] < MaxAttempts
    /\ Record(at[s], outcome, mem[s].draft)
    /\ attempt' = [attempt EXCEPT ![s] = @ + 1]
    /\ UNCHANGED <<db, lock, pc, op, at, mem, dirty, edit, drafts,
                   granted, requests, aborts>>

\* Mutant of AttemptFails: the failure is reported, the step stays "running".
AttemptFailsUnrecorded(s, outcome) ==
    /\ pc[s] = "run"
    /\ outcome \in Outcomes(at[s], mem[s]) /\ ~Succeeds(outcome)
    /\ attempt[s] = MaxAttempts
    /\ Record(at[s], outcome, mem[s].draft)
    /\ Flush(s, CascadeSkip(mem[s], at[s]), {})
    /\ Goto(s, "final")
    /\ UNCHANGED <<db, op, at, attempt, edit, drafts, granted,
                   requests, aborts>>

AttemptFails(s, outcome) ==
    /\ pc[s] = "run"
    /\ outcome \in Outcomes(at[s], mem[s]) /\ ~Succeeds(outcome)
    /\ attempt[s] = MaxAttempts
    /\ Record(at[s], outcome, mem[s].draft)
    /\ Flush(s, CascadeSkip([mem[s] EXCEPT !.step[at[s]] = "failed"], at[s]), {})
    /\ Goto(s, "final")
    /\ UNCHANGED <<db, op, at, attempt, edit, drafts, granted,
                   requests, aborts>>

-----------------------------------------------------------------------------
(* The end of the transaction *)

Finalize(s) ==
    /\ pc[s] = "final"
    /\ LET rows == Finalized(mem[s])
       IN  IF rows = mem[s]
           THEN UNCHANGED <<lock, mem, dirty>>
           ELSE Flush(s, rows, {})
    /\ Goto(s, "commit")
    /\ UNCHANGED <<db, op, at, attempt, edit, drafts, outside,
                   requests, aborts>>

Commit(s) ==
    /\ pc[s] = "commit"
    /\ db' = Merge(db, mem[s], dirty[s])
    /\ lock' = IF lock = s THEN NoSession ELSE lock
    /\ Reset(s)
    /\ UNCHANGED <<drafts, outside, requests, aborts>>

\* The transaction is rolled back: the process dies, the database refuses the
\* transaction, or the handler raises.  What was pushed stays pushed.
Abort(s) ==
    /\ pc[s] # "idle"
    /\ aborts < MaxAborts
    /\ aborts' = aborts + 1
    /\ lock' = IF lock = s THEN NoSession ELSE lock
    /\ Reset(s)
    /\ UNCHANGED <<db, drafts, outside, requests>>

-----------------------------------------------------------------------------

Init ==
    /\ db = Fresh
    /\ lock = NoSession
    /\ pc = [s \in Session |-> "idle"]
    /\ op = [s \in Session |-> "none"]
    /\ at = [s \in Session |-> 0]
    /\ mem = [s \in Session |-> Fresh]
    /\ dirty = [s \in Session |-> {}]
    /\ attempt = [s \in Session |-> 0]
    /\ edit = [s \in Session |-> 0]
    /\ drafts = 0
    /\ granted = [i \in Steps |-> {}]
    /\ pushed = [i \in Steps |-> 0]
    /\ content = [i \in Steps |-> {}]
    /\ requests = 0
    /\ aborts = 0

Arrive(s) ==
    \/ SubmitCreate(s)
    \/ SubmitExecute(s)
    \/ \E i \in Steps : \E edited \in BOOLEAN : SubmitApprove(s, i, edited)
    \/ \E i \in Steps : SubmitReject(s, i)
    \/ \E i \in Steps : SubmitRedraft(s, i)
    \/ SubmitCancel(s)

Proceed(s) ==
    \/ ReadRest(s)
    \/ ApplyCreate(s)
    \/ CreateConflict(s)
    \/ ApplyExecute(s)
    \/ ApplyApprove(s)
    \/ ApplyReject(s)
    \/ ApplyRedraft(s)
    \/ ApplyCancel(s)
    \/ DriveNothingLeft(s)
    \/ \E i \in Steps : DrivePark(s, i)
    \/ \E i \in Steps : DriveStart(s, i)
    \/ \E o \in {"ok", "pushed", "saved"} : AttemptSucceeds(s, o)
    \/ \E o \in {"error", "pushed_undelivered"} : AttemptRetries(s, o)
    \/ \E o \in {"error", "pushed_undelivered"} : AttemptFails(s, o)
    \/ Finalize(s)
    \/ Commit(s)

Next == \E s \in Session : Arrive(s) \/ Proceed(s) \/ Abort(s)

Spec == Init /\ [][Next]_vars

\* A request that has started is carried on by its event loop; nothing obliges
\* a human to submit one, or a process to die.
FairSpec == Spec /\ \A s \in Session : WF_vars(Proceed(s))

-----------------------------------------------------------------------------
(* Properties *)

\* Every variable keeps its type, in the committed rows and in the copies.
TypeOK ==
    /\ db \in Rows
    /\ lock \in Session \cup {NoSession}
    /\ pc \in [Session -> {"idle", "read", "ready", "drive", "run", "final", "commit"}]
    /\ op \in [Session -> {"none", "create", "execute", "approve", "reject",
                           "redraft", "cancel"}]
    /\ at \in [Session -> Steps]
    /\ mem \in [Session -> Rows]
    /\ dirty \in [Session -> SUBSET Cells]
    /\ attempt \in [Session -> 0 .. MaxAttempts]
    /\ edit \in [Session -> Nat]
    /\ drafts \in Nat
    /\ granted \in [Steps -> SUBSET Nat]
    /\ pushed \in [Steps -> Nat]
    /\ content \in [Steps -> SUBSET Nat]
    /\ requests \in 0 .. MaxRequests
    /\ aborts \in 0 .. MaxAborts

\* The gate of engine.py's header: whatever requests race and whatever dies,
\* nothing is pushed for a step unless a human asked to send it, and only a
\* gated step pushes at all.
GateNeverBypassed ==
    \A i \in Steps : pushed[i] > 0 => i \in Gated /\ granted[i] # {}

\* No transaction ends in the middle of a step or of the planning: a process
\* that dies leaves no "running" step and no "planning" run behind.
RestsBetweenSteps ==
    /\ \A i \in Steps : db.step[i] # "running"
    /\ db.run # "planning"

\* A parked run can be moved on: while the run awaits approval some step does,
\* and its approval is pending, so a decision is accepted.
ParkedRunIsDecidable ==
    db.run = "awaiting_approval" =>
        \E i \in Steps : db.step[i] = "awaiting_approval" /\ db.gate[i] = "pending"

\* A plan without branches never rests half-way: once its first request is
\* committed the run is parked at a gate or it is over.
NothingStranded == db.run # "running"

\* A step of a run that was not cancelled is skipped exactly when a step it
\* depends on, directly or not, failed or was rejected.
SkippedExactlyDownstream ==
    db.run # "cancelled" =>
        {i \in Steps : db.step[i] = "skipped"} =
            UNION {Dependents(j) : j \in {k \in Steps :
                        db.step[k] \in {"failed", "rejected"}}}

\* The draft a pending approval shows is the one that would be sent.
ReviewerSeesTheDraft ==
    \A i \in Steps : db.gate[i] = "pending" => db.shown[i] = db.draft

\* Wherever a run rests a human can take it on: it is parked or over, a parked one
\* has an approval to decide, which shows the draft that would be sent.
RunCanGoOn == NothingStranded /\ ParkedRunIsDecidable /\ ReviewerSeesTheDraft

\* What went out is what a human asked to send: the draft shown, or the edit.
SentAsGranted == \A i \in Steps : content[i] \subseteq granted[i]

\* A gate that was rejected has sent nothing, if no process died: the push of
\* an approval is not undone, but its gate is approved with it.
RejectedNeverSent ==
    aborts = 0 => \A i \in Steps : db.gate[i] = "rejected" => pushed[i] = 0

\* Not so: a gated message goes out at most once, as of an engine that "never
\* double-executes the same node".  Two approvals that overlap both send it.
SentOnce == \A i \in Steps : pushed[i] <= 1

\* An approval that was decided is never decided again nor reopened, and the
\* payload it shows stays the record of what was decided.
DecisionIsFinal ==
    \A i \in Steps : db.gate[i] \in {"approved", "rejected"} =>
        db'.gate[i] = db.gate[i] /\ db'.shown[i] = db.shown[i]

\* A run in a terminal status is never changed again, nor are its steps.
TerminalIsFinal ==
    db.run \in RunTerminal => db'.run = db.run /\ db'.step = db.step

\* Not so: a duplicate submit is answered with the run it duplicates, that is, no
\* POST /runs whose process lives ends before its transaction is committed.  Two that
\* overlap find no run, and the second violates the unique constraint.
DuplicateSubmitReturns ==
    [][\A s \in Session : op[s] = "create" /\ op'[s] = "none" =>
            pc[s] = "commit" \/ aborts' # aborts]_vars

\* The engine is an outbound gate, see OutboundGate.tla.
Gate == INSTANCE OutboundGate WITH asked <- [i \in Steps |-> granted[i] # {}]
ImplementsGate == Gate!Spec

\* Every request that is accepted ends: no lock is kept, no loop goes on.
RequestsEnd == \A s \in Session : (pc[s] # "idle") ~> (pc[s] = "idle")
=============================================================================

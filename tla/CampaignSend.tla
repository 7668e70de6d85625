---------------------------- MODULE CampaignSend ----------------------------
(***************************************************************************)
(* A segment campaign after its draft phase                                *)
(* (src/nexus/campaigns/service.py): one human approves the campaign, and  *)
(* every drafted target is sent to once, or enrolled into a cadence; a     *)
(* human may cancel it; the worker may be asked to draft it again.         *)
(*                                                                         *)
(* Requests and jobs are transactions that may overlap.  Each reads the    *)
(* campaign without a lock and checks its status; the status it then       *)
(* writes locks the campaign's row until the end; the targets are read     *)
(* after that.  The API creates and drafts a campaign in one transaction,  *)
(* so what others first see of it is where Init begins.                    *)
(***************************************************************************)
EXTENDS Naturals, FiniteSets

CONSTANTS
    Target,       \* the campaign's targets, one per account
    Drafts,       \* the drafts that the draft phase may leave
    SendRisky,    \* campaign.send_risky
    Modes,        \* the cadence a campaign may have: "none", "some"
    Jobs,         \* "draft" if run_campaign jobs are queued for it
    Session,      \* requests and jobs that may be in progress at once
    NoSession,    \* "nobody holds the campaign's row"
    MaxRequests,  \* bound: requests and jobs in a behaviour
    MaxTouches,   \* bound: messages that a cadence sends to a target
    MaxAborts     \* bound: transactions rolled back in a behaviour

\* What the send policy looks at in a draft.
Verdict == {"none", "valid", "risky", "unknown", "invalid"}
Draft == [grounded : BOOLEAN, contact : BOOLEAN, verdict : Verdict,
          sourced : BOOLEAN, confident : BOOLEAN]

ASSUME TargetAssumption == IsFiniteSet(Target) /\ Drafts \subseteq Draft
ASSUME ModeAssumption == SendRisky \in BOOLEAN /\ Modes \subseteq {"none", "some"} /\ Jobs \subseteq {"draft"}
ASSUME SessionAssumption == NoSession \notin Session
ASSUME BoundAssumption == MaxRequests \in Nat /\ MaxTouches \in Nat /\ MaxAborts \in Nat

\* "drafting", "approved" and, without a cadence, "sending" are overwritten in
\* the transaction that wrote them.
Status == {"awaiting_approval", "sending", "completed", "cancelled"}
Terminal == {"completed", "cancelled"}
TargetStatus == {"drafted", "skipped", "failed", "approved", "sent"}
TargetTerminal == {"skipped", "sent", "failed"}
Reported == {"drafted", "sent", "skipped", "failed"}

Label == {"idle", "lock", "send", "commit"}
Operation == {"none", "approve", "cancel", "draft"}

VARIABLES
    camp,       \* the committed status of the campaign
    report,     \* its committed report
    target,     \* target[t]: committed status of a target
    draft,      \* draft[t]: the draft it was given
    cadence,    \* the cadence the campaign has, if any
    enrolled,   \* enrolled[t]: enrollments of the target
    lock,       \* the session that holds the campaign's row
    pc, op,     \* where each session is, in which operation
    view,       \* view[s]: the targets as s sees and changes them
    joins,      \* joins[s]: the targets that s enrolls
    pushed,     \* pushed[t]: messages to the target that left
    requests, aborts

session == <<pc, op, view, joins>>
vars == <<camp, report, target, draft, cadence, enrolled, lock, session, pushed, requests, aborts>>

-----------------------------------------------------------------------------
(* The draft phase and the send policy *)

\* _classify: is the draft sendable?
Sendable(d) == d.grounded /\ d.contact /\ d.verdict \notin {"none", "invalid"}

\* _draft_one: what becomes of a target that was given a draft; research may
\* also fail, and so may the code.
DraftOutcomes(d) == {"skipped", "failed"} \cup (IF Sendable(d) THEN {"drafted"} ELSE {})

\* _send_policy
MaySend(d) ==
    \/ d.verdict = "valid"
    \/ d.verdict = "risky" /\ SendRisky
    \/ d.verdict \in {"unknown", "none"} /\ (d.sourced => d.confident)

\* _build_report
Counts(v) == [st \in Reported |-> Cardinality({t \in Target : v[t] = st})]

-----------------------------------------------------------------------------
(* Requests and jobs *)

Goto(s, label) == pc' = [pc EXCEPT ![s] = label]

Submit(s, name) ==
    /\ pc[s] = "idle"
    /\ requests < MaxRequests
    /\ requests' = requests + 1
    /\ op' = [op EXCEPT ![s] = name]
    /\ Goto(s, "lock")
    /\ UNCHANGED <<camp, report, target, draft, cadence, enrolled, lock, view, joins, pushed, aborts>>

SubmitApprove(s) ==
    /\ camp = "awaiting_approval"
    /\ Submit(s, "approve")

\* Mutant of SubmitCancel: whatever the campaign's status.
SubmitCancelAlways(s) == Submit(s, "cancel")

SubmitCancel(s) ==
    /\ camp \notin Terminal
    /\ Submit(s, "cancel")

\* handle_run_campaign, draft phase.
SubmitDraft(s) ==
    /\ "draft" \in Jobs
    /\ camp \notin Terminal \cup {"awaiting_approval"}
    /\ Submit(s, "draft")

\* Mutant of TakeRow: the targets are listed before the row is locked.
TakeRowTooLate(s) ==
    /\ pc[s] = "lock"
    /\ lock' = s
    /\ view' = [view EXCEPT ![s] = target]
    /\ Goto(s, IF op[s] = "approve" THEN "send" ELSE "commit")
    /\ UNCHANGED <<camp, report, target, draft, cadence, enrolled, op, joins, pushed, requests, aborts>>

\* The new status is flushed, then the targets are listed.
TakeRow(s) ==
    /\ pc[s] = "lock"
    /\ lock = NoSession
    /\ lock' = s
    /\ view' = [view EXCEPT ![s] = target]
    /\ Goto(s, IF op[s] = "approve" THEN "send" ELSE "commit")
    /\ UNCHANGED <<camp, report, target, draft, cadence, enrolled, op, joins, pushed, requests, aborts>>

ToSend(s) == {t \in Target : view[s][t] = "drafted"}

\* One target is dealt with; an error is its own and the others go on.
Resolve(s, t, status) ==
    /\ pc[s] = "send" /\ cadence = "none"
    /\ t \in ToSend(s)
    /\ view' = [view EXCEPT ![s][t] = status]
    /\ UNCHANGED <<camp, report, target, draft, cadence, enrolled, lock, pc, op, joins, requests, aborts>>

Push(t) == pushed' = [pushed EXCEPT ![t] = @ + 1]

SendHeldBack(s, t) ==
    /\ ~MaySend(draft[t])
    /\ Resolve(s, t, "skipped")
    /\ UNCHANGED pushed

SendDelivers(s, t) ==
    /\ MaySend(draft[t])
    /\ Resolve(s, t, "sent")
    /\ Push(t)

\* The platform takes it, the mailbox does not.
SendUndelivered(s, t) ==
    /\ MaySend(draft[t])
    /\ Resolve(s, t, "skipped")
    /\ Push(t)

\* SendMessageTool refuses (the address is dead by now), or anything raises.
SendRefused(s, t, status) ==
    /\ status \in {"skipped", "failed"}
    /\ MaySend(draft[t])
    /\ Resolve(s, t, status)
    /\ UNCHANGED pushed

SendDone(s) ==
    /\ pc[s] = "send" /\ cadence = "none"
    /\ ToSend(s) = {}
    /\ Goto(s, "commit")
    /\ UNCHANGED <<camp, report, target, draft, cadence, enrolled, lock, op, view, joins, pushed,
                   requests, aborts>>

\* _enroll_drafted
EnrollDrafted(s) ==
    /\ pc[s] = "send" /\ cadence # "none"
    /\ joins' = [joins EXCEPT ![s] = ToSend(s)]
    /\ view' = [view EXCEPT ![s] =
                   [t \in Target |-> IF t \in ToSend(s) THEN "approved" ELSE view[s][t]]]
    /\ Goto(s, "commit")
    /\ UNCHANGED <<camp, report, target, draft, cadence, enrolled, lock, op, pushed, requests, aborts>>

\* The transaction is over.
Forget(s) ==
    /\ Goto(s, "idle")
    /\ op' = [op EXCEPT ![s] = "none"]
    /\ joins' = [joins EXCEPT ![s] = {}]
    /\ UNCHANGED view

StatusAfter(name) ==
    CASE name = "approve" -> IF cadence # "none" THEN "sending" ELSE "completed"
      [] name = "cancel"  -> "cancelled"
      [] name = "draft"   -> "awaiting_approval"

\* Mutant of Commit: the report is built before the targets are dealt with.
CommitEarlyReport(s) ==
    /\ pc[s] = "commit"
    /\ camp' = StatusAfter(op[s])
    /\ report' = Counts(target)
    /\ target' = view[s]
    /\ enrolled' = [t \in Target |-> enrolled[t] + (IF t \in joins[s] THEN 1 ELSE 0)]
    /\ lock' = NoSession
    /\ Forget(s)
    /\ UNCHANGED <<draft, cadence, pushed, requests, aborts>>

Commit(s) ==
    /\ pc[s] = "commit"
    /\ camp' = StatusAfter(op[s])
    /\ report' = Counts(view[s])
    /\ target' = view[s]
    /\ enrolled' = [t \in Target |-> enrolled[t] + (IF t \in joins[s] THEN 1 ELSE 0)]
    /\ lock' = NoSession
    /\ Forget(s)
    /\ UNCHANGED <<draft, cadence, pushed, requests, aborts>>

\* A process dies, the database refuses.
Abort(s) ==
    /\ pc[s] # "idle"
    /\ aborts < MaxAborts
    /\ aborts' = aborts + 1
    /\ lock' = IF lock = s THEN NoSession ELSE lock
    /\ Forget(s)
    /\ UNCHANGED <<camp, report, target, draft, cadence, enrolled, pushed, requests>>

\* The cadence of an enrolled target sends a message (CadenceEnrollment);
\* _run_touch fetches the campaign and asks no more than that it exists.
Touch(t) ==
    /\ enrolled[t] > 0
    /\ pushed[t] < MaxTouches
    /\ Push(t)
    /\ UNCHANGED <<camp, report, target, draft, cadence, enrolled, lock, session, requests, aborts>>

-----------------------------------------------------------------------------

Init ==
    /\ camp = "awaiting_approval"
    /\ draft \in [Target -> Drafts]
    /\ cadence \in Modes
    /\ target \in {v \in [Target -> TargetStatus] :
                       \A t \in Target : v[t] \in DraftOutcomes(draft[t])}
    /\ report = Counts(target)
    /\ enrolled = [t \in Target |-> 0]
    /\ lock = NoSession
    /\ pc = [s \in Session |-> "idle"]
    /\ op = [s \in Session |-> "none"]
    /\ view = [s \in Session |-> target]
    /\ joins = [s \in Session |-> {}]
    /\ pushed = [t \in Target |-> 0]
    /\ requests = 0
    /\ aborts = 0

Proceed(s) ==
    \/ TakeRow(s)
    \/ \E t \in Target :
          \/ SendHeldBack(s, t)
          \/ SendDelivers(s, t)
          \/ SendUndelivered(s, t)
          \/ \E status \in {"skipped", "failed"} : SendRefused(s, t, status)
    \/ SendDone(s)
    \/ EnrollDrafted(s)
    \/ Commit(s)

Next ==
    \/ \E s \in Session :
          SubmitApprove(s) \/ SubmitCancel(s) \/ SubmitDraft(s) \/ Proceed(s) \/ Abort(s)
    \/ \E t \in Target : Touch(t)

Spec == Init /\ [][Next]_vars

\* A transaction that has started is carried on; who waits for the row is
\* served in turn.
FairSpec == Spec /\ \A s \in Session : SF_vars(Proceed(s))

-----------------------------------------------------------------------------
(* Properties *)

TypeOK ==
    /\ camp \in Status
    /\ report \in [Reported -> Nat]
    /\ target \in [Target -> TargetStatus]
    /\ draft \in [Target -> Drafts]
    /\ cadence \in Modes
    /\ enrolled \in [Target -> Nat]
    /\ lock \in Session \cup {NoSession}
    /\ pc \in [Session -> Label]
    /\ op \in [Session -> Operation]
    /\ view \in [Session -> [Target -> TargetStatus]]
    /\ joins \in [Session -> SUBSET Target]
    /\ pushed \in [Target -> Nat]
    /\ requests \in 0 .. MaxRequests
    /\ aborts \in 0 .. MaxAborts

\* "re-approving / double-enqueue doesn't double-send": approvals that overlap
\* send each target's message once, if no process dies.
LeavesOnce == aborts = 0 /\ cadence = "none" => \A t \in Target : pushed[t] <= 1

\* No target is enrolled twice, even if approvals overlap and processes die.
EnrolledOnce == \A t \in Target : enrolled[t] <= 1

\* However approvals overlap, each target is written to or enrolled once.
OncePerTarget == EnrolledOnce /\ LeavesOnce

\* The committed report counts the committed targets, although it is built
\* from the copies of one transaction among others.
ReportAgrees == report = Counts(target)

\* "completed: all targets terminal"; one bad target does not block the rest.
CompletedIsTerminal ==
    camp = "completed" => \A t \in Target : target[t] \in TargetTerminal

\* What the campaign says of itself is so: its report and its completion.
SaysTheTruth == ReportAgrees /\ CompletedIsTerminal

\* A campaign that is over stays as it ended once the transactions that read
\* it before are over too; whom a campaign without a cadence had not written to
\* then, it never does.
RestsForGood ==
    \A st \in Terminal : \A t \in Target :
        [](/\ camp = st /\ (cadence # "none" \/ pushed[t] = 0)
           /\ \A s \in Session : pc[s] = "idle"
           => [](camp = st /\ (cadence # "none" \/ pushed[t] = 0)))

\* Not so: "the campaign stops here", nothing leaves for a cancelled campaign.  The
\* enrollments it made stay active.
NothingAfterCancel ==
    [][camp = "cancelled" => pushed' = pushed]_vars

\* Every request and job ends.
SessionsEnd == \A s \in Session : (pc[s] # "idle") ~> (pc[s] = "idle")

\* Requests end, and what is over stays over.
EndsForGood == SessionsEnd /\ RestsForGood
=============================================================================

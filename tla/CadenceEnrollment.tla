-------------------------- MODULE CadenceEnrollment --------------------------
(***************************************************************************)
(* One enrollment of a contact in a multi-touch cadence                    *)
(* (src/nexus/cadences/service.py): the worker's advance tick, the human   *)
(* controls of src/nexus/api/routers/cadences.py and the replies of the    *)
(* prospect, under the transaction discipline of OrchestrationEngine.      *)
(*                                                                         *)
(* The tick claims the enrollment with FOR UPDATE SKIP LOCKED and keeps    *)
(* its row until it commits; requests read without a lock and lock a row   *)
(* when they first write it.  A touch is a row of its own.  Composing is   *)
(* an agent run of which only the outcome matters.                         *)
(*                                                                         *)
(* Time is counted in days.  A transaction takes less than a day: days     *)
(* pass between transactions only.                                         *)
(***************************************************************************)
EXTENDS Integers

CONSTANTS
    NumSteps,      \* touches of the cadence
    Delay,         \* Delay[k]: days to wait before touch k
    CallSteps,     \* touches that queue a call instead of a message
    Review,        \* campaign.review_each_touch
    CapDays,       \* settings.cadence_max_duration_days
    Controls,      \* the controls that humans use: "pause", "resume", "stop"
    Session,       \* requests and ticks that may be in progress at once
    NoSession,     \* "nobody holds this row"
    MaxRequests,   \* bound: human requests in a behaviour
    MaxAborts      \* bound: transactions rolled back in a behaviour

Steps == 0 .. NumSteps - 1
EnrollmentRow == -1
Row == Steps \cup {EnrollmentRow}      \* a touch's row is named by its step

ASSUME StepAssumption ==
    /\ NumSteps \in Nat \ {0}
    /\ Delay \in [Steps -> Nat]
    /\ CallSteps \subseteq Steps
    /\ CapDays \in Nat
ASSUME ModeAssumption == Review \in BOOLEAN /\ Controls \subseteq {"pause", "resume", "stop"}
ASSUME SessionAssumption == NoSession \notin Session
ASSUME BoundAssumption == MaxRequests \in Nat /\ MaxAborts \in Nat

Status == {"active", "paused", "completed", "stopped"}
Terminal == {"completed", "stopped"}
TouchStatus == {"none", "sent", "skipped", "failed", "awaiting_approval"}
Move == {"advance", "stop", "park"}    \* what _run_touch's answer asks for

Operation == {"none", "tick", "approve", "reject", "reject_stop", "pause", "resume", "stop"}
Label == {"idle", "check", "compose", "send", "mark", "move", "read", "control", "commit"}

\* The columns of the enrollment; wait is the days left until it is due.
Enrollments == [status : Status, idx : Steps, wait : Nat]
Column == {"status", "idx", "wait", "touch"}

VARIABLES
    enr,       \* the committed enrollment
    touch,     \* touch[k]: the committed touch of step k
    lock,      \* lock[r]: the session that holds row r
    pc, op,    \* where each session is, in which operation
    at,        \* the step whose touch it works on
    mem,       \* its copy of the enrollment
    dirty,     \* the columns it wrote ("touch" is the touch of its step)
    result,    \* what becomes of the touch
    move,      \* what becomes of the enrollment
    age,       \* days since the enrollment started
    replied,   \* the prospect has replied
    asked,     \* asked[k]: a human approved touch k
    pushed,    \* pushed[k]: messages of touch k that left
    late,      \* messages that left after the reply
    requests, aborts

session == <<pc, op, at, mem, dirty, result, move>>
outside == <<asked, pushed, late>>
vars == <<enr, touch, lock, session, age, replied, outside, requests, aborts>>

\* enroll: due when the delay of the first step is over.
Enrolled == [status |-> "active", idx |-> 0, wait |-> Delay[0]]

-----------------------------------------------------------------------------
(* The enrollment's transitions *)

Completed(e) == [e EXCEPT !.status = "completed"]

\* Mutant of Stopped: only the reason is recorded.
StoppedInNameOnly(e) == e

Stopped(e) == [e EXCEPT !.status = "stopped"]

\* _advance: the next step, due after its delay, or the end.
Advanced(e) ==
    IF e.idx + 1 \in Steps
    THEN [status |-> "active", idx |-> e.idx + 1, wait |-> Delay[e.idx + 1]]
    ELSE Completed(e)

Moved(e, m) ==
    CASE m = "advance" -> Advanced(e)
      [] m = "stop"    -> Stopped(e)
      [] m = "park"    -> [e EXCEPT !.status = "paused"]

\* A column is written when it changes; a due date is a new instant each time.
Changed(old, new) ==
    {c \in {"status"} : old.status # new.status}
    \cup {c \in {"idx", "wait"} : old.idx # new.idx}

-----------------------------------------------------------------------------
(* Transactions *)

Goto(s, label) == pc' = [pc EXCEPT ![s] = label]

\* Writing a row waits for the transaction that holds it.
Write(s, row, columns) ==
    /\ lock[row] \in {s, NoSession}
    /\ lock' = [lock EXCEPT ![row] = s]
    /\ dirty' = [dirty EXCEPT ![s] = @ \cup columns]

\* A commit writes the columns the session changed.
Merge(base, e, columns) ==
    [status |-> IF "status" \in columns THEN e.status ELSE base.status,
     idx    |-> IF "idx" \in columns THEN e.idx ELSE base.idx,
     wait   |-> IF "wait" \in columns THEN e.wait ELSE base.wait]

\* The transaction ends: its memory is gone and its locks are released.
Forget(s) ==
    /\ Goto(s, "idle")
    /\ op' = [op EXCEPT ![s] = "none"]
    /\ at' = [at EXCEPT ![s] = 0]
    /\ mem' = [mem EXCEPT ![s] = Enrolled]
    /\ dirty' = [dirty EXCEPT ![s] = {}]
    /\ result' = [result EXCEPT ![s] = "none"]
    /\ move' = [move EXCEPT ![s] = "advance"]

Release(s) == lock' = [r \in Row |-> IF lock[r] = s THEN NoSession ELSE lock[r]]

RollBack(s) ==
    /\ Forget(s)
    /\ Release(s)
    /\ UNCHANGED <<enr, touch, age, replied, outside, requests>>

\* Mutant of Commit: the rows stay locked.
CommitKeepsLocks(s) ==
    /\ pc[s] = "commit"
    /\ enr' = Merge(enr, mem[s], dirty[s])
    /\ touch' = IF "touch" \in dirty[s] THEN [touch EXCEPT ![at[s]] = result[s]] ELSE touch
    /\ Forget(s)
    /\ UNCHANGED <<lock, age, replied, outside, requests, aborts>>

Commit(s) ==
    /\ pc[s] = "commit"
    /\ enr' = Merge(enr, mem[s], dirty[s])
    /\ touch' = IF "touch" \in dirty[s] THEN [touch EXCEPT ![at[s]] = result[s]] ELSE touch
    /\ Forget(s)
    /\ Release(s)
    /\ UNCHANGED <<age, replied, outside, requests, aborts>>

\* A process dies, the database refuses the transaction, the handler raises.
Abort(s) ==
    /\ pc[s] # "idle"
    /\ aborts < MaxAborts
    /\ aborts' = aborts + 1
    /\ RollBack(s)

\* The row a session is about to write, if it is about to write one.
Wants(s) ==
    CASE pc[s] = "mark" -> {at[s]}
      [] pc[s] \in {"move", "control"} -> {EnrollmentRow}
      [] OTHER -> {}

\* Two transactions that wait for each other: the database aborts one.
DeadlockVictim(s, t) ==
    /\ \E r \in Wants(s) : lock[r] = t
    /\ \E r \in Wants(t) : lock[r] = s
    /\ s # t
    /\ RollBack(s)
    /\ UNCHANGED aborts

-----------------------------------------------------------------------------
(* The advance tick *)

\* Mutant of TickClaim: the claim does not lock the row.
TickClaimUnlocked(s) ==
    /\ pc[s] = "idle"
    /\ enr.status = "active" /\ enr.wait = 0
    /\ op' = [op EXCEPT ![s] = "tick"]
    /\ at' = [at EXCEPT ![s] = enr.idx]
    /\ mem' = [mem EXCEPT ![s] = enr]
    /\ Goto(s, "check")
    /\ UNCHANGED <<enr, touch, lock, dirty, result, move, age, replied, outside,
                   requests, aborts>>

\* _claim_due: an active, due enrollment whose row nobody holds.
TickClaim(s) ==
    /\ pc[s] = "idle"
    /\ enr.status = "active" /\ enr.wait = 0
    /\ lock[EnrollmentRow] = NoSession
    /\ lock' = [lock EXCEPT ![EnrollmentRow] = s]
    /\ op' = [op EXCEPT ![s] = "tick"]
    /\ at' = [at EXCEPT ![s] = enr.idx]
    /\ mem' = [mem EXCEPT ![s] = enr]
    /\ Goto(s, "check")
    /\ UNCHANGED <<enr, touch, dirty, result, move, age, replied, outside,
                   requests, aborts>>

\* Decide what becomes of the touch and of the enrollment.
Decide(s, res, mv, label) ==
    /\ result' = [result EXCEPT ![s] = res]
    /\ move' = [move EXCEPT ![s] = mv]
    /\ Goto(s, label)
    /\ UNCHANGED <<enr, touch, lock, op, at, mem, dirty, age, replied, asked,
                   requests, aborts>>

Quiet == UNCHANGED <<pushed, late>>

\* Mutant of MustStop: a reply is not looked for.
MustStopOnCap == age > CapDays

\* _has_reply, _exceeded_duration.
MustStop == replied \/ age > CapDays

CheckStop(s) ==
    /\ pc[s] = "check" /\ MustStop
    /\ Decide(s, "none", "stop", "move") /\ Quiet

\* The step was sent already: a claimed enrollment only advances.
CheckSent(s) ==
    /\ pc[s] = "check" /\ ~MustStop
    /\ touch[at[s]] = "sent"
    /\ Decide(s, "none", "advance", "move") /\ Quiet

\* A call is queued for a human, the cadence goes on.
CheckCall(s) ==
    /\ pc[s] = "check" /\ ~MustStop
    /\ touch[at[s]] # "sent"
    /\ at[s] \in CallSteps
    /\ Decide(s, "sent", "advance", "mark") /\ Quiet

CheckCompose(s) ==
    /\ pc[s] = "check" /\ ~MustStop
    /\ touch[at[s]] # "sent"
    /\ at[s] \notin CallSteps
    /\ Decide(s, "none", "advance", "compose") /\ Quiet

\* Composing raises: the touch has failed, the enrollment goes on.
ComposeRaises(s) ==
    /\ pc[s] = "compose"
    /\ Decide(s, "failed", "advance", "mark") /\ Quiet

\* The draft is not grounded, or the send policy holds it back.
ComposeHeld(s, mv) ==
    /\ pc[s] = "compose"
    /\ mv \in {"advance", "stop"}      \* "stop": the address is dead
    /\ Decide(s, "skipped", mv, "mark") /\ Quiet

\* Mutant of ComposePark: the enrollment goes on while the touch is reviewed.
ComposeParkAndAdvance(s) ==
    /\ pc[s] = "compose" /\ Review
    /\ Decide(s, "awaiting_approval", "advance", "mark") /\ Quiet

ComposePark(s) ==
    /\ pc[s] = "compose" /\ Review
    /\ Decide(s, "awaiting_approval", "park", "mark") /\ Quiet

\* Mutant of ComposeSend: the review of each touch is not looked at.
ComposeSendAnyway(s) ==
    /\ pc[s] = "compose"
    /\ Decide(s, "none", "advance", "send") /\ Quiet

ComposeSend(s) ==
    /\ pc[s] = "compose" /\ ~Review
    /\ Decide(s, "none", "advance", "send") /\ Quiet

-----------------------------------------------------------------------------
(* Sending, for a tick and for an approval *)

Push(s) ==
    /\ pushed' = [pushed EXCEPT ![at[s]] = @ + 1]
    /\ late' = IF replied THEN late + 1 ELSE late

SendDelivers(s) ==
    /\ pc[s] = "send"
    /\ Push(s)
    /\ Decide(s, "sent", "advance", "mark")

\* Pushed to the engagement platform, refused by the mailbox's SMTP server,
\* in words that blame the address ("stop") or not.
SendUndelivered(s, mv) ==
    /\ pc[s] = "send"
    /\ mv \in {"advance", "stop"}
    /\ Push(s)
    /\ Decide(s, "skipped", mv, "mark")

\* SendMessageTool refuses: a dead address, no draft, not grounded.
SendRefused(s, mv) ==
    /\ pc[s] = "send"
    /\ mv \in {"advance", "stop"}
    /\ Decide(s, "skipped", mv, "mark") /\ Quiet

\* Anything else raises: a tick records it, a request fails.
SendRaises(s) ==
    /\ pc[s] = "send"
    /\ \/ /\ op[s] = "tick"
          /\ Decide(s, "failed", "advance", "mark") /\ Quiet
       \/ /\ op[s] # "tick"
          /\ RollBack(s) /\ UNCHANGED aborts

\* Mutant of Mark: a touch that was skipped is not recorded.
MarkForgets(s) ==
    /\ pc[s] = "mark"
    /\ Write(s, at[s], IF result[s] = "skipped" THEN {} ELSE {"touch"})
    /\ Goto(s, "move")
    /\ UNCHANGED <<enr, touch, op, at, mem, result, move, age, replied, outside,
                   requests, aborts>>

\* The touch is flushed ...
Mark(s) ==
    /\ pc[s] = "mark"
    /\ Write(s, at[s], {"touch"})
    /\ Goto(s, "move")
    /\ UNCHANGED <<enr, touch, op, at, mem, result, move, age, replied, outside,
                   requests, aborts>>

\* ... and then the enrollment.
MoveOn(s) ==
    /\ pc[s] = "move"
    /\ LET e == Moved(mem[s], move[s])
       IN  /\ Write(s, EnrollmentRow, Changed(mem[s], e))
           /\ mem' = [mem EXCEPT ![s] = e]
    /\ Goto(s, "commit")
    /\ UNCHANGED <<enr, touch, op, at, result, move, age, replied, outside,
                   requests, aborts>>

-----------------------------------------------------------------------------
(* Humans *)

Submit(s, name, k, label) ==
    /\ pc[s] = "idle"
    /\ requests < MaxRequests
    /\ requests' = requests + 1
    /\ op' = [op EXCEPT ![s] = name]
    /\ at' = [at EXCEPT ![s] = k]
    /\ mem' = [mem EXCEPT ![s] = enr]
    /\ Goto(s, label)
    /\ UNCHANGED <<enr, touch, lock, dirty, result, move, age, replied, pushed,
                   late, aborts>>

\* Approve a touch, or reject it and go on or stop.
SubmitApprove(s, k) ==
    /\ touch[k] = "awaiting_approval"
    /\ Submit(s, "approve", k, "read")
    /\ asked' = [asked EXCEPT ![k] = TRUE]

SubmitReject(s, k, name) ==
    /\ touch[k] = "awaiting_approval"
    /\ name \in {"reject", "reject_stop"}
    /\ Submit(s, name, k, "read")
    /\ UNCHANGED asked

\* _awaiting_touch: the touch is read after the enrollment.
ReadTouch(s) ==
    /\ pc[s] = "read"
    /\ touch[at[s]] = "awaiting_approval"
    /\ CASE op[s] = "approve"     -> Decide(s, "none", "advance", "send")
         [] op[s] = "reject"      -> Decide(s, "skipped", "advance", "mark")
         [] OTHER                 -> Decide(s, "skipped", "stop", "mark")
    /\ Quiet

ReadTouchGone(s) ==
    /\ pc[s] = "read"
    /\ touch[at[s]] # "awaiting_approval"
    /\ RollBack(s) /\ UNCHANGED aborts

SubmitPause(s) ==
    /\ "pause" \in Controls
    /\ enr.status = "active"
    /\ Submit(s, "pause", 0, "control")
    /\ UNCHANGED asked

SubmitResume(s) ==
    /\ "resume" \in Controls
    /\ enr.status = "paused"
    /\ Submit(s, "resume", 0, "control")
    /\ UNCHANGED asked

SubmitStop(s) ==
    /\ "stop" \in Controls
    /\ enr.status \notin Terminal
    /\ Submit(s, "stop", 0, "control")
    /\ UNCHANGED asked

Controlled(e, name) ==
    CASE name = "pause"  -> [e EXCEPT !.status = "paused"]
      [] name = "resume" -> [e EXCEPT !.status = "active", !.wait = 0]
      [] OTHER           -> Stopped(e)

\* pause, resume and stop write what the status they read calls for.
Control(s) ==
    /\ pc[s] = "control"
    /\ Write(s, EnrollmentRow, IF op[s] = "resume" THEN {"status", "wait"} ELSE {"status"})
    /\ mem' = [mem EXCEPT ![s] = Controlled(@, op[s])]
    /\ Goto(s, "commit")
    /\ UNCHANGED <<enr, touch, op, at, result, move, age, replied, outside,
                   requests, aborts>>

-----------------------------------------------------------------------------
(* The world *)

Reply ==
    /\ ~replied
    /\ replied' = TRUE
    /\ UNCHANGED <<enr, touch, lock, session, age, outside, requests, aborts>>

\* An age above the cap and a wait of 0 say all there is to say.
DayPasses ==
    /\ \A s \in Session : pc[s] = "idle"
    /\ age' = IF age > CapDays THEN age ELSE age + 1
    /\ enr' = [enr EXCEPT !.wait = IF @ > 0 THEN @ - 1 ELSE 0]
    /\ UNCHANGED <<touch, lock, session, replied, outside, requests, aborts>>

-----------------------------------------------------------------------------

Init ==
    /\ enr = Enrolled
    /\ touch = [k \in Steps |-> "none"]
    /\ lock = [r \in Row |-> NoSession]
    /\ pc = [s \in Session |-> "idle"]
    /\ op = [s \in Session |-> "none"]
    /\ at = [s \in Session |-> 0]
    /\ mem = [s \in Session |-> Enrolled]
    /\ dirty = [s \in Session |-> {}]
    /\ result = [s \in Session |-> "none"]
    /\ move = [s \in Session |-> "advance"]
    /\ age = 0
    /\ replied = FALSE
    /\ asked = [k \in Steps |-> FALSE]
    /\ pushed = [k \in Steps |-> 0]
    /\ late = 0
    /\ requests = 0
    /\ aborts = 0

Human(s) ==
    \/ \E k \in Steps : SubmitApprove(s, k)
    \/ \E k \in Steps : \E name \in {"reject", "reject_stop"} : SubmitReject(s, k, name)
    \/ SubmitPause(s)
    \/ SubmitResume(s)
    \/ SubmitStop(s)

Proceed(s) ==
    \/ CheckStop(s)
    \/ CheckSent(s)
    \/ CheckCall(s)
    \/ CheckCompose(s)
    \/ ComposeRaises(s)
    \/ \E mv \in {"advance", "stop"} : ComposeHeld(s, mv)
    \/ ComposePark(s)
    \/ ComposeSend(s)
    \/ SendDelivers(s)
    \/ \E mv \in {"advance", "stop"} : SendUndelivered(s, mv)
    \/ \E mv \in {"advance", "stop"} : SendRefused(s, mv)
    \/ SendRaises(s)
    \/ ReadTouch(s)
    \/ ReadTouchGone(s)
    \/ Mark(s)
    \/ MoveOn(s)
    \/ Control(s)
    \/ Commit(s)
    \/ \E t \in Session : DeadlockVictim(s, t)

Next ==
    \/ \E s \in Session : TickClaim(s) \/ Human(s) \/ Proceed(s) \/ Abort(s)
    \/ Reply
    \/ DayPasses

Spec == Init /\ [][Next]_vars

\* The scheduler enqueues the tick again and again, a transaction that has
\* started is carried on, the database serves those who wait for a row in turn
\* (hence the strong fairness), days pass; nothing obliges humans, prospects or
\* deaths.
FairSpec ==
    /\ Spec
    /\ WF_vars(\E s \in Session : TickClaim(s))
    /\ \A s \in Session : SF_vars(Proceed(s))
    /\ WF_vars(DayPasses)

-----------------------------------------------------------------------------
(* Properties *)

TypeOK ==
    /\ enr \in Enrollments
    /\ touch \in [Steps -> TouchStatus]
    /\ lock \in [Row -> Session \cup {NoSession}]
    /\ pc \in [Session -> Label]
    /\ op \in [Session -> Operation]
    /\ at \in [Session -> Steps]
    /\ mem \in [Session -> Enrollments]
    /\ dirty \in [Session -> SUBSET Column]
    /\ result \in [Session -> TouchStatus]
    /\ move \in [Session -> Move]
    /\ age \in 0 .. CapDays + 1
    /\ replied \in BOOLEAN
    /\ asked \in [Steps -> BOOLEAN]
    /\ pushed \in [Steps -> Nat]
    /\ late \in Nat
    /\ requests \in 0 .. MaxRequests
    /\ aborts \in 0 .. MaxAborts

\* "a step is touched exactly once per enrollment" (models/cadence.py), however
\* ticks, pauses and stops overlap, if no process dies and no human decides or
\* resumes.
OncePerStep ==
    aborts = 0 /\ ~Review /\ "resume" \notin Controls =>
        \A k \in Steps : pushed[k] <= 1

\* Under per-touch review nothing leaves that no human approved.
ReviewGate == Review => \A k \in Steps : pushed[k] > 0 => asked[k]

\* Under per-touch review the enrollment is an outbound gate.
Gate == INSTANCE OutboundGate WITH Gated <- Steps
ImplementsGate == Gate!Spec

\* Days pass before every touch but the first, and nobody resumes.
Unhurried == "resume" \notin Controls /\ \A k \in Steps \ {0} : Delay[k] > 0

\* Cadences that no late decision can take back.  Of two decisions that read one
\* touch the second is not refused: it writes the step after that touch, wherever
\* the enrollment has got to since.  To get further within a day it needs steps
\* without a delay, or a resume, and three steps.
ForwardOnly == ~Review \/ NumSteps <= 2 \/ Unhurried

\* Touches happen in the order of the steps: one is begun when all before it
\* are decided.
TouchesInOrder ==
    ForwardOnly =>
        \A k \in Steps : touch[k] # "none" =>
            \A j \in 0 .. k - 1 : touch[j] \in {"sent", "skipped", "failed"}

\* The schedule of a cadence: each step once, and one after the other.
EachStepOnceInOrder == OncePerStep /\ TouchesInOrder

\* The touch under review is the one the enrollment stands at.
AwaitingIsCurrent ==
    ForwardOnly => \A k \in Steps : touch[k] = "awaiting_approval" => enr.idx = k

\* While a tick works on an enrollment, what it claimed stays true in the
\* database: no pause, stop, completion or other tick is committed in between.
ClaimHolds ==
    \A s \in Session : op[s] = "tick" => enr.status = "active" /\ enr.idx = at[s]

\* Not so: an enrollment that is over stays as it ended.  A decision that read the
\* touch before a stop makes the enrollment active again.
TerminalIsFinal == [][enr.status \in Terminal => enr'.status = enr.status]_vars

\* An enrollment that is over stays as it ended, once the transactions that
\* read it before are over too.
RestsForGood ==
    \A st \in Terminal :
        [](enr.status = st /\ (\A s \in Session : pc[s] = "idle") => [](enr.status = st))

\* The prospect's reply stops a cadence that nobody reviews: one message may
\* already be under way.  An approval does not look for a reply.
ReplyStops == ~Review => late <= 1

\* Every transaction ends, deadlocks included.
SessionsEnd == \A s \in Session : (pc[s] # "idle") ~> (pc[s] = "idle")

\* An active enrollment comes to its end, or to a human's turn.
ActiveResolves == (enr.status = "active") ~> (enr.status # "active")

\* An enrollment comes to an end or to a human's turn, and its end is for good.
EndsForGood == ActiveResolves /\ RestsForGood
=============================================================================

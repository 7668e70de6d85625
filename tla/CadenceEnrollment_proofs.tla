---------------------- MODULE CadenceEnrollment_proofs ----------------------
(***************************************************************************)
(* Theorems about CadenceEnrollment for every cadence, every set of        *)
(* sessions and every bound.                                               *)
(***************************************************************************)
EXTENDS CadenceEnrollment, TLAPS

-----------------------------------------------------------------------------
(* Type correctness *)

LEMMA StepFacts == 0 \in Steps /\ Steps \subseteq Nat /\ EnrollmentRow \notin Steps
BY StepAssumption DEF Steps, EnrollmentRow

LEMMA EnrolledType == Enrolled \in Enrollments
BY StepFacts, StepAssumption DEF Enrolled, Enrollments, Status

LEMMA MovedType ==
    ASSUME NEW e \in Enrollments, NEW m \in Move
    PROVE  Moved(e, m) \in Enrollments
<1>1. Advanced(e) \in Enrollments
  <2>1. CASE e.idx + 1 \in Steps
    BY <2>1, StepAssumption DEF Advanced, Enrollments, Status
  <2>2. CASE e.idx + 1 \notin Steps
    BY <2>2 DEF Advanced, Completed, Enrollments, Status
  <2>3. QED
    BY <2>1, <2>2
<1>2. CASE m = "advance"
  BY <1>1, <1>2 DEF Moved
<1>3. CASE m = "stop"
  BY <1>3 DEF Moved, Stopped, Enrollments, Status
<1>4. CASE m = "park"
  BY <1>4 DEF Moved, Enrollments, Status
<1>5. QED
  BY <1>2, <1>3, <1>4 DEF Move

LEMMA ForgetType ==
    ASSUME TypeOK, NEW s \in Session, Forget(s)
    PROVE  /\ pc' \in [Session -> Label]
           /\ op' \in [Session -> Operation]
           /\ at' \in [Session -> Steps]
           /\ mem' \in [Session -> Enrollments]
           /\ dirty' \in [Session -> SUBSET Column]
           /\ result' \in [Session -> TouchStatus]
           /\ move' \in [Session -> Move]
BY EnrolledType, StepFacts DEF TypeOK, Forget, Goto, TouchStatus, Move, Label, Operation

LEMMA ReleaseType ==
    ASSUME TypeOK, NEW s \in Session, Release(s)
    PROVE  lock' \in [Row -> Session \cup {NoSession}]
BY DEF TypeOK, Release

LEMMA RollBackType ==
    ASSUME TypeOK, NEW s \in Session, RollBack(s), aborts' \in 0 .. MaxAborts
    PROVE  TypeOK'
BY ForgetType, ReleaseType DEF RollBack, TypeOK, outside

LEMMA DecideType ==
    ASSUME TypeOK, NEW s \in Session, NEW res \in TouchStatus, NEW mv \in Move,
           NEW label \in {"compose", "send", "mark", "move"},
           Decide(s, res, mv, label), pushed' \in [Steps -> Nat], late' \in Nat
    PROVE  TypeOK'
<1>1. result' \in [Session -> TouchStatus] /\ move' \in [Session -> Move]
  BY DEF TypeOK, Decide
<1>2. pc' \in [Session -> Label]
  BY DEF TypeOK, Decide, Goto, Label
<1>3. QED
  BY <1>1, <1>2 DEF TypeOK, Decide

LEMMA PushType ==
    ASSUME TypeOK, NEW s \in Session, Push(s)
    PROVE  pushed' \in [Steps -> Nat] /\ late' \in Nat
BY DEF TypeOK, Push

LEMMA QuietType == TypeOK /\ Quiet => pushed' \in [Steps -> Nat] /\ late' \in Nat
BY DEF TypeOK, Quiet

LEMMA SubmitType ==
    ASSUME TypeOK, NEW s \in Session, NEW k \in Steps,
           NEW name \in {"approve", "reject", "reject_stop", "pause", "resume", "stop"},
           NEW label \in {"read", "control"}, Submit(s, name, k, label),
           asked' \in [Steps -> BOOLEAN]
    PROVE  TypeOK'
<1>1. requests' \in 0 .. MaxRequests
  BY BoundAssumption DEF TypeOK, Submit
<1>2. pc' \in [Session -> Label]
  BY DEF TypeOK, Submit, Goto, Label
<1>3. /\ op' \in [Session -> Operation]
      /\ at' \in [Session -> Steps]
      /\ mem' \in [Session -> Enrollments]
  BY DEF TypeOK, Submit, Operation
<1>4. QED
  BY <1>1, <1>2, <1>3 DEF TypeOK, Submit

LEMMA WriteType ==
    ASSUME TypeOK, NEW s \in Session, NEW row \in Row,
           NEW columns \in SUBSET Column, Write(s, row, columns)
    PROVE  /\ lock' \in [Row -> Session \cup {NoSession}]
           /\ dirty' \in [Session -> SUBSET Column]
BY DEF TypeOK, Write

LEMMA InitType == Init => TypeOK
<1> SUFFICES ASSUME Init PROVE TypeOK
  OBVIOUS
<1>1. /\ age \in 0 .. CapDays + 1 /\ late \in Nat
      /\ requests \in 0 .. MaxRequests /\ aborts \in 0 .. MaxAborts
  BY StepAssumption, BoundAssumption DEF Init
<1>2. /\ enr \in Enrollments /\ mem \in [Session -> Enrollments]
      /\ at \in [Session -> Steps]
  BY EnrolledType, StepFacts DEF Init
<1>3. QED
  BY <1>1, <1>2 DEF Init, TypeOK, TouchStatus, Move, Label, Operation

LEMMA HumanType ==
    ASSUME TypeOK, NEW s \in Session, Human(s)
    PROVE  TypeOK'
<1>1. ASSUME NEW k \in Steps, SubmitApprove(s, k) PROVE TypeOK'
  <2>1. asked' \in [Steps -> BOOLEAN]
    BY <1>1 DEF SubmitApprove, TypeOK
  <2>2. QED
    BY <1>1, <2>1, SubmitType DEF SubmitApprove
<1>2. ASSUME NEW k \in Steps, NEW name \in {"reject", "reject_stop"},
             SubmitReject(s, k, name)
      PROVE  TypeOK'
  BY <1>2, SubmitType DEF SubmitReject, TypeOK
<1>3. CASE SubmitPause(s)
  BY <1>3, SubmitType, StepFacts DEF SubmitPause, TypeOK
<1>4. CASE SubmitResume(s)
  BY <1>4, SubmitType, StepFacts DEF SubmitResume, TypeOK
<1>5. CASE SubmitStop(s)
  BY <1>5, SubmitType, StepFacts DEF SubmitStop, TypeOK
<1>6. QED
  BY <1>1, <1>2, <1>3, <1>4, <1>5 DEF Human

\* The steps of a tick and of a send that only decide what to do next.
LEMMA DecidingType ==
    ASSUME TypeOK, NEW s \in Session,
           \/ CheckStop(s) \/ CheckSent(s) \/ CheckCall(s) \/ CheckCompose(s)
           \/ ComposeRaises(s) \/ (\E mv \in {"advance", "stop"} : ComposeHeld(s, mv))
           \/ ComposePark(s) \/ ComposeSend(s) \/ SendDelivers(s)
           \/ (\E mv \in {"advance", "stop"} : SendUndelivered(s, mv))
           \/ (\E mv \in {"advance", "stop"} : SendRefused(s, mv))
           \/ ReadTouch(s)
    PROVE  TypeOK'
<1>1. PICK res \in TouchStatus, mv \in Move, label \in {"compose", "send", "mark", "move"} :
           Decide(s, res, mv, label)
  BY DEF CheckStop, CheckSent, CheckCall, CheckCompose, ComposeRaises, ComposeHeld,
         ComposePark, ComposeSend, SendDelivers, SendUndelivered, SendRefused,
         ReadTouch, TouchStatus, Move
<1>2. pushed' \in [Steps -> Nat] /\ late' \in Nat
  BY PushType, QuietType
     DEF CheckStop, CheckSent, CheckCall, CheckCompose, ComposeRaises, ComposeHeld,
         ComposePark, ComposeSend, SendDelivers, SendUndelivered, SendRefused, ReadTouch
<1>3. QED
  BY <1>1, <1>2, DecideType

LEMMA MarkType ==
    ASSUME TypeOK, NEW s \in Session, Mark(s)
    PROVE  TypeOK'
<1>1. at[s] \in Row /\ {"touch"} \in SUBSET Column
  BY DEF TypeOK, Row, Column
<1>2. /\ lock' \in [Row -> Session \cup {NoSession}]
      /\ dirty' \in [Session -> SUBSET Column]
  BY <1>1, WriteType DEF Mark
<1>3. pc' \in [Session -> Label]
  BY DEF TypeOK, Mark, Goto, Label
<1>4. QED
  BY <1>2, <1>3 DEF TypeOK, Mark, outside

LEMMA MoveOnType ==
    ASSUME TypeOK, NEW s \in Session, MoveOn(s)
    PROVE  TypeOK'
<1> DEFINE e == Moved(mem[s], move[s])
<1>1. e \in Enrollments
  BY MovedType DEF TypeOK
<1>2. Changed(mem[s], e) \in SUBSET Column /\ EnrollmentRow \in Row
  BY DEF Changed, Column, Row
<1>3. /\ lock' \in [Row -> Session \cup {NoSession}]
      /\ dirty' \in [Session -> SUBSET Column]
  BY <1>2, WriteType DEF MoveOn
<1>4. /\ mem' \in [Session -> Enrollments]
      /\ pc' \in [Session -> Label]
  BY <1>1 DEF TypeOK, MoveOn, Goto, Label
<1>5. QED
  BY <1>3, <1>4 DEF TypeOK, MoveOn, outside

LEMMA ControlType ==
    ASSUME TypeOK, NEW s \in Session, Control(s)
    PROVE  TypeOK'
<1>1. /\ lock' \in [Row -> Session \cup {NoSession}]
      /\ dirty' \in [Session -> SUBSET Column]
  BY WriteType DEF Control, Column, Row
<1>2. Controlled(mem[s], op[s]) \in Enrollments
  BY DEF TypeOK, Controlled, Stopped, Enrollments, Status
<1>3. mem' \in [Session -> Enrollments] /\ pc' \in [Session -> Label]
  BY <1>2 DEF TypeOK, Control, Goto, Label
<1>4. QED
  BY <1>1, <1>3 DEF TypeOK, Control, outside

LEMMA CommitType ==
    ASSUME TypeOK, NEW s \in Session, Commit(s)
    PROVE  TypeOK'
<1>1. enr' \in Enrollments
  BY DEF TypeOK, Commit, Merge, Enrollments
<1>2. touch' \in [Steps -> TouchStatus]
  BY DEF TypeOK, Commit
<1>3. QED
  BY <1>1, <1>2, ForgetType, ReleaseType DEF TypeOK, Commit, outside

LEMMA TickClaimType ==
    ASSUME TypeOK, NEW s \in Session, TickClaim(s)
    PROVE  TypeOK'
<1>1. lock' \in [Row -> Session \cup {NoSession}]
  BY DEF TypeOK, TickClaim
<1>2. op' \in [Session -> Operation] /\ pc' \in [Session -> Label]
  BY DEF TypeOK, TickClaim, Goto, Operation, Label
<1>3. at' \in [Session -> Steps] /\ mem' \in [Session -> Enrollments]
  BY DEF TypeOK, TickClaim, Enrollments
<1>4. QED
  BY <1>1, <1>2, <1>3 DEF TypeOK, TickClaim, outside

LEMMA ProceedType ==
    ASSUME TypeOK, NEW s \in Session, Proceed(s)
    PROVE  TypeOK'
<1>1. CASE SendRaises(s)
  <2>1. CASE op[s] = "tick"
    <3>1. Decide(s, "failed", "advance", "mark") /\ Quiet
      BY <1>1, <2>1 DEF SendRaises
    <3>2. QED
      BY <3>1, DecideType, QuietType DEF TouchStatus, Move
  <2>2. CASE op[s] # "tick"
    BY <1>1, <2>2, RollBackType DEF SendRaises, TypeOK
  <2>3. QED
    BY <2>1, <2>2
<1>2. CASE ReadTouchGone(s) \/ \E t \in Session : DeadlockVictim(s, t)
  BY <1>2, RollBackType DEF ReadTouchGone, DeadlockVictim, TypeOK
<1>3. CASE ~(SendRaises(s) \/ ReadTouchGone(s) \/ Mark(s) \/ MoveOn(s) \/ Control(s)
             \/ Commit(s) \/ \E t \in Session : DeadlockVictim(s, t))
  BY <1>3, DecidingType DEF Proceed
<1>4. QED
  BY <1>1, <1>2, <1>3, MarkType, MoveOnType, ControlType, CommitType

LEMMA WorldType == TypeOK /\ (Reply \/ DayPasses) => TypeOK'
<1>1. TypeOK /\ Reply => TypeOK'
  BY DEF TypeOK, Reply, session, outside
<1>2. ASSUME TypeOK, DayPasses PROVE TypeOK'
  <2>1. age' \in 0 .. CapDays + 1
    BY <1>2, StepAssumption DEF TypeOK, DayPasses
  <2>2. enr' \in Enrollments
    BY <1>2 DEF TypeOK, DayPasses, Enrollments
  <2>3. QED
    BY <1>2, <2>1, <2>2 DEF TypeOK, DayPasses, session, outside
<1>3. QED
  BY <1>1, <1>2

\* Every reachable state is well typed: the rows hold the statuses of
\* models/cadence.py and the enrollment never stands past its last step.
THEOREM TypeCorrect == Spec => []TypeOK
<1>1. ASSUME TypeOK, Next PROVE TypeOK'
  <2>1. ASSUME NEW s \in Session, Abort(s) PROVE TypeOK'
    <3>1. aborts' \in 0 .. MaxAborts
      BY <1>1, <2>1, BoundAssumption DEF TypeOK, Abort
    <3>2. QED
      BY <1>1, <2>1, <3>1, RollBackType DEF Abort
  <2>2. QED
    BY <1>1, <2>1, TickClaimType, HumanType, ProceedType, WorldType DEF Next
<1>2. TypeOK /\ UNCHANGED vars => TypeOK'
  BY DEF TypeOK, vars, session, outside
<1>3. TypeOK /\ [Next]_vars => TypeOK'
  BY <1>1, <1>2
<1>4. QED
  BY InitType, <1>3, PTL DEF Spec

-----------------------------------------------------------------------------
(* What a tick claimed stays true *)

Content == {"status", "idx", "wait"}   \* the columns of the enrollment's row

\* ClaimHolds is inductive together with the lock discipline: a tick, and
\* whoever has written the enrollment, holds its row.
ClaimInv ==
    /\ ClaimHolds
    /\ \A s \in Session : op[s] = "tick" => lock[EnrollmentRow] = s
    /\ \A s \in Session : dirty[s] \cap Content # {} => lock[EnrollmentRow] = s

LEMMA ClaimInit == Init => ClaimInv
BY DEF Init, ClaimInv, ClaimHolds

\* Only one session can be a tick or have written the enrollment.
LEMMA ClaimAlone ==
    ASSUME ClaimInv, NEW s \in Session, NEW t \in Session, s # t,
           lock[EnrollmentRow] \in {s, NoSession}
    PROVE  op[t] # "tick" /\ dirty[t] \cap Content = {}
BY SessionAssumption DEF ClaimInv

\* Ending a transaction takes its own claim and its own locks away only.
LEMMA ClaimEnds ==
    ASSUME TypeOK, ClaimInv, NEW s \in Session, Forget(s), Release(s),
           \A t \in Session \ {s} : op[t] = "tick" =>
               enr'.status = enr.status /\ enr'.idx = enr.idx
    PROVE  ClaimInv'
<1>1. op'[s] = "none" /\ dirty'[s] = {}
  BY DEF TypeOK, Forget
<1>2. ASSUME NEW t \in Session, t # s
      PROVE  /\ op'[t] = op[t] /\ dirty'[t] = dirty[t] /\ at'[t] = at[t]
             /\ lock[EnrollmentRow] = t => lock'[EnrollmentRow] = t
  BY <1>2 DEF TypeOK, Forget, Release, Row
<1>3. QED
  BY <1>1, <1>2 DEF ClaimInv, ClaimHolds

LEMMA ClaimRollBack ==
    ASSUME TypeOK, ClaimInv, NEW s \in Session, RollBack(s)
    PROVE  ClaimInv'
BY ClaimEnds DEF RollBack

LEMMA ClaimCommit ==
    ASSUME TypeOK, ClaimInv, NEW s \in Session, Commit(s)
    PROVE  ClaimInv'
<1>1. ASSUME NEW t \in Session \ {s}, op[t] = "tick"
      PROVE  enr'.status = enr.status /\ enr'.idx = enr.idx
  <2>1. dirty[s] \cap Content = {}
    BY <1>1 DEF ClaimInv
  <2>2. QED
    BY <2>1 DEF Commit, Merge, Content
<1>2. QED
  BY <1>1, ClaimEnds DEF Commit

LEMMA ClaimWrite ==
    ASSUME TypeOK, ClaimInv, NEW s \in Session, NEW columns \in SUBSET Column,
           Write(s, EnrollmentRow, columns), UNCHANGED <<enr, op, at>>
    PROVE  ClaimInv'
<1>1. lock'[EnrollmentRow] = s
  BY DEF Write, TypeOK, Row
<1>2. ASSUME NEW t \in Session, t # s
      PROVE  op'[t] # "tick" /\ dirty'[t] \cap Content = {}
  BY <1>2, ClaimAlone DEF Write, TypeOK
<1>3. ClaimHolds'
  BY <1>2 DEF ClaimInv, ClaimHolds
<1>4. QED
  BY <1>1, <1>2, <1>3 DEF ClaimInv

LEMMA ClaimMark ==
    ASSUME TypeOK, ClaimInv, NEW s \in Session, Mark(s)
    PROVE  ClaimInv'
<1>1. at[s] # EnrollmentRow
  BY StepFacts DEF TypeOK
<1>2. lock'[EnrollmentRow] = lock[EnrollmentRow]
  BY <1>1 DEF Mark, Write, TypeOK, Row
<1>3. \A t \in Session : dirty'[t] \cap Content = dirty[t] \cap Content
  BY DEF Mark, Write, TypeOK, Content
<1>4. QED
  BY <1>2, <1>3 DEF Mark, ClaimInv, ClaimHolds

LEMMA ClaimTick ==
    ASSUME TypeOK, ClaimInv, NEW s \in Session, TickClaim(s)
    PROVE  ClaimInv'
<1>1. lock'[EnrollmentRow] = s
  BY DEF TickClaim, TypeOK, Row
<1>2. ASSUME NEW t \in Session, t # s
      PROVE  op'[t] # "tick" /\ dirty'[t] \cap Content = {}
  BY <1>2, ClaimAlone DEF TickClaim, TypeOK
<1>3. enr'.status = "active" /\ enr'.idx = at'[s]
  BY DEF TickClaim, TypeOK
<1>4. QED
  BY <1>1, <1>2, <1>3 DEF ClaimInv, ClaimHolds

LEMMA ClaimHuman ==
    ASSUME TypeOK, ClaimInv, NEW s \in Session, Human(s)
    PROVE  ClaimInv'
<1>1. PICK name, k, label : name \in Operation \ {"tick"} /\ Submit(s, name, k, label)
  BY DEF Human, SubmitApprove, SubmitReject, SubmitPause, SubmitResume, SubmitStop, Operation
<1>2. op'[s] # "tick"
  BY <1>1 DEF Submit, TypeOK
<1>3. \A t \in Session \ {s} : op'[t] = op[t] /\ at'[t] = at[t]
  BY <1>1 DEF Submit, TypeOK
<1>4. enr' = enr /\ lock' = lock /\ dirty' = dirty
  BY <1>1 DEF Submit
<1>5. QED
  BY <1>2, <1>3, <1>4 DEF ClaimInv, ClaimHolds

LEMMA ClaimProceed ==
    ASSUME TypeOK, ClaimInv, NEW s \in Session, Proceed(s)
    PROVE  ClaimInv'
<1>1. ASSUME UNCHANGED <<enr, op, at, lock, dirty>> PROVE ClaimInv'
  BY <1>1 DEF ClaimInv, ClaimHolds
<1>2. CASE SendRaises(s)
  BY <1>1, <1>2, ClaimRollBack DEF SendRaises, Decide
<1>3. CASE ReadTouchGone(s) \/ \E t \in Session : DeadlockVictim(s, t)
  BY <1>3, ClaimRollBack DEF ReadTouchGone, DeadlockVictim
<1>4. CASE MoveOn(s)
  BY <1>4, ClaimWrite DEF MoveOn, Changed, Column
<1>5. CASE Control(s)
  BY <1>5, ClaimWrite DEF Control, Column
<1>6. CASE ~(SendRaises(s) \/ ReadTouchGone(s) \/ Mark(s) \/ MoveOn(s) \/ Control(s)
             \/ Commit(s) \/ \E t \in Session : DeadlockVictim(s, t))
  <2>1. \E res, mv, label : Decide(s, res, mv, label)
    BY <1>6 DEF Proceed, CheckStop, CheckSent, CheckCall, CheckCompose, ComposeRaises,
                ComposeHeld, ComposePark, ComposeSend, SendDelivers, SendUndelivered,
                SendRefused, ReadTouch
  <2>2. QED
    BY <1>1, <2>1 DEF Decide
<1>7. QED
  BY <1>2, <1>3, <1>4, <1>5, <1>6, ClaimMark, ClaimCommit

LEMMA ClaimStep == TypeOK /\ ClaimInv /\ [Next]_vars => ClaimInv'
<1> SUFFICES ASSUME TypeOK, ClaimInv, [Next]_vars PROVE ClaimInv'
  OBVIOUS
<1>1. ASSUME NEW s \in Session, Abort(s) PROVE ClaimInv'
  BY <1>1, ClaimRollBack DEF Abort
<1>2. CASE Reply \/ DayPasses
  <2>1. UNCHANGED <<op, at, lock, dirty>> /\ enr'.status = enr.status /\ enr'.idx = enr.idx
    BY <1>2 DEF Reply, DayPasses, session, TypeOK, Enrollments
  <2>2. QED
    BY <2>1 DEF ClaimInv, ClaimHolds
<1>3. CASE UNCHANGED vars
  BY <1>3 DEF vars, session, ClaimInv, ClaimHolds
<1>4. QED
  BY <1>1, <1>2, <1>3, ClaimTick, ClaimHuman, ClaimProceed DEF Next

\* FOR UPDATE SKIP LOCKED does its work: whatever humans and other workers do,
\* the enrollment a tick works on is, in the database, the one it claimed.
THEOREM ClaimSafe == Spec => []ClaimHolds
<1>1. ClaimInv => ClaimHolds
  BY DEF ClaimInv
<1>2. QED
  BY <1>1, ClaimInit, ClaimStep, TypeCorrect, PTL DEF Spec

-----------------------------------------------------------------------------
(* Per-touch review *)

\* Under review, a session that sends, or that is about to after it has read
\* the touch, works for a human who approved it.
ReviewInv == Review =>
    /\ \A k \in Steps : pushed[k] > 0 => asked[k]
    /\ \A s \in Session : pc[s] = "read" /\ op[s] = "approve" => asked[at[s]]
    /\ \A s \in Session : pc[s] = "send" => asked[at[s]]

LEMMA ReviewInit == Init => ReviewInv
BY DEF Init, ReviewInv

\* A session moves to where nothing is sent and nothing is pushed.
LEMMA ReviewQuiet ==
    ASSUME TypeOK, ReviewInv, NEW s \in Session, UNCHANGED <<asked, pushed>>,
           pc'[s] \notin {"read", "send"},
           \A t \in Session \ {s} : pc'[t] = pc[t] /\ op'[t] = op[t] /\ at'[t] = at[t]
    PROVE  ReviewInv'
BY DEF ReviewInv

LEMMA ReviewRollBack ==
    ASSUME TypeOK, ReviewInv, NEW s \in Session, RollBack(s)
    PROVE  ReviewInv'
<1>1. pc'[s] \notin {"read", "send"}
  BY DEF RollBack, Forget, Goto, TypeOK
<1>2. \A t \in Session \ {s} : pc'[t] = pc[t] /\ op'[t] = op[t] /\ at'[t] = at[t]
  BY DEF RollBack, Forget, Goto, TypeOK
<1>3. QED
  BY <1>1, <1>2, ReviewQuiet DEF RollBack, outside

\* A decision that does not push and does not go on to send.
LEMMA ReviewDecide ==
    ASSUME TypeOK, ReviewInv, NEW s \in Session, NEW res, NEW mv,
           NEW label \in {"compose", "mark", "move"}, Decide(s, res, mv, label),
           pushed' = pushed
    PROVE  ReviewInv'
<1>1. pc' = [pc EXCEPT ![s] = label] /\ op' = op /\ at' = at /\ asked' = asked
  BY DEF Decide, Goto
<1>2. QED
  BY <1>1, ReviewQuiet DEF TypeOK

\* A push is made by a session that sends.
LEMMA ReviewPush ==
    ASSUME TypeOK, ReviewInv, NEW s \in Session, pc[s] = "send", Push(s),
           NEW res, NEW mv, Decide(s, res, mv, "mark")
    PROVE  ReviewInv'
<1>1. /\ pc' = [pc EXCEPT ![s] = "mark"] /\ op' = op /\ at' = at /\ asked' = asked
      /\ pushed' = [pushed EXCEPT ![at[s]] = @ + 1]
  BY DEF Decide, Goto, Push
<1>2. SUFFICES ASSUME Review PROVE ReviewInv'
  BY DEF ReviewInv
<1>3. \A k \in Steps : pushed'[k] > 0 => asked'[k]
  <2> SUFFICES ASSUME NEW k \in Steps, pushed'[k] > 0 PROVE asked[k]
    BY <1>1
  <2>1. CASE k = at[s]
    BY <1>2, <2>1 DEF ReviewInv
  <2>2. CASE k # at[s]
    BY <1>1, <1>2, <2>2 DEF ReviewInv, TypeOK
  <2>3. QED
    BY <2>1, <2>2
<1>4. QED
  BY <1>1, <1>2, <1>3 DEF ReviewInv, TypeOK

LEMMA ReviewReadTouch ==
    ASSUME TypeOK, ReviewInv, NEW s \in Session, ReadTouch(s)
    PROVE  ReviewInv'
<1>1. pushed' = pushed /\ pc[s] = "read"
  BY DEF ReadTouch, Quiet
<1>2. CASE op[s] = "approve"
  <2>1. pc' = [pc EXCEPT ![s] = "send"] /\ op' = op /\ at' = at /\ asked' = asked
    BY <1>2 DEF ReadTouch, Decide, Goto
  <2>2. QED
    BY <1>1, <1>2, <2>1 DEF ReviewInv, TypeOK
<1>3. CASE op[s] # "approve"
  <2>1. \E res, mv : Decide(s, res, mv, "mark")
    BY <1>3 DEF ReadTouch
  <2>2. QED
    BY <1>1, <2>1, ReviewDecide
<1>4. QED
  BY <1>2, <1>3

LEMMA ReviewHuman ==
    ASSUME TypeOK, ReviewInv, NEW s \in Session, Human(s)
    PROVE  ReviewInv'
<1>1. ASSUME NEW k \in Steps, SubmitApprove(s, k) PROVE ReviewInv'
  <2>1. /\ pc' = [pc EXCEPT ![s] = "read"] /\ op' = [op EXCEPT ![s] = "approve"]
        /\ at' = [at EXCEPT ![s] = k] /\ asked' = [asked EXCEPT ![k] = TRUE]
        /\ pushed' = pushed
    BY <1>1 DEF SubmitApprove, Submit, Goto
  <2>2. \A j \in Steps : asked[j] => asked'[j]
    BY <2>1 DEF TypeOK
  <2>3. asked'[at'[s]]
    BY <2>1 DEF TypeOK
  <2>4. \A t \in Session \ {s} : /\ pc'[t] = pc[t] /\ op'[t] = op[t]
                                 /\ at'[t] = at[t] /\ at[t] \in Steps
    BY <2>1 DEF TypeOK
  <2>5. pc'[s] = "read"
    BY <2>1 DEF TypeOK
  <2>6. QED
    BY <2>1, <2>2, <2>3, <2>4, <2>5 DEF ReviewInv
<1>2. ASSUME NEW name \in Operation \ {"approve"}, NEW k, NEW label \in {"read", "control"},
             Submit(s, name, k, label), asked' = asked
      PROVE  ReviewInv'
  <2>1. /\ pc' = [pc EXCEPT ![s] = label] /\ op' = [op EXCEPT ![s] = name]
        /\ at' = [at EXCEPT ![s] = k] /\ pushed' = pushed
    BY <1>2 DEF Submit, Goto
  <2>2. op'[s] # "approve" /\ pc'[s] # "send"
    BY <1>2, <2>1 DEF TypeOK
  <2>3. \A t \in Session \ {s} : pc'[t] = pc[t] /\ op'[t] = op[t] /\ at'[t] = at[t]
    BY <2>1 DEF TypeOK
  <2>4. QED
    BY <1>2, <2>1, <2>2, <2>3 DEF ReviewInv
<1>3. QED
  BY <1>1, <1>2
     DEF Human, SubmitReject, SubmitPause, SubmitResume, SubmitStop, Operation

LEMMA ReviewProceed ==
    ASSUME TypeOK, ReviewInv, NEW s \in Session, Proceed(s)
    PROVE  ReviewInv'
<1>1. CASE \/ CheckStop(s) \/ CheckSent(s) \/ CheckCall(s) \/ CheckCompose(s)
           \/ ComposeRaises(s) \/ (\E mv \in {"advance", "stop"} : ComposeHeld(s, mv))
           \/ ComposePark(s) \/ (\E mv \in {"advance", "stop"} : SendRefused(s, mv))
  <2>1. \E res, mv : \E label \in {"compose", "mark", "move"} : Decide(s, res, mv, label)
    BY <1>1 DEF CheckStop, CheckSent, CheckCall, CheckCompose, ComposeRaises, ComposeHeld,
                ComposePark, SendRefused
  <2>2. pushed' = pushed
    BY <1>1 DEF CheckStop, CheckSent, CheckCall, CheckCompose, ComposeRaises, ComposeHeld,
                ComposePark, SendRefused, Quiet
  <2>3. QED
    BY <2>1, <2>2, ReviewDecide
<1>2. CASE ComposeSend(s)
  BY <1>2 DEF ComposeSend, ReviewInv
<1>3. CASE SendDelivers(s) \/ \E mv \in {"advance", "stop"} : SendUndelivered(s, mv)
  BY <1>3, ReviewPush DEF SendDelivers, SendUndelivered
<1>4. CASE SendRaises(s)
  BY <1>4, ReviewRollBack, ReviewDecide DEF SendRaises, Quiet
<1>5. CASE ReadTouchGone(s) \/ \E t \in Session : DeadlockVictim(s, t)
  BY <1>5, ReviewRollBack DEF ReadTouchGone, DeadlockVictim
<1>6. CASE Mark(s) \/ MoveOn(s) \/ Control(s)
  <2>1. UNCHANGED <<asked, pushed, op, at>> /\ \E label \in {"move", "commit"} : Goto(s, label)
    BY <1>6 DEF Mark, MoveOn, Control, outside
  <2>2. QED
    BY <2>1, ReviewQuiet DEF Goto, TypeOK
<1>7. CASE Commit(s)
  <2>1. UNCHANGED <<asked, pushed>> /\ Forget(s)
    BY <1>7 DEF Commit, outside
  <2>2. QED
    BY <2>1, ReviewQuiet DEF Forget, Goto, TypeOK
<1>8. QED
  BY <1>1, <1>2, <1>3, <1>4, <1>5, <1>6, <1>7, ReviewReadTouch DEF Proceed

LEMMA ReviewStep == TypeOK /\ ReviewInv /\ [Next]_vars => ReviewInv'
<1> SUFFICES ASSUME TypeOK, ReviewInv, [Next]_vars PROVE ReviewInv'
  OBVIOUS
<1>1. ASSUME NEW s \in Session, TickClaim(s) PROVE ReviewInv'
  <2>1. UNCHANGED <<asked, pushed>> /\ pc' = [pc EXCEPT ![s] = "check"]
        /\ op' = [op EXCEPT ![s] = "tick"] /\ at' = [at EXCEPT ![s] = enr.idx]
    BY <1>1 DEF TickClaim, outside, Goto
  <2>2. QED
    BY <2>1, ReviewQuiet DEF TypeOK
<1>2. ASSUME NEW s \in Session, Abort(s) PROVE ReviewInv'
  BY <1>2, ReviewRollBack DEF Abort
<1>3. CASE Reply \/ DayPasses \/ UNCHANGED vars
  <2>1. UNCHANGED <<pc, op, at, asked, pushed>>
    BY <1>3 DEF Reply, DayPasses, vars, session, outside
  <2>2. QED
    BY <2>1 DEF ReviewInv
<1>4. QED
  BY <1>1, <1>2, <1>3, ReviewHuman, ReviewProceed DEF Next

\* review_each_touch does what it says: whatever races and whatever dies, no
\* touch leaves that no human has approved.
THEOREM ReviewSafe == Spec => []ReviewGate
<1>1. ReviewInv => ReviewGate
  BY DEF ReviewInv, ReviewGate
<1>2. QED
  BY <1>1, ReviewInit, ReviewStep, TypeCorrect, PTL DEF Spec

-----------------------------------------------------------------------------
(* Under review the enrollment implements the outbound gate *)

LEMMA GateStutters ==
    ASSUME UNCHANGED <<asked, pushed>>
    PROVE  [Gate!Next]_(Gate!gateVars)
BY DEF Gate!gateVars

\* A message leaves: the gate's push of that touch.
LEMMA GatePushes ==
    ASSUME TypeOK, ReviewInv, Review, NEW s \in Session, pc[s] = "send", Push(s),
           asked' = asked
    PROVE  [Gate!Next]_(Gate!gateVars)
<1>1. at[s] \in Steps /\ asked[at[s]]
  BY DEF TypeOK, ReviewInv
<1>2. Gate!Push(at[s])
  BY <1>1 DEF Push, Gate!Push
<1>3. QED
  BY <1>1, <1>2 DEF Gate!Next

LEMMA GateHuman ==
    ASSUME TypeOK, NEW s \in Session, Human(s)
    PROVE  [Gate!Next]_(Gate!gateVars)
<1>1. ASSUME NEW k \in Steps, SubmitApprove(s, k) PROVE [Gate!Next]_(Gate!gateVars)
  <2>1. Gate!Ask(k)
    BY <1>1 DEF SubmitApprove, Submit, Gate!Ask
  <2>2. QED
    BY <2>1 DEF Gate!Next
<1>2. CASE ~ \E k \in Steps : SubmitApprove(s, k)
  <2>1. UNCHANGED <<asked, pushed>>
    BY <1>2 DEF Human, SubmitReject, SubmitPause, SubmitResume, SubmitStop, Submit
  <2>2. QED
    BY <2>1, GateStutters
<1>3. QED
  BY <1>1, <1>2

LEMMA GateProceed ==
    ASSUME TypeOK, ReviewInv, Review, NEW s \in Session, Proceed(s)
    PROVE  [Gate!Next]_(Gate!gateVars)
<1>1. CASE SendDelivers(s) \/ \E mv \in {"advance", "stop"} : SendUndelivered(s, mv)
  BY <1>1, GatePushes DEF SendDelivers, SendUndelivered, Decide
<1>2. CASE ~(SendDelivers(s) \/ \E mv \in {"advance", "stop"} : SendUndelivered(s, mv))
  <2>1. CASE \/ CheckStop(s) \/ CheckSent(s) \/ CheckCall(s) \/ CheckCompose(s)
             \/ ComposeRaises(s) \/ (\E mv \in {"advance", "stop"} : ComposeHeld(s, mv))
             \/ ComposePark(s) \/ ComposeSend(s) \/ ReadTouch(s)
             \/ (\E mv \in {"advance", "stop"} : SendRefused(s, mv))
    BY <2>1, GateStutters
       DEF CheckStop, CheckSent, CheckCall, CheckCompose, ComposeRaises, ComposeHeld,
           ComposePark, ComposeSend, ReadTouch, SendRefused, Decide, Quiet
  <2>2. CASE SendRaises(s) \/ ReadTouchGone(s) \/ \E t \in Session : DeadlockVictim(s, t)
    BY <2>2, GateStutters
       DEF SendRaises, ReadTouchGone, DeadlockVictim, RollBack, outside, Decide, Quiet
  <2>3. CASE Mark(s) \/ MoveOn(s) \/ Control(s) \/ Commit(s)
    BY <2>3, GateStutters DEF Mark, MoveOn, Control, Commit, outside
  <2>4. QED
    BY <1>2, <2>1, <2>2, <2>3 DEF Proceed
<1>3. QED
  BY <1>1, <1>2

LEMMA GateStep ==
    ASSUME Review
    PROVE  TypeOK /\ ReviewInv /\ [Next]_vars => [Gate!Next]_(Gate!gateVars)
<1> SUFFICES ASSUME TypeOK, ReviewInv, [Next]_vars PROVE [Gate!Next]_(Gate!gateVars)
  OBVIOUS
<1>1. ASSUME NEW s \in Session, TickClaim(s) \/ Abort(s)
      PROVE  [Gate!Next]_(Gate!gateVars)
  BY <1>1, GateStutters DEF TickClaim, Abort, RollBack, outside
<1>2. CASE Reply \/ DayPasses \/ UNCHANGED vars
  BY <1>2, GateStutters DEF Reply, DayPasses, vars, outside
<1>3. QED
  BY <1>1, <1>2, GateHuman, GateProceed DEF Next

\* Under review every step of the enrollment is a step of the gate, or no step
\* of it: the orchestrator and the cadence keep one promise.
THEOREM ReviewImplementsGate ==
    ASSUME Review
    PROVE  Spec => ImplementsGate
<1>1. Init => Gate!Init
  BY DEF Init, Gate!Init
<1>2. Spec => []ReviewInv
  BY ReviewInit, ReviewStep, TypeCorrect, PTL DEF Spec
<1>3. TypeOK /\ ReviewInv /\ [Next]_vars => [Gate!Next]_(Gate!gateVars)
  BY GateStep
<1>4. QED
  BY <1>1, <1>2, <1>3, TypeCorrect, PTL DEF Spec, ImplementsGate, Gate!Spec
-----------------------------------------------------------------------------
(* What every transaction keeps to *)

Decided == {"sent", "skipped", "failed"}
Decision == {"approve", "reject", "reject_stop"}
Working == Decision \cup {"tick"}          \* operations that work on a touch

\* The touch is to be written as decided, or put before a human by a tick that
\* parks the enrollment.
Settled(s) ==
    \/ result[s] \in Decided
    \/ result[s] = "awaiting_approval" /\ op[s] = "tick" /\ move[s] = "park"

\* The stations of one session, and what it has in hand at each.
Path(s) ==
    /\ pc[s] = "idle" => op[s] = "none"
    /\ pc[s] \in {"check", "compose"} => op[s] = "tick"
    /\ pc[s] = "read" => op[s] \in Decision
    /\ pc[s] = "send" => op[s] \in {"tick", "approve"}
    /\ pc[s] \in {"mark", "move"} => op[s] \in Working
    /\ pc[s] = "control" => op[s] \in {"pause", "resume", "stop"}
    /\ pc[s] = "commit" => op[s] # "none"
    /\ op[s] = "resume" => "resume" \in Controls
    /\ pc[s] \notin {"move", "commit"} => dirty[s] = {}
    /\ pc[s] = "move" => dirty[s] \subseteq {"touch"}
    /\ pc[s] = "mark" => Settled(s)
    /\ "touch" \in dirty[s] => op[s] \in Working /\ Settled(s)
    /\ op[s] = "tick" /\ pc[s] # "commit" => mem[s].idx = at[s] /\ mem[s].status = "active"
    /\ op[s] = "tick" /\ pc[s] = "commit" =>
         \/ "idx" \in dirty[s]
         \/ "status" \in dirty[s] /\ mem[s].status # "active"
    /\ op[s] = "tick" /\ "idx" \in dirty[s] => mem[s].idx = at[s] + 1
    /\ "idx" \in dirty[s] => op[s] \in Working /\ mem[s].idx >= 1 /\ move[s] = "advance"
    /\ pc[s] = "commit" /\ op[s] \in {"pause", "stop"} => mem[s].status # "active"
    /\ ~Review => op[s] \notin Decision /\ result[s] # "awaiting_approval"

PathInv ==
    /\ \A s \in Session : Path(s)
    /\ ~Review => \A k \in Steps : touch[k] # "awaiting_approval"

LEMMA PathInit == Init => PathInv
<1> SUFFICES ASSUME Init PROVE PathInv
  OBVIOUS
<1>1. \A s \in Session : Path(s)
  BY DEF Init, Path, Working, Decision, Settled
<1>2. QED
  BY <1>1 DEF Init, PathInv

\* The other sessions are where they were.
OthersStay(s) == \A t \in Session \ {s} :
    /\ pc'[t] = pc[t] /\ op'[t] = op[t] /\ at'[t] = at[t] /\ mem'[t] = mem[t]
    /\ dirty'[t] = dirty[t] /\ result'[t] = result[t] /\ move'[t] = move[t]

LEMMA PathAt ==
    ASSUME PathInv, NEW s \in Session, OthersStay(s), Path(s)',
           ~Review => \A k \in Steps : touch'[k] # "awaiting_approval"
    PROVE  PathInv'
<1>1. ASSUME NEW t \in Session PROVE Path(t)'
  <2>1. CASE t = s
    BY <2>1
  <2>2. CASE t # s
    BY <2>2 DEF OthersStay, PathInv, Path, Settled
  <2>3. QED
    BY <2>1, <2>2
<1>2. QED
  BY <1>1 DEF PathInv

LEMMA ForgetPath ==
    ASSUME TypeOK, PathInv, NEW s \in Session, Forget(s),
           ~Review => \A k \in Steps : touch'[k] # "awaiting_approval"
    PROVE  PathInv' /\ OthersStay(s)
<1>1. OthersStay(s)
  BY DEF TypeOK, Forget, Goto, OthersStay
<1>2. /\ pc'[s] = "idle" /\ op'[s] = "none" /\ dirty'[s] = {}
      /\ result'[s] = "none"
  BY DEF TypeOK, Forget, Goto
<1>3. Path(s)'
  BY <1>2 DEF Path, Settled, Working, Decision
<1>4. QED
  BY <1>1, <1>3, PathAt

LEMMA PathRollBack ==
    ASSUME TypeOK, PathInv, NEW s \in Session, RollBack(s)
    PROVE  PathInv'
BY ForgetPath DEF RollBack, PathInv

LEMMA PathCommit ==
    ASSUME TypeOK, PathInv, NEW s \in Session, Commit(s)
    PROVE  PathInv'
<1>1. ASSUME ~Review, NEW k \in Steps PROVE touch'[k] # "awaiting_approval"
  BY <1>1 DEF PathInv, Path, Commit, TypeOK
<1>2. QED
  BY <1>1, ForgetPath DEF Commit

LEMMA PathTick ==
    ASSUME TypeOK, PathInv, NEW s \in Session, TickClaim(s)
    PROVE  PathInv'
<1>1. OthersStay(s)
  BY DEF TypeOK, TickClaim, Goto, OthersStay
<1>2. /\ pc[s] = "idle" /\ pc'[s] = "check" /\ op'[s] = "tick" /\ at'[s] = enr.idx
      /\ mem'[s] = enr /\ enr.status = "active"
      /\ dirty'[s] = dirty[s] /\ result'[s] = result[s] /\ touch' = touch
  BY DEF TypeOK, TickClaim, Goto
<1>3. dirty[s] = {} /\ Path(s)
  BY <1>2 DEF PathInv, Path
<1>4. Path(s)'
  BY <1>2, <1>3 DEF Path, Settled, Working, Decision
<1>5. QED
  BY <1>1, <1>2, <1>4, PathAt DEF PathInv

LEMMA PathSubmit ==
    ASSUME TypeOK, PathInv, NEW s \in Session, NEW name, NEW k, NEW label,
           Submit(s, name, k, label),
           \/ /\ label = "read" /\ name \in Decision
              /\ k \in Steps /\ touch[k] = "awaiting_approval"
           \/ /\ label = "control" /\ name \in {"pause", "resume", "stop"}
              /\ name = "resume" => "resume" \in Controls
    PROVE  PathInv'
<1>1. OthersStay(s)
  BY DEF TypeOK, Submit, Goto, OthersStay
<1>2. /\ pc[s] = "idle" /\ pc'[s] = label /\ op'[s] = name
      /\ dirty'[s] = dirty[s] /\ result'[s] = result[s] /\ touch' = touch
  BY DEF TypeOK, Submit, Goto
<1>3. dirty[s] = {} /\ Path(s)
  BY <1>2 DEF PathInv, Path
<1>4. label = "read" => Review
  BY DEF PathInv
<1>5. Path(s)'
  BY <1>2, <1>3, <1>4 DEF Path, Settled, Working, Decision
<1>6. QED
  BY <1>1, <1>2, <1>5, PathAt DEF PathInv

LEMMA PathHuman ==
    ASSUME TypeOK, PathInv, NEW s \in Session, Human(s)
    PROVE  PathInv'
<1>1. PICK name, k, label :
        /\ Submit(s, name, k, label)
        /\ \/ /\ label = "read" /\ name \in Decision
              /\ k \in Steps /\ touch[k] = "awaiting_approval"
           \/ /\ label = "control" /\ name \in {"pause", "resume", "stop"}
              /\ name = "resume" => "resume" \in Controls
  BY DEF Human, SubmitApprove, SubmitReject, SubmitPause, SubmitResume, SubmitStop, Decision
<1>2. QED
  BY <1>1, PathSubmit

\* Where a decision about the touch may lead.
LEMMA PathDecide ==
    ASSUME TypeOK, PathInv, NEW s \in Session, NEW res, NEW mv, NEW label,
           Decide(s, res, mv, label), pc[s] \notin {"move", "commit"},
           \/ label = "compose" /\ op[s] = "tick" /\ res = "none"
           \/ label = "send" /\ op[s] \in {"tick", "approve"} /\ res = "none"
           \/ label = "move" /\ op[s] = "tick" /\ res = "none"
           \/ label = "mark" /\ op[s] \in Working /\ res \in Decided
           \/ /\ label = "mark" /\ op[s] = "tick" /\ Review
              /\ res = "awaiting_approval" /\ mv = "park"
    PROVE  PathInv'
<1>1. OthersStay(s)
  BY DEF TypeOK, Decide, Goto, OthersStay
<1>2. /\ pc'[s] = label /\ op'[s] = op[s] /\ at'[s] = at[s] /\ mem'[s] = mem[s]
      /\ dirty'[s] = dirty[s] /\ result'[s] = res /\ move'[s] = mv /\ touch' = touch
  BY DEF TypeOK, Decide, Goto
<1>3. dirty[s] = {} /\ Path(s)
  BY <1>2 DEF PathInv, Path
<1>4. Path(s)'
  BY <1>2, <1>3 DEF Path, Settled, Working, Decision, Decided
<1>5. QED
  BY <1>1, <1>2, <1>4, PathAt DEF PathInv

LEMMA PathMark ==
    ASSUME TypeOK, PathInv, NEW s \in Session, Mark(s)
    PROVE  PathInv'
<1>1. OthersStay(s)
  BY DEF TypeOK, Mark, Write, Goto, OthersStay
<1>2. /\ pc[s] = "mark" /\ pc'[s] = "move" /\ op'[s] = op[s] /\ at'[s] = at[s]
      /\ mem'[s] = mem[s] /\ dirty'[s] = dirty[s] \cup {"touch"}
      /\ result'[s] = result[s] /\ move'[s] = move[s] /\ touch' = touch
  BY DEF TypeOK, Mark, Write, Goto
<1>3. dirty[s] = {} /\ Path(s)
  BY <1>2 DEF PathInv, Path
<1>4. dirty'[s] = {"touch"}
  BY <1>2, <1>3
<1>5. Path(s)'
  BY <1>2, <1>3, <1>4 DEF Path, Settled, Working, Decision, Decided
<1>6. QED
  BY <1>1, <1>2, <1>5, PathAt DEF PathInv

\* What a session that worked on a touch writes of the enrollment.
LEMMA MovedFacts ==
    ASSUME NEW e \in Enrollments, NEW m \in Move
    PROVE  /\ "idx" \in Changed(e, Moved(e, m)) =>
                m = "advance" /\ e.idx + 1 \in Steps /\ Moved(e, m).idx = e.idx + 1
           /\ e.status = "active" =>
                \/ "idx" \in Changed(e, Moved(e, m))
                \/ /\ "status" \in Changed(e, Moved(e, m))
                   /\ Moved(e, m).status # "active"
<1> DEFINE w == Moved(e, m)
<1>1. e.idx \in Nat /\ e = [status |-> e.status, idx |-> e.idx, wait |-> e.wait]
  BY StepFacts DEF Enrollments
<1>2. CASE m = "advance" /\ e.idx + 1 \in Steps
  <2>1. w = [status |-> "active", idx |-> e.idx + 1, wait |-> Delay[e.idx + 1]]
    BY <1>2 DEF Moved, Advanced
  <2>2. w.idx = e.idx + 1 /\ e.idx # e.idx + 1
    BY <1>1, <2>1
  <2>3. QED
    BY <1>2, <2>2 DEF Changed
<1>3. CASE m = "advance" /\ e.idx + 1 \notin Steps
  <2>1. w = [e EXCEPT !.status = "completed"]
    BY <1>3 DEF Moved, Advanced, Completed
  <2>2. w.idx = e.idx /\ w.status = "completed"
    BY <1>1, <2>1 DEF Enrollments
  <2>3. QED
    BY <2>2 DEF Changed
<1>4. CASE m = "stop"
  <2>1. w = [e EXCEPT !.status = "stopped"]
    BY <1>4 DEF Moved, Stopped
  <2>2. w.idx = e.idx /\ w.status = "stopped"
    BY <1>1, <2>1 DEF Enrollments
  <2>3. QED
    BY <2>2 DEF Changed
<1>5. CASE m = "park"
  <2>1. w = [e EXCEPT !.status = "paused"]
    BY <1>5 DEF Moved
  <2>2. w.idx = e.idx /\ w.status = "paused"
    BY <1>1, <2>1 DEF Enrollments
  <2>3. QED
    BY <2>2 DEF Changed
<1>6. QED
  BY <1>2, <1>3, <1>4, <1>5 DEF Move

LEMMA PathMoveOn ==
    ASSUME TypeOK, PathInv, NEW s \in Session, MoveOn(s)
    PROVE  PathInv'
<1> DEFINE e == Moved(mem[s], move[s])
           columns == Changed(mem[s], e)
<1>1. OthersStay(s)
  BY DEF TypeOK, MoveOn, Write, Goto, OthersStay
<1>2. /\ pc[s] = "move" /\ pc'[s] = "commit" /\ op'[s] = op[s] /\ at'[s] = at[s]
      /\ mem'[s] = e /\ dirty'[s] = dirty[s] \cup columns
      /\ result'[s] = result[s] /\ move'[s] = move[s] /\ touch' = touch
  BY DEF TypeOK, MoveOn, Write, Goto
<1>3. dirty[s] \subseteq {"touch"} /\ Path(s) /\ op[s] \in Working
  BY <1>2 DEF PathInv, Path
<1>4. /\ "touch" \in dirty'[s] <=> "touch" \in dirty[s]
      /\ "idx" \in dirty'[s] <=> "idx" \in columns
      /\ "status" \in dirty'[s] <=> "status" \in columns
  BY <1>2, <1>3 DEF Changed
<1>5. mem[s] \in Enrollments /\ move[s] \in Move
  BY DEF TypeOK
<1>6. /\ "idx" \in columns =>
           move[s] = "advance" /\ mem[s].idx + 1 \in Steps /\ e.idx = mem[s].idx + 1
      /\ mem[s].status = "active" =>
           "idx" \in columns \/ ("status" \in columns /\ e.status # "active")
  BY <1>5, MovedFacts
<1>7. mem[s].idx \in Nat
  BY <1>5, StepFacts DEF Enrollments
<1> HIDE DEF e, columns
<1>8. "idx" \in dirty'[s] => mem'[s].idx = mem[s].idx + 1 /\ mem'[s].idx >= 1 /\ move[s] = "advance"
  BY <1>2, <1>4, <1>6, <1>7
<1>9. op[s] = "tick" =>
        /\ mem[s].idx = at[s]
        /\ "idx" \in dirty'[s] \/ ("status" \in dirty'[s] /\ mem'[s].status # "active")
  BY <1>2, <1>3, <1>4, <1>6 DEF Path
<1>10. Path(s)'
  BY <1>2, <1>3, <1>4, <1>8, <1>9 DEF Path, Settled, Working, Decision, Decided
<1>11. QED
  BY <1>1, <1>2, <1>10, PathAt DEF PathInv

LEMMA PathControl ==
    ASSUME TypeOK, PathInv, NEW s \in Session, Control(s)
    PROVE  PathInv'
<1>1. OthersStay(s)
  BY DEF TypeOK, Control, Write, Goto, OthersStay
<1>2. /\ pc[s] = "control" /\ pc'[s] = "commit" /\ op'[s] = op[s] /\ at'[s] = at[s]
      /\ mem'[s] = Controlled(mem[s], op[s]) /\ mem[s] \in Enrollments
      /\ dirty'[s] \subseteq dirty[s] \cup {"status", "wait"}
      /\ result'[s] = result[s] /\ move'[s] = move[s] /\ touch' = touch
  BY DEF TypeOK, Control, Write, Goto
<1>3. dirty[s] = {} /\ Path(s) /\ op[s] \in {"pause", "resume", "stop"}
  BY <1>2 DEF PathInv, Path
<1>4. op[s] \in {"pause", "stop"} => Controlled(mem[s], op[s]).status # "active"
  BY <1>2 DEF Controlled, Stopped, Enrollments
<1>5. dirty'[s] \subseteq {"status", "wait"}
  BY <1>2, <1>3
<1>6. Path(s)'
  BY <1>2, <1>3, <1>4, <1>5 DEF Path, Settled, Working, Decision
<1>7. QED
  BY <1>1, <1>2, <1>6, PathAt DEF PathInv

\* The steps that decide what comes next, and what they decide.
LEMMA DecidingPath ==
    ASSUME TypeOK, PathInv, NEW s \in Session,
           \/ CheckStop(s) \/ CheckSent(s) \/ CheckCall(s) \/ CheckCompose(s)
           \/ ComposeRaises(s) \/ (\E mv \in {"advance", "stop"} : ComposeHeld(s, mv))
           \/ ComposePark(s) \/ ComposeSend(s) \/ SendDelivers(s)
           \/ (\E mv \in {"advance", "stop"} : SendUndelivered(s, mv))
           \/ (\E mv \in {"advance", "stop"} : SendRefused(s, mv))
           \/ ReadTouch(s)
    PROVE  PathInv'
<1>1. Path(s)
  BY DEF PathInv
<1>2. CASE CheckStop(s) \/ CheckSent(s) \/ CheckCall(s) \/ CheckCompose(s)
  BY <1>1, <1>2, PathDecide
     DEF CheckStop, CheckSent, CheckCall, CheckCompose, Path, Working, Decided
<1>3. CASE ComposeRaises(s) \/ (\E mv \in {"advance", "stop"} : ComposeHeld(s, mv))
  BY <1>1, <1>3, PathDecide DEF ComposeRaises, ComposeHeld, Path, Working, Decided
<1>4. CASE ComposePark(s) \/ ComposeSend(s)
  BY <1>1, <1>4, PathDecide DEF ComposePark, ComposeSend, Path
<1>5. CASE \/ SendDelivers(s)
           \/ (\E mv \in {"advance", "stop"} : SendUndelivered(s, mv))
           \/ (\E mv \in {"advance", "stop"} : SendRefused(s, mv))
  BY <1>1, <1>5, PathDecide
     DEF SendDelivers, SendUndelivered, SendRefused, Path, Working, Decision, Decided
<1>6. CASE ReadTouch(s)
  <2>1. pc[s] = "read" /\ op[s] \in Decision
    BY <1>1, <1>6 DEF ReadTouch, Path
  <2>2. CASE op[s] = "approve"
    <3>1. Decide(s, "none", "advance", "send")
      BY <1>6, <2>2 DEF ReadTouch
    <3>2. QED
      BY <2>1, <2>2, <3>1, PathDecide
  <2>3. CASE op[s] # "approve"
    <3>1. PICK mv : Decide(s, "skipped", mv, "mark")
      BY <1>6, <2>3 DEF ReadTouch
    <3>2. QED
      BY <2>1, <3>1, PathDecide DEF Working, Decided
  <2>4. QED
    BY <2>2, <2>3
<1>7. QED
  BY <1>2, <1>3, <1>4, <1>5, <1>6

LEMMA PathProceed ==
    ASSUME TypeOK, PathInv, NEW s \in Session, Proceed(s)
    PROVE  PathInv'
<1>1. CASE SendRaises(s)
  <2>1. CASE op[s] = "tick"
    <3>1. Decide(s, "failed", "advance", "mark") /\ pc[s] = "send"
      BY <1>1, <2>1 DEF SendRaises
    <3>2. QED
      BY <2>1, <3>1, PathDecide DEF Working, Decided
  <2>2. CASE op[s] # "tick"
    BY <1>1, <2>2, PathRollBack DEF SendRaises
  <2>3. QED
    BY <2>1, <2>2
<1>2. CASE ReadTouchGone(s) \/ \E t \in Session : DeadlockVictim(s, t)
  BY <1>2, PathRollBack DEF ReadTouchGone, DeadlockVictim
<1>3. CASE ~(SendRaises(s) \/ ReadTouchGone(s) \/ Mark(s) \/ MoveOn(s) \/ Control(s)
             \/ Commit(s) \/ \E t \in Session : DeadlockVictim(s, t))
  BY <1>3, DecidingPath DEF Proceed
<1>4. QED
  BY <1>1, <1>2, <1>3, PathMark, PathMoveOn, PathControl, PathCommit

LEMMA PathStep == TypeOK /\ PathInv /\ [Next]_vars => PathInv'
<1> SUFFICES ASSUME TypeOK, PathInv, [Next]_vars PROVE PathInv'
  OBVIOUS
<1>1. ASSUME NEW s \in Session, Abort(s) PROVE PathInv'
  BY <1>1, PathRollBack DEF Abort
<1>2. CASE Reply \/ DayPasses \/ UNCHANGED vars
  <2>1. UNCHANGED <<pc, op, at, mem, dirty, result, move, touch>>
    BY <1>2 DEF Reply, DayPasses, vars, session
  <2>2. QED
    BY <2>1 DEF PathInv, Path, Settled
<1>3. QED
  BY <1>1, <1>2, PathTick, PathHuman, PathProceed DEF Next

LEMMA PathSafe == Spec => []PathInv
BY PathInit, PathStep, TypeCorrect, PTL DEF Spec

-----------------------------------------------------------------------------
(* The order of the touches *)

\* No commit writes an earlier step than the one that is there.
NeverTakenBack == [][enr'.idx >= enr.idx]_vars

\* What a session at work holds against the enrollment: it is not ahead of it,
\* works on the touch it read, and goes on only from a touch that is decided.
OnTrack(s) ==
    /\ op[s] \in Working => at[s] <= enr.idx
    /\ op[s] \in Decision /\ pc[s] # "commit" => mem[s].idx = at[s]
    /\ op[s] \in Decision /\ "idx" \in dirty[s] => mem[s].idx = at[s] + 1
    /\ (pc[s] = "move" /\ move[s] = "advance") \/ "idx" \in dirty[s] =>
         \/ "touch" \in dirty[s] /\ result[s] \in Decided
         \/ op[s] = "tick" /\ touch[at[s]] \in Decided

OrderInv ==
    /\ \A k \in Steps : k < enr.idx => touch[k] \in Decided
    /\ \A k \in Steps : k > enr.idx => touch[k] = "none"
    /\ \A s \in Session : OnTrack(s)

LEMMA OrderInit == Init => OrderInv
<1> SUFFICES ASSUME Init PROVE OrderInv
  OBVIOUS
<1>1. \A s \in Session : OnTrack(s)
  BY DEF Init, OnTrack, Working, Decision
<1>2. enr.idx = 0 /\ \A k \in Steps : ~(k < 0) /\ touch[k] = "none"
  BY DEF Init, Enrolled, Steps
<1>3. QED
  BY <1>1, <1>2 DEF OrderInv

LEMMA OrderAt ==
    ASSUME OrderInv, NEW s \in Session, OthersStay(s), OnTrack(s)',
           touch' = touch, enr'.idx = enr.idx
    PROVE  OrderInv'
<1>1. ASSUME NEW t \in Session PROVE OnTrack(t)'
  <2>1. CASE t = s
    BY <2>1
  <2>2. CASE t # s
    BY <2>2 DEF OthersStay, OrderInv, OnTrack
  <2>3. QED
    BY <2>1, <2>2
<1>2. QED
  BY <1>1 DEF OrderInv

LEMMA ForgetOnTrack ==
    ASSUME TypeOK, NEW s \in Session, Forget(s)
    PROVE  OthersStay(s) /\ OnTrack(s)'
<1>1. OthersStay(s)
  BY DEF TypeOK, Forget, Goto, OthersStay
<1>2. pc'[s] = "idle" /\ op'[s] = "none" /\ dirty'[s] = {}
  BY DEF TypeOK, Forget, Goto
<1>3. QED
  BY <1>1, <1>2 DEF OnTrack, Working, Decision

LEMMA OrderRollBack ==
    ASSUME TypeOK, OrderInv, NEW s \in Session, RollBack(s)
    PROVE  OrderInv'
BY ForgetOnTrack, OrderAt DEF RollBack

\* A commit leaves the enrollment where it is, or takes it one step past the
\* touch that the session worked on.
LEMMA CommitFacts ==
    ASSUME TypeOK, NEW s \in Session, Commit(s)
    PROVE  /\ enr'.idx = IF "idx" \in dirty[s] THEN mem[s].idx ELSE enr.idx
           /\ enr'.status = IF "status" \in dirty[s] THEN mem[s].status ELSE enr.status
           /\ \A k \in Steps : touch'[k] =
                 IF "touch" \in dirty[s] /\ k = at[s] THEN result[s] ELSE touch[k]
           /\ OthersStay(s) /\ OnTrack(s)' /\ pc[s] = "commit"
<1>1. OthersStay(s) /\ OnTrack(s)' /\ pc[s] = "commit"
  BY ForgetOnTrack DEF Commit
<1>2. enr'.idx = IF "idx" \in dirty[s] THEN mem[s].idx ELSE enr.idx
  BY DEF Commit, Merge
<1>3. enr'.status = IF "status" \in dirty[s] THEN mem[s].status ELSE enr.status
  BY DEF Commit, Merge
<1>4. \A k \in Steps : touch'[k] =
                 IF "touch" \in dirty[s] /\ k = at[s] THEN result[s] ELSE touch[k]
  BY DEF Commit, TypeOK
<1>5. QED
  BY <1>1, <1>2, <1>3, <1>4

LEMMA OrderCommit ==
    ASSUME TypeOK, ClaimInv, PathInv, OrderInv, NEW s \in Session, Commit(s),
           enr'.idx >= enr.idx
    PROVE  OrderInv'
<1>1. at[s] \in Nat /\ enr.idx \in Nat /\ enr'.idx \in Nat
  BY StepFacts, CommitType DEF TypeOK, Enrollments
<1>2. Path(s) /\ OnTrack(s)
  BY DEF PathInv, OrderInv
<1>3. "idx" \in dirty[s] => /\ enr'.idx = at[s] + 1 /\ at[s] <= enr.idx
                            /\ move[s] = "advance"
  BY <1>2, CommitFacts DEF Path, OnTrack, Working
<1>4. "idx" \notin dirty[s] => enr'.idx = enr.idx
  BY CommitFacts
<1>5. "touch" \in dirty[s] =>
        /\ at[s] <= enr.idx
        /\ result[s] \in Decided \/ (op[s] = "tick" /\ at[s] = enr.idx /\ move[s] = "park")
  BY <1>2 DEF Path, OnTrack, Settled, ClaimInv, ClaimHolds
<1>6. "idx" \in dirty[s] => touch'[at[s]] \in Decided
  <2>1. at[s] \in Steps
    BY DEF TypeOK
  <2>2. "idx" \in dirty[s] /\ "touch" \in dirty[s] => result[s] \in Decided
    BY <1>3, <1>5
  <2>3. QED
    BY <1>2, <2>1, <2>2, CommitFacts DEF OnTrack
<1>7. ASSUME NEW k \in Steps, k < enr'.idx PROVE touch'[k] \in Decided
  <2>1. k \in Nat
    BY StepFacts
  <2>2. CASE k = at[s] /\ "idx" \in dirty[s]
    BY <1>6, <2>2
  <2>3. CASE k = at[s] /\ "idx" \notin dirty[s]
    <3>1. k < enr.idx
      BY <1>4, <1>7, <2>3
    <3>2. touch[k] \in Decided
      BY <3>1 DEF OrderInv
    <3>3. "touch" \in dirty[s] => result[s] \in Decided
      BY <1>1, <1>5, <2>3, <3>1
    <3>4. QED
      BY <3>2, <3>3, CommitFacts
  <2>4. CASE k # at[s]
    <3>1. k < enr.idx
      BY <1>1, <1>3, <1>4, <1>7, <2>1, <2>4
    <3>2. QED
      BY <2>4, <3>1, CommitFacts DEF OrderInv
  <2>5. QED
    BY <2>2, <2>3, <2>4
<1>8. ASSUME NEW k \in Steps, k > enr'.idx PROVE touch'[k] = "none"
  <2>1. k \in Nat /\ k > enr.idx
    BY <1>1, <1>8, StepFacts
  <2>2. "touch" \in dirty[s] => k # at[s]
    BY <1>1, <1>5, <2>1
  <2>3. QED
    BY <2>1, <2>2, CommitFacts DEF OrderInv
<1>9. ASSUME NEW t \in Session PROVE OnTrack(t)'
  <2>1. CASE t = s
    BY <2>1, CommitFacts
  <2>2. CASE t # s
    <3>1. /\ pc'[t] = pc[t] /\ op'[t] = op[t] /\ at'[t] = at[t] /\ mem'[t] = mem[t]
          /\ dirty'[t] = dirty[t] /\ result'[t] = result[t] /\ move'[t] = move[t]
      BY <2>2, CommitFacts DEF OthersStay
    <3>2. OnTrack(t) /\ at[t] \in Steps /\ at[t] \in Nat
      BY StepFacts DEF OrderInv, TypeOK
    <3>3. op[t] \in Working => at[t] <= enr'.idx
      BY <1>1, <3>2 DEF OnTrack
    <3>4. ASSUME op[t] = "tick", touch[at[t]] \in Decided PROVE touch'[at[t]] \in Decided
      <4>1. op[s] # "tick"
        BY <2>2, <3>4 DEF ClaimInv
      <4>2. "touch" \in dirty[s] => result[s] \in Decided
        BY <1>5, <4>1
      <4>3. QED
        BY <3>2, <3>4, <4>2, CommitFacts
    <3>5. QED
      BY <3>1, <3>2, <3>3, <3>4 DEF OnTrack
  <2>3. QED
    BY <2>1, <2>2
<1>10. QED
  BY <1>7, <1>8, <1>9 DEF OrderInv

LEMMA OrderTick ==
    ASSUME TypeOK, PathInv, OrderInv, NEW s \in Session, TickClaim(s)
    PROVE  OrderInv'
<1>1. OthersStay(s)
  BY DEF TypeOK, TickClaim, Goto, OthersStay
<1>2. /\ pc[s] = "idle" /\ pc'[s] = "check" /\ op'[s] = "tick" /\ at'[s] = enr.idx
      /\ dirty'[s] = dirty[s] /\ touch' = touch /\ enr' = enr
  BY DEF TypeOK, TickClaim, Goto
<1>3. dirty[s] = {} /\ enr.idx \in Nat
  BY <1>2, StepFacts DEF PathInv, Path, TypeOK, Enrollments
<1>4. OnTrack(s)'
  BY <1>2, <1>3 DEF OnTrack, Working, Decision
<1>5. QED
  BY <1>1, <1>2, <1>4, OrderAt

LEMMA OrderSubmit ==
    ASSUME TypeOK, PathInv, OrderInv, NEW s \in Session, NEW name, NEW k \in Steps,
           NEW label \in {"read", "control"}, Submit(s, name, k, label),
           \/ touch[k] = "awaiting_approval"
           \/ name \in {"pause", "resume", "stop"}
    PROVE  OrderInv'
<1>1. OthersStay(s)
  BY DEF TypeOK, Submit, Goto, OthersStay
<1>2. /\ pc[s] = "idle" /\ pc'[s] = label /\ op'[s] = name /\ at'[s] = k /\ mem'[s] = enr
      /\ dirty'[s] = dirty[s] /\ touch' = touch /\ enr' = enr
  BY DEF TypeOK, Submit, Goto
<1>3. dirty[s] = {} /\ enr.idx \in Nat /\ k \in Nat
  BY <1>2, StepFacts DEF PathInv, Path, TypeOK, Enrollments
<1>4. touch[k] = "awaiting_approval" => k = enr.idx
  BY <1>3 DEF OrderInv, Decided
<1>5. OnTrack(s)'
  <2>1. CASE touch[k] = "awaiting_approval"
    BY <1>2, <1>3, <1>4, <2>1 DEF OnTrack
  <2>2. CASE name \in {"pause", "resume", "stop"}
    BY <1>2, <1>3, <2>2 DEF OnTrack, Working, Decision
  <2>3. QED
    BY <2>1, <2>2
<1>6. QED
  BY <1>1, <1>2, <1>5, OrderAt

LEMMA OrderHuman ==
    ASSUME TypeOK, PathInv, OrderInv, NEW s \in Session, Human(s)
    PROVE  OrderInv'
<1>1. 0 \in Steps
  BY StepFacts
<1>2. ASSUME NEW k \in Steps, \/ SubmitApprove(s, k)
                              \/ \E name \in {"reject", "reject_stop"} : SubmitReject(s, k, name)
      PROVE  OrderInv'
  BY <1>2, OrderSubmit DEF SubmitApprove, SubmitReject
<1>3. CASE SubmitPause(s) \/ SubmitResume(s) \/ SubmitStop(s)
  BY <1>1, <1>3, OrderSubmit DEF SubmitPause, SubmitResume, SubmitStop
<1>4. QED
  BY <1>2, <1>3 DEF Human

LEMMA OrderDecide ==
    ASSUME TypeOK, PathInv, OrderInv, NEW s \in Session, NEW res, NEW mv, NEW label,
           Decide(s, res, mv, label), pc[s] \notin {"move", "commit"}, label # "commit",
           label = "move" /\ mv = "advance" => op[s] = "tick" /\ touch[at[s]] \in Decided
    PROVE  OrderInv'
<1>1. OthersStay(s)
  BY DEF TypeOK, Decide, Goto, OthersStay
<1>2. /\ pc'[s] = label /\ op'[s] = op[s] /\ at'[s] = at[s] /\ mem'[s] = mem[s]
      /\ dirty'[s] = dirty[s] /\ result'[s] = res /\ move'[s] = mv
      /\ touch' = touch /\ enr' = enr
  BY DEF TypeOK, Decide, Goto
<1>3. dirty[s] = {} /\ OnTrack(s)
  BY <1>2 DEF PathInv, Path, OrderInv
<1>4. OnTrack(s)'
  BY <1>2, <1>3 DEF OnTrack
<1>5. QED
  BY <1>1, <1>2, <1>4, OrderAt

LEMMA OrderMark ==
    ASSUME TypeOK, PathInv, OrderInv, NEW s \in Session, Mark(s)
    PROVE  OrderInv'
<1>1. OthersStay(s)
  BY DEF TypeOK, Mark, Write, Goto, OthersStay
<1>2. /\ pc[s] = "mark" /\ pc'[s] = "move" /\ op'[s] = op[s] /\ at'[s] = at[s]
      /\ mem'[s] = mem[s] /\ dirty'[s] = dirty[s] \cup {"touch"}
      /\ result'[s] = result[s] /\ move'[s] = move[s] /\ touch' = touch /\ enr' = enr
  BY DEF TypeOK, Mark, Write, Goto
<1>3. dirty[s] = {} /\ OnTrack(s) /\ Settled(s)
  BY <1>2 DEF PathInv, Path, OrderInv
<1>4. dirty'[s] = {"touch"}
  BY <1>2, <1>3
<1>5. OnTrack(s)'
  BY <1>2, <1>3, <1>4 DEF OnTrack, Settled
<1>6. QED
  BY <1>1, <1>2, <1>5, OrderAt

LEMMA OrderMoveOn ==
    ASSUME TypeOK, PathInv, OrderInv, NEW s \in Session, MoveOn(s)
    PROVE  OrderInv'
<1> DEFINE e == Moved(mem[s], move[s])
           columns == Changed(mem[s], e)
<1>1. OthersStay(s)
  BY DEF TypeOK, MoveOn, Write, Goto, OthersStay
<1>2. /\ pc[s] = "move" /\ pc'[s] = "commit" /\ op'[s] = op[s] /\ at'[s] = at[s]
      /\ mem'[s] = e /\ dirty'[s] = dirty[s] \cup columns
      /\ result'[s] = result[s] /\ move'[s] = move[s] /\ touch' = touch /\ enr' = enr
  BY DEF TypeOK, MoveOn, Write, Goto
<1>3. dirty[s] \subseteq {"touch"} /\ OnTrack(s)
  BY <1>2 DEF PathInv, Path, OrderInv
<1>4. mem[s] \in Enrollments /\ move[s] \in Move
  BY DEF TypeOK
<1>5. "idx" \in columns => move[s] = "advance" /\ e.idx = mem[s].idx + 1
  BY <1>4, MovedFacts
<1>6. /\ "touch" \in dirty'[s] <=> "touch" \in dirty[s]
      /\ "idx" \in dirty'[s] <=> "idx" \in columns
  BY <1>2, <1>3 DEF Changed
<1> HIDE DEF e, columns
<1>7. OnTrack(s)'
  BY <1>2, <1>3, <1>5, <1>6 DEF OnTrack
<1>8. QED
  BY <1>1, <1>2, <1>7, OrderAt

LEMMA OrderControl ==
    ASSUME TypeOK, PathInv, OrderInv, NEW s \in Session, Control(s)
    PROVE  OrderInv'
<1>1. OthersStay(s)
  BY DEF TypeOK, Control, Write, Goto, OthersStay
<1>2. /\ pc[s] = "control" /\ pc'[s] = "commit" /\ op'[s] = op[s] /\ at'[s] = at[s]
      /\ dirty'[s] \subseteq dirty[s] \cup {"status", "wait"}
      /\ touch' = touch /\ enr' = enr
  BY DEF TypeOK, Control, Write, Goto
<1>3. dirty[s] = {} /\ op[s] \in {"pause", "resume", "stop"}
  BY <1>2 DEF PathInv, Path
<1>4. OnTrack(s)'
  BY <1>2, <1>3 DEF OnTrack, Working, Decision
<1>5. QED
  BY <1>1, <1>2, <1>4, OrderAt

LEMMA OrderProceed ==
    ASSUME TypeOK, ClaimInv, PathInv, OrderInv, NEW s \in Session, Proceed(s),
           enr'.idx >= enr.idx
    PROVE  OrderInv'
<1>1. Path(s)
  BY DEF PathInv
<1>2. CASE CheckStop(s) \/ CheckSent(s) \/ CheckCall(s) \/ CheckCompose(s)
  BY <1>1, <1>2, OrderDecide DEF CheckStop, CheckSent, CheckCall, CheckCompose, Path, Decided
<1>3. CASE \/ ComposeRaises(s) \/ (\E mv \in {"advance", "stop"} : ComposeHeld(s, mv))
           \/ ComposePark(s) \/ ComposeSend(s)
  BY <1>3, OrderDecide DEF ComposeRaises, ComposeHeld, ComposePark, ComposeSend
<1>4. CASE \/ SendDelivers(s)
           \/ (\E mv \in {"advance", "stop"} : SendUndelivered(s, mv))
           \/ (\E mv \in {"advance", "stop"} : SendRefused(s, mv))
  BY <1>4, OrderDecide DEF SendDelivers, SendUndelivered, SendRefused
<1>5. CASE ReadTouch(s)
  <2>1. PICK res, mv, label : Decide(s, res, mv, label) /\ label \in {"send", "mark"}
    BY <1>5 DEF ReadTouch
  <2>2. QED
    BY <1>5, <2>1, OrderDecide DEF ReadTouch
<1>6. CASE SendRaises(s)
  BY <1>6, OrderRollBack, OrderDecide DEF SendRaises
<1>7. CASE ReadTouchGone(s) \/ \E t \in Session : DeadlockVictim(s, t)
  BY <1>7, OrderRollBack DEF ReadTouchGone, DeadlockVictim
<1>8. QED
  BY <1>2, <1>3, <1>4, <1>5, <1>6, <1>7, OrderMark, OrderMoveOn, OrderControl, OrderCommit
     DEF Proceed

LEMMA OrderStep ==
    TypeOK /\ ClaimInv /\ PathInv /\ OrderInv /\ [Next]_vars /\ [enr'.idx >= enr.idx]_vars
        => OrderInv'
<1> SUFFICES ASSUME TypeOK, ClaimInv, PathInv, OrderInv, [Next]_vars,
                    [enr'.idx >= enr.idx]_vars
             PROVE  OrderInv'
  OBVIOUS
<1>1. CASE UNCHANGED vars
  BY <1>1 DEF vars, session, OrderInv, OnTrack
<1>2. ASSUME NEW s \in Session, Abort(s) PROVE OrderInv'
  BY <1>2, OrderRollBack DEF Abort
<1>3. CASE Reply \/ DayPasses
  <2>1. UNCHANGED <<pc, op, at, mem, dirty, result, move, touch>> /\ enr'.idx = enr.idx
    BY <1>3 DEF Reply, DayPasses, session, TypeOK, Enrollments
  <2>2. QED
    BY <2>1 DEF OrderInv, OnTrack
<1>4. ASSUME NEW s \in Session, Proceed(s), ~UNCHANGED vars PROVE OrderInv'
  BY <1>4, OrderProceed
<1>5. QED
  BY <1>1, <1>2, <1>3, <1>4, OrderTick, OrderHuman DEF Next

\* The touch under review is the one the enrollment stands at, and the touches
\* before one that was begun are decided.
InStep ==
    /\ \A k \in Steps : touch[k] = "awaiting_approval" => enr.idx = k
    /\ \A k \in Steps : touch[k] # "none" =>
         \A j \in 0 .. k - 1 : touch[j] \in {"sent", "skipped", "failed"}

LEMMA OrderFacts == TypeOK /\ OrderInv => InStep
<1> SUFFICES ASSUME TypeOK, OrderInv PROVE InStep
  OBVIOUS
<1>1. enr.idx \in Nat
  BY StepFacts DEF TypeOK, Enrollments
<1>2. ASSUME NEW k \in Steps, touch[k] # "none" PROVE k <= enr.idx
  BY <1>1, <1>2, StepFacts DEF OrderInv
<1>3. ASSUME NEW k \in Steps, touch[k] = "awaiting_approval" PROVE enr.idx = k
  <2>1. ~(k < enr.idx)
    BY <1>3 DEF OrderInv, Decided
  <2>2. QED
    BY <1>1, <1>2, <1>3, <2>1, StepFacts
<1>4. ASSUME NEW k \in Steps, touch[k] # "none", NEW j \in 0 .. k - 1
      PROVE  touch[j] \in {"sent", "skipped", "failed"}
  <2>1. k \in Nat /\ j \in Steps /\ j < enr.idx
    BY <1>1, <1>2, <1>4, StepAssumption DEF Steps
  <2>2. QED
    BY <2>1 DEF OrderInv, Decided
<1>5. QED
  BY <1>3, <1>4 DEF InStep

LEMMA ClaimInvSafe == Spec => []ClaimInv
BY ClaimInit, ClaimStep, TypeCorrect, PTL DEF Spec

LEMMA OrderSafe == Spec /\ NeverTakenBack => []OrderInv
BY OrderInit, OrderStep, PathSafe, ClaimInvSafe, TypeCorrect, PTL DEF Spec, NeverTakenBack

\* Whatever overlaps, dies or is resumed, the touches stay in step with the
\* enrollment until a commit takes the enrollment back to an earlier step: of
\* two decisions on one touch the second may, and nothing else does.
THEOREM InStepUnlessTakenBack == Spec /\ NeverTakenBack => []InStep
BY OrderSafe, OrderFacts, TypeCorrect, PTL

-----------------------------------------------------------------------------
(* An enrollment that is not taken back *)

\* Only a commit moves the enrollment.
LEMMA OnlyCommitMoves ==
    ASSUME TypeOK, [Next]_vars, \A s \in Session : ~Commit(s)
    PROVE  enr'.idx = enr.idx /\ enr'.status = enr.status
<1>1. CASE DayPasses
  BY <1>1 DEF DayPasses, TypeOK, Enrollments
<1>2. CASE Reply \/ UNCHANGED vars
  BY <1>2 DEF Reply, vars
<1>3. ASSUME NEW s \in Session, TickClaim(s) \/ Abort(s) \/ Human(s)
      PROVE  enr' = enr
  BY <1>3 DEF TickClaim, Abort, RollBack, Human, SubmitApprove, SubmitReject, SubmitPause,
              SubmitResume, SubmitStop, Submit
<1>4. ASSUME NEW s \in Session, Proceed(s) PROVE enr' = enr
  BY <1>4 DEF Proceed, CheckStop, CheckSent, CheckCall, CheckCompose, ComposeRaises,
              ComposeHeld, ComposePark, ComposeSend, SendDelivers, SendUndelivered,
              SendRefused, SendRaises, ReadTouch, ReadTouchGone, Decide, RollBack, Mark,
              MoveOn, Control, DeadlockVictim
<1>5. QED
  BY <1>1, <1>2, <1>3, <1>4 DEF Next

LEMMA ForwardStep ==
    ASSUME ~Review \/ NumSteps <= 2
    PROVE  TypeOK /\ ClaimInv /\ PathInv /\ [Next]_vars => [enr'.idx >= enr.idx]_vars
<1> SUFFICES ASSUME TypeOK, ClaimInv, PathInv, [Next]_vars PROVE enr'.idx >= enr.idx
  OBVIOUS
<1>1. enr.idx \in Steps /\ enr.idx \in Nat
  BY StepFacts DEF TypeOK, Enrollments
<1>2. ASSUME NEW s \in Session, Commit(s), "idx" \in dirty[s] PROVE mem[s].idx >= enr.idx
  <2>1. Path(s)
    BY DEF PathInv
  <2>2. CASE ~Review
    <3>1. op[s] = "tick" /\ mem[s].idx = at[s] + 1
      BY <1>2, <2>1, <2>2 DEF Path, Working
    <3>2. at[s] = enr.idx
      BY <3>1 DEF ClaimInv, ClaimHolds
    <3>3. QED
      BY <1>1, <3>1, <3>2
  <2>3. CASE NumSteps <= 2
    <3>1. mem[s].idx >= 1 /\ mem[s].idx \in Nat
      BY <1>2, <2>1, StepFacts DEF Path, TypeOK, Enrollments
    <3>2. enr.idx <= 1
      BY <1>1, <2>3, StepAssumption DEF Steps
    <3>3. QED
      BY <1>1, <3>1, <3>2
  <2>4. QED
    BY <2>2, <2>3
<1>3. QED
  BY <1>1, <1>2, CommitFacts, OnlyCommitMoves

\* While a decision is under way, the enrollment stands at the touch it decides
\* or has just gone one step on, to a touch that is not due today.
SlowInv ==
    /\ \A s \in Session : "idx" \in dirty[s] <=> "wait" \in dirty[s]
    /\ \A s \in Session : "wait" \in dirty[s] => mem[s].wait > 0
    /\ \A s \in Session : op[s] \in Decision =>
         /\ touch[at[s]] # "none"
         /\ \/ enr.idx = at[s]
            \/ enr.idx = at[s] + 1 /\ touch[enr.idx] = "none" /\ enr.wait > 0
    /\ \A s, t \in Session : op[s] \in Decision /\ op[t] = "tick" => enr.idx = at[s]

LEMMA SlowInit == Init => SlowInv
BY DEF Init, SlowInv, Decision

\* A step of one session that leaves the committed rows alone.
LEMMA SlowAt ==
    ASSUME SlowInv, NEW s \in Session, OthersStay(s), UNCHANGED <<enr, touch>>,
           "idx" \in dirty'[s] <=> "wait" \in dirty'[s],
           "wait" \in dirty'[s] => mem'[s].wait > 0,
           op'[s] \in Decision =>
             \/ op[s] \in Decision /\ at'[s] = at[s]
             \/ touch[at'[s]] # "none" /\ enr.idx = at'[s],
           op'[s] = "tick" => op[s] = "tick" \/ enr.wait = 0
    PROVE  SlowInv'
<1>1. ASSUME NEW t \in Session
      PROVE  /\ "idx" \in dirty'[t] <=> "wait" \in dirty'[t]
             /\ "wait" \in dirty'[t] => mem'[t].wait > 0
  BY DEF SlowInv, OthersStay
<1>2. ASSUME NEW t \in Session, op'[t] \in Decision
      PROVE  /\ touch[at'[t]] # "none"
             /\ \/ enr.idx = at'[t]
                \/ enr.idx = at'[t] + 1 /\ touch[enr.idx] = "none" /\ enr.wait > 0
  BY <1>2 DEF SlowInv, OthersStay
<1>3. ASSUME NEW t \in Session, NEW u \in Session, op'[t] \in Decision, op'[u] = "tick"
      PROVE  enr.idx = at'[t]
  <2>1. CASE op[u] = "tick"
    BY <1>2, <1>3, <2>1 DEF SlowInv, OthersStay
  <2>2. CASE op[u] # "tick"
    <3>1. u = s /\ enr.wait = 0
      BY <1>3, <2>2 DEF OthersStay
    <3>2. QED
      BY <1>2, <1>3, <3>1
  <2>3. QED
    BY <2>1, <2>2
<1>4. QED
  BY <1>1, <1>2, <1>3 DEF SlowInv

\* The committed enrollment moves on by one step, or not at all.
LEMMA SlowCommit ==
    ASSUME TypeOK, ClaimInv, PathInv, OrderInv, SlowInv, NEW s \in Session, Commit(s)
    PROVE  SlowInv' /\ enr'.idx >= enr.idx
<1>1. enr.idx \in Nat /\ enr'.idx \in Steps /\ enr'.idx \in Nat
  BY StepFacts, CommitType DEF TypeOK, Enrollments
<1>2. Path(s) /\ OnTrack(s) /\ at[s] \in Steps /\ at[s] \in Nat
  BY StepFacts DEF PathInv, OrderInv, TypeOK
<1>3. OthersStay(s) /\ op'[s] = "none" /\ dirty'[s] = {}
  BY CommitFacts DEF Commit, Forget, TypeOK
<1>4. enr'.wait = IF "wait" \in dirty[s] THEN mem[s].wait ELSE enr.wait
  BY DEF Commit, Merge
<1>5. op[s] = "tick" => at[s] = enr.idx
  BY DEF ClaimInv, ClaimHolds
<1>6. op[s] \in Decision =>
        enr.idx = at[s] \/ (enr.idx = at[s] + 1 /\ touch[enr.idx] = "none" /\ enr.wait > 0)
  BY DEF SlowInv
<1>7. "idx" \in dirty[s] => /\ enr'.idx = at[s] + 1 /\ enr'.wait > 0
                            /\ op[s] \in Working
  BY <1>2, <1>4, CommitFacts DEF Path, OnTrack, Working, SlowInv
<1>8. "idx" \notin dirty[s] => enr'.idx = enr.idx /\ enr'.wait = enr.wait
  BY <1>4, CommitFacts DEF SlowInv
<1>9. enr'.idx \in {enr.idx, enr.idx + 1}
  BY <1>1, <1>2, <1>5, <1>6, <1>7, <1>8 DEF Working
<1>10. "touch" \in dirty[s] => op[s] \in Working /\ result[s] # "none"
  BY <1>2 DEF Path, Settled, Decided
<1>11. \A k \in Steps : touch'[k] =
          IF "touch" \in dirty[s] /\ k = at[s] THEN result[s] ELSE touch[k]
  BY CommitFacts
<1>12. ASSUME NEW t \in Session, t # s, op[t] \in Decision
       PROVE  /\ touch'[at[t]] # "none"
              /\ \/ enr'.idx = at[t]
                 \/ enr'.idx = at[t] + 1 /\ touch'[enr'.idx] = "none" /\ enr'.wait > 0
              /\ \A u \in Session \ {s} : op[u] = "tick" => enr'.idx = at[t]
  <2>1. /\ touch[at[t]] # "none" /\ at[t] \in Steps /\ at[t] \in Nat
        /\ \/ enr.idx = at[t]
           \/ enr.idx = at[t] + 1 /\ touch[enr.idx] = "none" /\ enr.wait > 0
    BY <1>12, StepFacts DEF SlowInv, TypeOK
  <2>2. touch'[at[t]] # "none"
    BY <1>10, <1>11, <2>1
  <2>3. ASSUME NEW u \in Session \ {s}, op[u] = "tick" PROVE enr'.idx = at[t]
    <3>1. "idx" \notin dirty[s]
      BY <2>3 DEF ClaimInv, Content
    <3>2. enr.idx = at[t]
      BY <1>12, <2>3 DEF SlowInv
    <3>3. QED
      BY <1>8, <3>1, <3>2
  <2>4. CASE enr'.idx = enr.idx + 1
    <3>1. "idx" \in dirty[s] /\ at[s] = enr.idx
      BY <1>1, <1>2, <1>7, <1>8, <2>4
    <3>2. enr.idx = at[t]
      BY <1>12, <2>1, <3>1, <1>7, <1>5, <1>1 DEF SlowInv, Working
    <3>3. touch[enr'.idx] = "none" /\ enr'.idx # at[s]
      BY <1>1, <2>4, <3>1 DEF OrderInv
    <3>4. touch'[enr'.idx] = "none"
      BY <1>1, <1>11, <3>3
    <3>5. QED
      BY <1>7, <2>2, <2>3, <2>4, <3>1, <3>2, <3>4
  <2>5. CASE enr'.idx = enr.idx
    <3>1. CASE enr.idx = at[t]
      BY <2>2, <2>3, <2>5, <3>1
    <3>2. CASE enr.idx = at[t] + 1 /\ touch[enr.idx] = "none" /\ enr.wait > 0
      <4>1. op[s] # "tick"
        BY <1>12, <2>1, <3>2 DEF SlowInv
      <4>2. op[s] \in Decision => touch[at[s]] # "none"
        BY DEF SlowInv
      <4>3. "touch" \in dirty[s] => at[s] # enr.idx
        BY <1>10, <3>2, <4>1, <4>2 DEF Working
      <4>4. touch'[enr'.idx] = "none"
        BY <1>1, <1>11, <2>5, <3>2, <4>3
      <4>5. enr'.wait > 0
        BY <1>7, <1>8, <3>2
      <4>6. QED
        BY <2>2, <2>3, <2>5, <3>2, <4>4, <4>5
    <3>3. QED
      BY <2>1, <3>1, <3>2
  <2>6. QED
    BY <1>9, <2>4, <2>5
<1>13. SlowInv'
  <2>1. ASSUME NEW t \in Session
        PROVE  /\ "idx" \in dirty'[t] <=> "wait" \in dirty'[t]
               /\ "wait" \in dirty'[t] => mem'[t].wait > 0
    BY <1>3 DEF SlowInv, OthersStay
  <2>2. ASSUME NEW t \in Session, op'[t] \in Decision
        PROVE  /\ touch'[at'[t]] # "none"
               /\ \/ enr'.idx = at'[t]
                  \/ enr'.idx = at'[t] + 1 /\ touch'[enr'.idx] = "none" /\ enr'.wait > 0
               /\ \A u \in Session : op'[u] = "tick" => enr'.idx = at'[t]
    <3>1. t # s
      BY <1>3, <2>2 DEF Decision
    <3>2. at'[t] = at[t] /\ op[t] \in Decision
      BY <1>3, <2>2, <3>1 DEF OthersStay
    <3>3. \A u \in Session : op'[u] = "tick" => u # s /\ op[u] = "tick"
      BY <1>3 DEF OthersStay
    <3>4. QED
      BY <1>12, <3>1, <3>2, <3>3
  <2>3. QED
    BY <2>1, <2>2 DEF SlowInv
<1>14. QED
  BY <1>1, <1>9, <1>13

LEMMA SlowRollBack ==
    ASSUME TypeOK, SlowInv, NEW s \in Session, RollBack(s)
    PROVE  SlowInv'
<1>1. OthersStay(s) /\ op'[s] = "none" /\ dirty'[s] = {} /\ UNCHANGED <<enr, touch>>
  BY ForgetOnTrack DEF RollBack, Forget, TypeOK
<1>2. QED
  BY <1>1, SlowAt DEF Decision

LEMMA SlowMoveOn ==
    ASSUME Unhurried, TypeOK, PathInv, SlowInv, NEW s \in Session, MoveOn(s)
    PROVE  SlowInv'
<1> DEFINE e == Moved(mem[s], move[s])
           columns == Changed(mem[s], e)
<1>1. OthersStay(s)
  BY DEF TypeOK, MoveOn, Write, Goto, OthersStay
<1>2. /\ pc[s] = "move" /\ op'[s] = op[s] /\ at'[s] = at[s]
      /\ mem'[s] = e /\ dirty'[s] = dirty[s] \cup columns
      /\ UNCHANGED <<enr, touch>>
  BY DEF TypeOK, MoveOn, Write, Goto
<1>3. dirty[s] \subseteq {"touch"}
  BY <1>2 DEF PathInv, Path
<1>4. mem[s] \in Enrollments /\ move[s] \in Move
  BY DEF TypeOK
<1>5. "idx" \in columns <=> "wait" \in columns
  BY DEF Changed
<1>6. "idx" \in columns => e.wait > 0
  <2> SUFFICES ASSUME "idx" \in columns PROVE e.wait > 0
    OBVIOUS
  <2>1. move[s] = "advance" /\ mem[s].idx + 1 \in Steps
    BY <1>4, MovedFacts
  <2>2. e.wait = Delay[mem[s].idx + 1]
    BY <2>1 DEF Moved, Advanced
  <2>3. mem[s].idx \in Nat
    BY <1>4, StepFacts DEF Enrollments
  <2>4. QED
    BY <2>1, <2>2, <2>3 DEF Unhurried
<1> HIDE DEF e, columns
<1>7. /\ "idx" \in dirty'[s] <=> "idx" \in columns
      /\ "wait" \in dirty'[s] <=> "wait" \in columns
  BY <1>2, <1>3
<1>8. QED
  BY <1>1, <1>2, <1>5, <1>6, <1>7, SlowAt

LEMMA SlowHuman ==
    ASSUME TypeOK, PathInv, OrderInv, SlowInv, NEW s \in Session, Human(s)
    PROVE  SlowInv'
<1>1. PICK name, k, label :
        /\ Submit(s, name, k, label)
        /\ \/ k \in Steps /\ touch[k] = "awaiting_approval" /\ name \in Decision
           \/ name \in {"pause", "resume", "stop"}
  BY DEF Human, SubmitApprove, SubmitReject, SubmitPause, SubmitResume, SubmitStop, Decision
<1>2. OthersStay(s)
  BY <1>1 DEF TypeOK, Submit, Goto, OthersStay
<1>3. /\ pc[s] = "idle" /\ op'[s] = name /\ at'[s] = k /\ dirty'[s] = dirty[s]
      /\ UNCHANGED <<enr, touch>>
  BY <1>1 DEF TypeOK, Submit, Goto
<1>4. dirty[s] = {}
  BY <1>3 DEF PathInv, Path
<1>5. name \in Decision => touch[k] # "none" /\ enr.idx = k
  <2>1. SUFFICES ASSUME name \in Decision PROVE touch[k] # "none" /\ enr.idx = k
    OBVIOUS
  <2>2. k \in Steps /\ touch[k] = "awaiting_approval"
    BY <1>1, <2>1 DEF Decision
  <2>3. InStep
    BY OrderFacts
  <2>4. QED
    BY <2>2, <2>3 DEF InStep
<1>6. name # "tick"
  BY <1>1 DEF Decision
<1>7. QED
  BY <1>2, <1>3, <1>4, <1>5, <1>6, SlowAt

LEMMA SlowProceed ==
    ASSUME Unhurried, TypeOK, ClaimInv, PathInv, OrderInv, SlowInv,
           NEW s \in Session, Proceed(s)
    PROVE  SlowInv'
<1>1. CASE \E res, mv, label : Decide(s, res, mv, label)
  <2>1. OthersStay(s)
    BY <1>1 DEF TypeOK, Decide, Goto, OthersStay
  <2>2. /\ op'[s] = op[s] /\ at'[s] = at[s] /\ mem'[s] = mem[s] /\ dirty'[s] = dirty[s]
        /\ UNCHANGED <<enr, touch>>
    BY <1>1 DEF Decide
  <2>3. QED
    BY <2>1, <2>2, SlowAt DEF SlowInv
<1>2. CASE RollBack(s)
  BY <1>2, SlowRollBack
<1>3. CASE Mark(s)
  <2>1. OthersStay(s)
    BY <1>3 DEF TypeOK, Mark, Write, Goto, OthersStay
  <2>2. /\ op'[s] = op[s] /\ at'[s] = at[s] /\ mem'[s] = mem[s]
        /\ dirty'[s] = dirty[s] \cup {"touch"} /\ UNCHANGED <<enr, touch>>
    BY <1>3 DEF TypeOK, Mark, Write, Goto
  <2>3. QED
    BY <2>1, <2>2, SlowAt DEF SlowInv
<1>4. CASE Control(s)
  <2>1. OthersStay(s)
    BY <1>4 DEF TypeOK, Control, Write, Goto, OthersStay
  <2>2. pc[s] = "control" /\ op'[s] = op[s] /\ at'[s] = at[s] /\ UNCHANGED <<enr, touch>>
    BY <1>4 DEF TypeOK, Control, Write, Goto
  <2>3. dirty[s] = {} /\ op[s] \in {"pause", "stop"}
    BY <2>2 DEF PathInv, Path, Unhurried
  <2>4. dirty'[s] = {"status"}
    BY <1>4, <2>3 DEF TypeOK, Control, Write
  <2>5. QED
    BY <2>1, <2>2, <2>3, <2>4, SlowAt
<1>5. QED
  BY <1>1, <1>2, <1>3, <1>4, SlowMoveOn, SlowCommit
     DEF Proceed, CheckStop, CheckSent, CheckCall, CheckCompose, ComposeRaises, ComposeHeld,
         ComposePark, ComposeSend, SendDelivers, SendUndelivered, SendRefused, SendRaises,
         ReadTouch, ReadTouchGone, DeadlockVictim

LEMMA SlowStep ==
    ASSUME Unhurried
    PROVE  TypeOK /\ ClaimInv /\ PathInv /\ OrderInv /\ SlowInv /\ [Next]_vars
               => SlowInv' /\ [enr'.idx >= enr.idx]_vars
<1> SUFFICES ASSUME TypeOK, ClaimInv, PathInv, OrderInv, SlowInv, [Next]_vars
             PROVE  SlowInv' /\ enr'.idx >= enr.idx
  OBVIOUS
<1>1. enr'.idx >= enr.idx
  <2>1. enr.idx \in Nat
    BY StepFacts DEF TypeOK, Enrollments
  <2>2. QED
    BY <2>1, SlowCommit, OnlyCommitMoves
<1> SUFFICES SlowInv'
  BY <1>1
<1>2. ASSUME enr' = enr, touch' = touch, UNCHANGED <<op, at, mem, dirty>> PROVE SlowInv'
  BY <1>2 DEF SlowInv
<1>3. CASE Reply \/ UNCHANGED vars
  <2>1. enr' = enr /\ touch' = touch /\ UNCHANGED <<op, at, mem, dirty>>
    BY <1>3 DEF Reply, vars, session
  <2>2. QED
    BY <1>2, <2>1
<1>4. CASE DayPasses
  <2>1. ASSUME NEW s \in Session PROVE op[s] = "none" /\ dirty[s] = {}
    BY <1>4 DEF DayPasses, PathInv, Path
  <2>2. op' = op /\ dirty' = dirty
    BY <1>4 DEF DayPasses, session
  <2>3. QED
    BY <2>1, <2>2 DEF SlowInv, Decision
<1>5. ASSUME NEW s \in Session, TickClaim(s) PROVE SlowInv'
  <2>1. OthersStay(s)
    BY <1>5 DEF TypeOK, TickClaim, Goto, OthersStay
  <2>2. /\ pc[s] = "idle" /\ op'[s] = "tick" /\ dirty'[s] = dirty[s] /\ enr.wait = 0
        /\ UNCHANGED <<enr, touch>>
    BY <1>5 DEF TypeOK, TickClaim
  <2>3. dirty[s] = {}
    BY <2>2 DEF PathInv, Path
  <2>4. QED
    BY <2>1, <2>2, <2>3, SlowAt DEF Decision
<1>6. ASSUME NEW s \in Session, Abort(s) PROVE SlowInv'
  BY <1>6, SlowRollBack DEF Abort
<1>7. QED
  BY <1>1, <1>2, <1>3, <1>4, <1>5, <1>6, SlowHuman, SlowProceed DEF Next

LEMMA UnhurriedForward ==
    ASSUME Unhurried
    PROVE  Spec => NeverTakenBack
<1>1. TypeOK /\ ClaimInv /\ PathInv /\ OrderInv /\ SlowInv /\ [Next]_vars
          => SlowInv' /\ [enr'.idx >= enr.idx]_vars
  BY SlowStep
<1>2. Spec => [](OrderInv /\ SlowInv)
  BY OrderInit, OrderStep, SlowInit, PathSafe, ClaimInvSafe, TypeCorrect, <1>1, PTL DEF Spec
<1>3. QED
  BY <1>1, <1>2, PathSafe, ClaimInvSafe, TypeCorrect, PTL DEF Spec, NeverTakenBack

\* Without review only ticks move an enrollment, of two steps the first is never
\* returned to, and where days lie between the touches no decision is overtaken
\* by more than one step.
THEOREM NoWayBack ==
    ASSUME ForwardOnly
    PROVE  Spec => NeverTakenBack
<1>1. CASE Unhurried
  BY <1>1, UnhurriedForward
<1>2. CASE ~Review \/ NumSteps <= 2
  <2>1. TypeOK /\ ClaimInv /\ PathInv /\ [Next]_vars => [enr'.idx >= enr.idx]_vars
    BY <1>2, ForwardStep
  <2>2. QED
    BY <2>1, PathSafe, ClaimInvSafe, TypeCorrect, PTL DEF Spec, NeverTakenBack
<1>3. QED
  BY <1>1, <1>2 DEF ForwardOnly

\* The touch under review is the one the enrollment stands at.
THEOREM ReviewedIsCurrent == Spec => []AwaitingIsCurrent
<1>1. ASSUME ForwardOnly PROVE Spec => []AwaitingIsCurrent
  <2>1. InStep => AwaitingIsCurrent
    BY DEF InStep, AwaitingIsCurrent
  <2>2. Spec => NeverTakenBack
    BY <1>1, NoWayBack
  <2>3. QED
    BY <2>1, <2>2, InStepUnlessTakenBack, PTL
<1>2. ASSUME ~ForwardOnly PROVE Spec => []AwaitingIsCurrent
  <2>1. AwaitingIsCurrent
    BY <1>2 DEF AwaitingIsCurrent
  <2>2. QED
    BY <2>1, PTL
<1>3. QED
  BY <1>1, <1>2

-----------------------------------------------------------------------------
(* A touch at a time, once *)

\* What OncePerStep is stated for.
Steady == aborts = 0 /\ ~Review /\ "resume" \notin Controls

\* What is ahead of an active enrollment has not been sent, the touch it stands
\* at has only by the tick that is about to go on, and the rows of the touches
\* are held by ticks alone.
OnceInv == Steady =>
    /\ \A k \in Steps : pushed[k] <= 1
    /\ enr.status = "active" =>
         \A k \in Steps : k > enr.idx => pushed[k] = 0
    /\ enr.status = "active" =>
         \/ pushed[enr.idx] = 0
         \/ \E s \in Session : op[s] = "tick" /\ pc[s] \in {"mark", "move", "commit"}
    /\ \A s \in Session : pc[s] \in {"check", "compose", "send"} => pushed[at[s]] = 0
    /\ \A s \in Session : op[s] # "tick" => \A k \in Steps : lock[k] # s

LEMMA OnceInit == Init => OnceInv
<1> SUFFICES ASSUME Init PROVE OnceInv
  OBVIOUS
<1>1. \A k \in Steps : pushed[k] = 0
  BY DEF Init
<1>2. enr.idx \in Steps
  BY StepFacts DEF Init, Enrolled
<1>3. \A s \in Session : pc[s] = "idle"
  BY DEF Init
<1>4. \A s \in Session : \A k \in Steps : lock[k] # s
  BY SessionAssumption DEF Init, Row
<1>5. QED
  BY <1>1, <1>2, <1>3, <1>4 DEF OnceInv

\* Without review only ticks work on touches, and one of them at a time.
LEMMA TicksOnly ==
    ASSUME TypeOK, ClaimInv, PathInv, ~Review, NEW s \in Session, op[s] \in Working
    PROVE  /\ op[s] = "tick" /\ enr.status = "active" /\ at[s] = enr.idx
           /\ lock[EnrollmentRow] = s
           /\ \A t \in Session \ {s} : op[t] \notin Working
BY DEF ClaimInv, ClaimHolds, PathInv, Path, Working

LEMMA AtWork ==
    ASSUME PathInv, NEW s \in Session,
           pc[s] \in {"check", "compose", "send", "mark", "move", "read"}
    PROVE  op[s] \in Working
BY DEF PathInv, Path, Working, Decision

\* A session that leaves the enrollment, the messages and the touches' locks alone.
LEMMA OnceAt ==
    ASSUME TypeOK, OnceInv, NEW s \in Session, OthersStay(s), Steady' => Steady,
           enr'.idx = enr.idx, enr'.status = enr.status, pushed' = pushed,
           \A k \in Steps : \A t \in Session : lock'[k] = t => lock[k] = t \/ t = s,
           Steady' => \/ op'[s] = "tick"
                      \/ \A k \in Steps : lock'[k] # s,
           Steady' /\ pc'[s] \in {"check", "compose", "send"} => pushed[at'[s]] = 0,
           Steady' /\ op[s] = "tick" /\ pc[s] \in {"mark", "move", "commit"} =>
                          op'[s] = "tick" /\ pc'[s] \in {"mark", "move", "commit"}
    PROVE  OnceInv'
<1> SUFFICES ASSUME Steady' PROVE OnceInv'
  BY DEF OnceInv
<1>1. Steady
  OBVIOUS
<1>2. /\ \A k \in Steps : pushed'[k] <= 1
      /\ enr'.status = "active" => \A k \in Steps : k > enr'.idx => pushed'[k] = 0
  BY <1>1 DEF OnceInv
<1>3. enr'.status = "active" =>
        \/ pushed'[enr'.idx] = 0
        \/ \E t \in Session : op'[t] = "tick" /\ pc'[t] \in {"mark", "move", "commit"}
  <2> SUFFICES ASSUME NEW t \in Session, op[t] = "tick", pc[t] \in {"mark", "move", "commit"}
               PROVE  op'[t] = "tick" /\ pc'[t] \in {"mark", "move", "commit"}
    BY <1>1 DEF OnceInv
  <2>1. QED
    BY DEF OthersStay
<1>4. \A t \in Session : pc'[t] \in {"check", "compose", "send"} => pushed'[at'[t]] = 0
  BY <1>1 DEF OnceInv, OthersStay
<1>5. \A t \in Session : op'[t] # "tick" => \A k \in Steps : lock'[k] # t
  BY <1>1 DEF OnceInv, OthersStay
<1>6. QED
  BY <1>2, <1>3, <1>4, <1>5 DEF OnceInv

LEMMA OnceCommit ==
    ASSUME TypeOK, TypeOK', ClaimInv, PathInv, OnceInv, NEW s \in Session, Commit(s)
    PROVE  OnceInv'
<1> SUFFICES ASSUME Steady' PROVE OnceInv'
  BY DEF OnceInv
<1>1. Steady /\ pushed' = pushed
  BY DEF Steady, Commit, outside
<1>2. Path(s) /\ pc[s] = "commit" /\ op[s] \in Operation \ {"none"}
  BY CommitFacts DEF PathInv, Path, TypeOK
<1>3. OthersStay(s) /\ pc'[s] = "idle" /\ op'[s] = "none"
  BY CommitFacts DEF Commit, Forget, Goto, TypeOK
<1>4. enr.idx \in Nat /\ enr'.idx \in Steps /\ enr'.idx \in Nat
  BY StepFacts DEF TypeOK, Enrollments
<1>5. \A k \in Steps : pushed'[k] <= 1
  BY <1>1 DEF OnceInv
<1>6. \A t \in Session : pc'[t] \in {"check", "compose", "send"} => pushed'[at'[t]] = 0
  BY <1>1, <1>3 DEF OnceInv, OthersStay
<1>7. \A k \in Steps : lock'[k] = IF lock[k] = s THEN NoSession ELSE lock[k]
  BY DEF Commit, Release, Row
<1>8. \A t \in Session : op'[t] # "tick" => \A k \in Steps : lock'[k] # t
  BY <1>1, <1>3, <1>7, SessionAssumption DEF OnceInv, OthersStay
<1>9. enr'.status = "active" =>
        /\ \A k \in Steps : k > enr'.idx => pushed'[k] = 0
        /\ \/ pushed'[enr'.idx] = 0
           \/ \E t \in Session : op'[t] = "tick" /\ pc'[t] \in {"mark", "move", "commit"}
  <2> SUFFICES ASSUME enr'.status = "active"
               PROVE  /\ \A k \in Steps : k > enr'.idx => pushed'[k] = 0
                      /\ \/ pushed'[enr'.idx] = 0
                         \/ \E t \in Session :
                              op'[t] = "tick" /\ pc'[t] \in {"mark", "move", "commit"}
    OBVIOUS
  <2>1. CASE op[s] = "tick"
    <3>1. enr.status = "active" /\ at[s] = enr.idx
      BY <2>1 DEF ClaimInv, ClaimHolds
    <3>2. "idx" \in dirty[s]
      BY <1>2, <2>1, CommitFacts DEF Path
    <3>3. enr'.idx = enr.idx + 1
      BY <1>2, <2>1, <3>1, <3>2, CommitFacts DEF Path
    <3>4. \A k \in Steps : k >= enr'.idx => pushed[k] = 0
      BY <1>1, <1>4, <3>1, <3>3, StepFacts DEF OnceInv
    <3>5. QED
      BY <1>1, <1>4, <3>4, StepFacts
  <2>2. CASE op[s] # "tick"
    <3>1. op[s] \in {"pause", "stop"}
      BY <1>1, <1>2, <2>2 DEF Path, Steady, Operation, Decision
    <3>2. mem[s].status # "active" /\ "idx" \notin dirty[s]
      BY <1>2, <3>1 DEF Path, Working, Decision
    <3>3. enr.status = "active" /\ enr'.idx = enr.idx
      BY <3>2, CommitFacts
    <3>4. ASSUME NEW t \in Session, op[t] = "tick", pc[t] \in {"mark", "move", "commit"}
          PROVE  op'[t] = "tick" /\ pc'[t] \in {"mark", "move", "commit"}
      BY <1>3, <2>2, <3>4 DEF OthersStay
    <3>5. QED
      BY <1>1, <3>3, <3>4 DEF OnceInv
  <2>3. QED
    BY <2>1, <2>2
<1>10. QED
  BY <1>5, <1>6, <1>8, <1>9 DEF OnceInv

LEMMA OnceTick ==
    ASSUME TypeOK, ClaimInv, OnceInv, NEW s \in Session, TickClaim(s)
    PROVE  OnceInv'
<1>1. OthersStay(s)
  BY DEF TypeOK, TickClaim, Goto, OthersStay
<1>2. /\ pc[s] = "idle" /\ op'[s] = "tick" /\ at'[s] = enr.idx
      /\ enr.status = "active" /\ lock[EnrollmentRow] = NoSession
      /\ enr' = enr /\ pushed' = pushed /\ aborts' = aborts
  BY DEF TypeOK, TickClaim, Goto, outside
<1>3. \A k \in Steps : lock'[k] = lock[k]
  BY StepFacts DEF TickClaim, TypeOK, Row
<1>4. Steady => pushed[enr.idx] = 0
  BY <1>2, SessionAssumption DEF OnceInv, ClaimInv
<1>5. Steady' => Steady
  BY <1>2 DEF Steady
<1>6. QED
  BY <1>1, <1>2, <1>3, <1>4, <1>5, OnceAt

LEMMA OnceHuman ==
    ASSUME TypeOK, PathInv, OnceInv, NEW s \in Session, Human(s)
    PROVE  OnceInv'
<1>1. PICK name, k, label : /\ Submit(s, name, k, label) /\ label \in {"read", "control"}
                            /\ name \in Operation \ {"tick"}
  BY DEF Human, SubmitApprove, SubmitReject, SubmitPause, SubmitResume, SubmitStop, Operation
<1>2. OthersStay(s)
  BY <1>1 DEF TypeOK, Submit, Goto, OthersStay
<1>3. /\ pc[s] = "idle" /\ pc'[s] = label /\ op'[s] = name
      /\ enr' = enr /\ pushed' = pushed /\ aborts' = aborts /\ lock' = lock
  BY <1>1 DEF TypeOK, Submit, Goto
<1>4. op[s] = "none"
  BY <1>3 DEF PathInv, Path
<1>5. Steady => \A r \in Steps : lock[r] # s
  BY <1>4 DEF OnceInv
<1>6. Steady' => Steady
  BY <1>3 DEF Steady
<1>7. QED
  BY <1>1, <1>2, <1>3, <1>5, <1>6, OnceAt

LEMMA OnceDecide ==
    ASSUME TypeOK, ClaimInv, PathInv, OnceInv, NEW s \in Session,
           NEW res, NEW mv, NEW label, Decide(s, res, mv, label), Quiet,
           pc[s] \in {"check", "compose", "send", "read"}
    PROVE  OnceInv'
<1>1. OthersStay(s)
  BY DEF TypeOK, Decide, Goto, OthersStay
<1>2. /\ op'[s] = op[s] /\ at'[s] = at[s] /\ enr' = enr /\ pushed' = pushed
      /\ aborts' = aborts /\ lock' = lock
  BY DEF TypeOK, Decide, Goto, Quiet
<1>3. Steady' => Steady
  BY <1>2 DEF Steady
<1>4. Steady => op[s] = "tick"
  BY TicksOnly, AtWork DEF Steady
<1>5. Steady => pc[s] \in {"check", "compose", "send"}
  BY <1>4 DEF PathInv, Path, Decision
<1>6. Steady => pushed[at[s]] = 0
  BY <1>5 DEF OnceInv
<1>7. QED
  BY <1>1, <1>2, <1>3, <1>4, <1>6, OnceAt

\* The one place where a message leaves.
LEMMA OncePush ==
    ASSUME TypeOK, ClaimInv, PathInv, OnceInv, NEW s \in Session, pc[s] = "send", Push(s),
           NEW res, NEW mv, Decide(s, res, mv, "mark")
    PROVE  OnceInv'
<1> SUFFICES ASSUME Steady' PROVE OnceInv'
  BY DEF OnceInv
<1>1. OthersStay(s)
  BY DEF TypeOK, Decide, Goto, OthersStay
<1>2. /\ op'[s] = op[s] /\ at'[s] = at[s] /\ pc'[s] = "mark" /\ enr' = enr
      /\ aborts' = aborts /\ lock' = lock
  BY DEF TypeOK, Decide, Goto
<1>3. Steady
  BY <1>2 DEF Steady
<1>4. /\ op[s] = "tick" /\ enr.status = "active" /\ at[s] = enr.idx
      /\ \A t \in Session \ {s} : op[t] \notin Working
  BY <1>3, TicksOnly, AtWork DEF Steady
<1>5. at[s] \in Steps /\ pushed[at[s]] = 0 /\ enr.idx \in Nat
  BY <1>3, StepFacts DEF OnceInv, TypeOK, Enrollments
<1>6. \A k \in Steps : pushed'[k] = IF k = at[s] THEN 1 ELSE pushed[k]
  BY <1>5 DEF Push, TypeOK
<1>7. \A k \in Steps : pushed'[k] <= 1
  BY <1>3, <1>6 DEF OnceInv
<1>8. \A k \in Steps : k > enr'.idx => pushed'[k] = 0
  BY <1>2, <1>3, <1>4, <1>5, <1>6, StepFacts DEF OnceInv
<1>9. \A t \in Session : pc'[t] \notin {"check", "compose", "send"}
  BY <1>1, <1>2, <1>4, AtWork DEF OthersStay
<1>10. \A t \in Session : op'[t] # "tick" => \A k \in Steps : lock'[k] # t
  BY <1>1, <1>2, <1>3 DEF OnceInv, OthersStay
<1>11. op'[s] = "tick" /\ pc'[s] = "mark"
  BY <1>2, <1>4
<1>12. QED
  BY <1>7, <1>8, <1>9, <1>10, <1>11 DEF OnceInv

LEMMA OnceCarryOn ==
    ASSUME TypeOK, ClaimInv, PathInv, OnceInv, NEW s \in Session,
           Mark(s) \/ MoveOn(s) \/ Control(s)
    PROVE  OnceInv'
<1>1. OthersStay(s)
  BY DEF TypeOK, Mark, MoveOn, Control, Write, Goto, OthersStay
<1>2. /\ pc'[s] \in {"move", "commit"} /\ op'[s] = op[s] /\ enr' = enr
      /\ pushed' = pushed /\ aborts' = aborts
      /\ \A r \in Row : lock'[r] = lock[r] \/ lock'[r] = s
  BY DEF TypeOK, Mark, MoveOn, Control, Write, Goto, outside
<1>3. Steady' => Steady
  BY <1>2 DEF Steady
<1>4. CASE Control(s)
  <2>1. \A k \in Steps : lock'[k] = lock[k]
    BY <1>4, StepFacts DEF Control, Write, TypeOK, Row
  <2>2. op[s] # "tick"
    BY <1>4 DEF Control, PathInv, Path
  <2>3. Steady => \A k \in Steps : lock[k] # s
    BY <2>2 DEF OnceInv
  <2>4. QED
    BY <1>1, <1>2, <1>3, <2>1, <2>2, <2>3, OnceAt
<1>5. CASE Mark(s) \/ MoveOn(s)
  <2>1. Steady => op[s] = "tick"
    BY <1>5, TicksOnly, AtWork DEF Steady, Mark, MoveOn
  <2>2. \A k \in Steps : \A t \in Session : lock'[k] = t => lock[k] = t \/ t = s
    BY <1>2 DEF Row
  <2>3. QED
    BY <1>1, <1>2, <1>3, <2>1, <2>2, OnceAt
<1>6. QED
  BY <1>4, <1>5

\* Without review, two transactions never wait for each other.
LEMMA NoVictims ==
    ASSUME TypeOK, ClaimInv, PathInv, OnceInv, Steady, NEW s \in Session, NEW t \in Session,
           DeadlockVictim(s, t)
    PROVE  FALSE
<1>1. PICK r \in Wants(s) : lock[r] = t
  BY DEF DeadlockVictim
<1>2. PICK q \in Wants(t) : lock[q] = s
  BY DEF DeadlockVictim
<1>3. s # t
  BY DEF DeadlockVictim
<1>4. ASSUME NEW u \in Session, NEW w \in Wants(u), w # EnrollmentRow
      PROVE  op[u] = "tick" /\ w \in Steps
  <2>1. pc[u] = "mark" /\ w = at[u]
    BY <1>4 DEF Wants
  <2>2. QED
    BY <2>1, TicksOnly, AtWork DEF TypeOK, Steady
<1>5. CASE r # EnrollmentRow
  <2>1. op[s] = "tick" /\ lock[EnrollmentRow] = s /\ r \in Steps
    BY <1>4, <1>5 DEF ClaimInv
  <2>2. op[t] # "tick"
    BY <1>3, <2>1 DEF ClaimInv
  <2>3. QED
    BY <1>1, <2>1, <2>2 DEF OnceInv
<1>6. CASE q # EnrollmentRow
  <2>1. op[t] = "tick" /\ lock[EnrollmentRow] = t /\ q \in Steps
    BY <1>4, <1>6 DEF ClaimInv
  <2>2. op[s] # "tick"
    BY <1>3, <2>1 DEF ClaimInv
  <2>3. QED
    BY <1>2, <2>1, <2>2 DEF OnceInv
<1>7. QED
  BY <1>1, <1>2, <1>3, <1>5, <1>6

LEMMA OnceProceed ==
    ASSUME TypeOK, TypeOK', ClaimInv, PathInv, OnceInv, NEW s \in Session, Proceed(s)
    PROVE  OnceInv'
<1>1. CASE \/ CheckStop(s) \/ CheckSent(s) \/ CheckCall(s) \/ CheckCompose(s)
           \/ ComposeRaises(s) \/ (\E mv \in {"advance", "stop"} : ComposeHeld(s, mv))
           \/ ComposePark(s) \/ ComposeSend(s)
           \/ (\E mv \in {"advance", "stop"} : SendRefused(s, mv))
  BY <1>1, OnceDecide
     DEF CheckStop, CheckSent, CheckCall, CheckCompose, ComposeRaises, ComposeHeld,
         ComposePark, ComposeSend, SendRefused
<1>2. CASE SendDelivers(s) \/ \E mv \in {"advance", "stop"} : SendUndelivered(s, mv)
  BY <1>2, OncePush DEF SendDelivers, SendUndelivered
<1>3. CASE SendRaises(s)
  <2>1. CASE op[s] = "tick"
    BY <1>3, <2>1, OnceDecide DEF SendRaises
  <2>2. CASE op[s] # "tick"
    <3>1. op[s] = "approve" /\ aborts' = aborts
      BY <1>3, <2>2 DEF SendRaises, PathInv, Path
    <3>2. ~Steady'
      BY <3>1 DEF Steady, PathInv, Path, Decision
    <3>3. QED
      BY <3>2 DEF OnceInv
  <2>3. QED
    BY <2>1, <2>2
<1>4. CASE ReadTouch(s) \/ ReadTouchGone(s)
  <2>1. op[s] \in Decision
    BY <1>4 DEF ReadTouch, ReadTouchGone, PathInv, Path
  <2>2. Review
    BY <2>1 DEF PathInv, Path
  <2>3. QED
    BY <2>2 DEF OnceInv, Steady
<1>5. ASSUME NEW t \in Session, DeadlockVictim(s, t) PROVE OnceInv'
  <2>1. aborts' = aborts
    BY <1>5 DEF DeadlockVictim
  <2>2. ~Steady
    BY <1>5, NoVictims
  <2>3. QED
    BY <2>1, <2>2 DEF OnceInv, Steady
<1>6. QED
  BY <1>1, <1>2, <1>3, <1>4, <1>5, OnceCarryOn, OnceCommit DEF Proceed

LEMMA OnceStep == TypeOK /\ TypeOK' /\ ClaimInv /\ PathInv /\ OnceInv /\ [Next]_vars => OnceInv'
<1> SUFFICES ASSUME TypeOK, TypeOK', ClaimInv, PathInv, OnceInv, [Next]_vars PROVE OnceInv'
  OBVIOUS
<1>1. CASE Reply \/ DayPasses \/ UNCHANGED vars
  <2>1. UNCHANGED <<pc, op, at, lock, pushed, aborts>> /\ enr'.idx = enr.idx
        /\ enr'.status = enr.status
    BY <1>1 DEF Reply, DayPasses, vars, session, outside, TypeOK, Enrollments
  <2>2. QED
    BY <2>1 DEF OnceInv, Steady
<1>2. ASSUME NEW s \in Session, Abort(s) PROVE OnceInv'
  <2>1. aborts' # 0
    BY <1>2 DEF Abort, TypeOK
  <2>2. QED
    BY <2>1 DEF OnceInv, Steady
<1>3. QED
  BY <1>1, <1>2, OnceTick, OnceHuman, OnceProceed DEF Next

LEMMA OnceSafe == Spec => []OnceInv
BY OnceInit, OnceStep, PathSafe, ClaimInvSafe, TypeCorrect, PTL DEF Spec

\* Each step is touched once and the touches happen in the order of the steps,
\* however ticks, pauses and stops overlap.
THEOREM StepsOnceInOrder == Spec => []EachStepOnceInOrder
<1>1. OnceInv => OncePerStep
  BY DEF OnceInv, OncePerStep, Steady
<1>2. ASSUME ForwardOnly PROVE Spec => []TouchesInOrder
  <2>1. InStep => TouchesInOrder
    BY DEF InStep, TouchesInOrder
  <2>2. Spec => NeverTakenBack
    BY <1>2, NoWayBack
  <2>3. QED
    BY <2>1, <2>2, InStepUnlessTakenBack, PTL
<1>3. ASSUME ~ForwardOnly PROVE Spec => []TouchesInOrder
  <2>1. TouchesInOrder
    BY <1>3 DEF TouchesInOrder
  <2>2. QED
    BY <2>1, PTL
<1>4. Spec => []TouchesInOrder
  BY <1>2, <1>3
<1>5. OncePerStep /\ TouchesInOrder => EachStepOnceInOrder
  BY DEF EachStepOnceInOrder
<1>6. QED
  BY <1>1, <1>4, <1>5, OnceSafe, PTL

-----------------------------------------------------------------------------
(* The reply *)

\* Once a message has left late, nobody is composing or sending another.
ReplyInv == ~Review =>
    /\ ~replied => late = 0
    /\ late <= 1
    /\ late = 1 => \A s \in Session : pc[s] \notin {"compose", "send"}

LEMMA ReplyInit == Init => ReplyInv
BY DEF Init, ReplyInv

\* Nothing is sent, and nobody comes nearer to sending.
LEMMA ReplyQuiet ==
    ASSUME ReplyInv, NEW s \in Session, UNCHANGED <<replied, late>>, OthersStay(s),
           pc'[s] \in {"compose", "send"} => pc[s] \in {"compose", "send"} \/ ~replied
    PROVE  ReplyInv'
BY DEF ReplyInv, OthersStay

LEMMA ReplyDecide ==
    ASSUME TypeOK, ReplyInv, NEW s \in Session, NEW res, NEW mv, NEW label,
           Decide(s, res, mv, label), Quiet,
           label \in {"compose", "send"} => pc[s] \in {"compose", "send"} \/ ~replied
    PROVE  ReplyInv'
<1>1. OthersStay(s)
  BY DEF TypeOK, Decide, Goto, OthersStay
<1>2. pc'[s] = label /\ replied' = replied /\ late' = late
  BY DEF TypeOK, Decide, Goto, Quiet
<1>3. QED
  BY <1>1, <1>2, ReplyQuiet

\* The one message that may leave late: it had been composed before the reply.
LEMMA ReplyPush ==
    ASSUME TypeOK, ClaimInv, PathInv, ReplyInv, NEW s \in Session, pc[s] = "send", Push(s),
           NEW res, NEW mv, Decide(s, res, mv, "mark")
    PROVE  ReplyInv'
<1> SUFFICES ASSUME ~Review PROVE ReplyInv'
  BY DEF ReplyInv
<1>1. OthersStay(s)
  BY DEF TypeOK, Decide, Goto, OthersStay
<1>2. pc'[s] = "mark" /\ replied' = replied
  BY DEF TypeOK, Decide, Goto
<1>3. \A t \in Session \ {s} : pc[t] \notin {"compose", "send"}
  BY TicksOnly, AtWork
<1>4. late \in Nat /\ late <= 1 /\ late # 1
  BY DEF ReplyInv, TypeOK
<1>5. late = 0 /\ late' = IF replied THEN 1 ELSE 0
  BY <1>4 DEF Push
<1>6. \A t \in Session : pc'[t] \notin {"compose", "send"}
  BY <1>1, <1>2, <1>3 DEF OthersStay
<1>7. QED
  BY <1>2, <1>5, <1>6 DEF ReplyInv

LEMMA ReplyRollBack ==
    ASSUME TypeOK, ReplyInv, NEW s \in Session, RollBack(s)
    PROVE  ReplyInv'
<1>1. OthersStay(s) /\ pc'[s] = "idle"
  BY ForgetOnTrack DEF RollBack, Forget, Goto, TypeOK
<1>2. QED
  BY <1>1, ReplyQuiet DEF RollBack, outside

LEMMA ReplyProceed ==
    ASSUME TypeOK, ClaimInv, PathInv, ReplyInv, NEW s \in Session, Proceed(s)
    PROVE  ReplyInv'
<1>1. CASE CheckStop(s) \/ CheckSent(s) \/ CheckCall(s) \/ CheckCompose(s)
  BY <1>1, ReplyDecide DEF CheckStop, CheckSent, CheckCall, CheckCompose, MustStop
<1>2. CASE \/ ComposeRaises(s) \/ (\E mv \in {"advance", "stop"} : ComposeHeld(s, mv))
           \/ ComposePark(s) \/ ComposeSend(s)
           \/ (\E mv \in {"advance", "stop"} : SendRefused(s, mv))
  BY <1>2, ReplyDecide DEF ComposeRaises, ComposeHeld, ComposePark, ComposeSend, SendRefused
<1>3. CASE SendDelivers(s) \/ \E mv \in {"advance", "stop"} : SendUndelivered(s, mv)
  BY <1>3, ReplyPush DEF SendDelivers, SendUndelivered
<1>4. CASE SendRaises(s)
  BY <1>4, ReplyDecide, ReplyRollBack DEF SendRaises
<1>5. CASE ReadTouch(s)
  <2>1. Review
    BY <1>5 DEF ReadTouch, PathInv, Path
  <2>2. QED
    BY <2>1 DEF ReplyInv
<1>6. CASE ReadTouchGone(s) \/ \E t \in Session : DeadlockVictim(s, t)
  BY <1>6, ReplyRollBack DEF ReadTouchGone, DeadlockVictim
<1>7. CASE Mark(s) \/ MoveOn(s) \/ Control(s)
  <2>1. OthersStay(s)
    BY <1>7 DEF TypeOK, Mark, MoveOn, Control, Write, Goto, OthersStay
  <2>2. pc'[s] \in {"move", "commit"} /\ UNCHANGED <<replied, late>>
    BY <1>7 DEF TypeOK, Mark, MoveOn, Control, Goto, outside
  <2>3. QED
    BY <2>1, <2>2, ReplyQuiet
<1>8. CASE Commit(s)
  <2>1. OthersStay(s) /\ pc'[s] = "idle" /\ UNCHANGED <<replied, late>>
    BY <1>8, CommitFacts DEF Commit, Forget, Goto, TypeOK, outside
  <2>2. QED
    BY <2>1, ReplyQuiet
<1>9. QED
  BY <1>1, <1>2, <1>3, <1>4, <1>5, <1>6, <1>7, <1>8 DEF Proceed

LEMMA ReplyStep == TypeOK /\ ClaimInv /\ PathInv /\ ReplyInv /\ [Next]_vars => ReplyInv'
<1> SUFFICES ASSUME TypeOK, ClaimInv, PathInv, ReplyInv, [Next]_vars PROVE ReplyInv'
  OBVIOUS
<1>1. ASSUME NEW s \in Session, TickClaim(s) PROVE ReplyInv'
  <2>1. OthersStay(s)
    BY <1>1 DEF TypeOK, TickClaim, Goto, OthersStay
  <2>2. pc'[s] = "check" /\ UNCHANGED <<replied, late>>
    BY <1>1 DEF TypeOK, TickClaim, Goto, outside
  <2>3. QED
    BY <2>1, <2>2, ReplyQuiet
<1>2. ASSUME NEW s \in Session, Human(s) PROVE ReplyInv'
  <2>1. PICK name, k, label : Submit(s, name, k, label) /\ label \in {"read", "control"}
    BY <1>2 DEF Human, SubmitApprove, SubmitReject, SubmitPause, SubmitResume, SubmitStop
  <2>2. OthersStay(s)
    BY <2>1 DEF TypeOK, Submit, Goto, OthersStay
  <2>3. pc'[s] = label /\ UNCHANGED <<replied, late>>
    BY <2>1 DEF TypeOK, Submit, Goto
  <2>4. QED
    BY <2>1, <2>2, <2>3, ReplyQuiet
<1>3. ASSUME NEW s \in Session, Abort(s) PROVE ReplyInv'
  BY <1>3, ReplyRollBack DEF Abort
<1>4. CASE Reply
  BY <1>4 DEF Reply, session, outside, ReplyInv
<1>5. CASE DayPasses \/ UNCHANGED vars
  BY <1>5 DEF DayPasses, vars, session, outside, ReplyInv
<1>6. QED
  BY <1>1, <1>2, <1>3, <1>4, <1>5, ReplyProceed DEF Next

\* A reply stops a cadence that nobody reviews: after it one message may leave,
\* the one that was being composed.
THEOREM RepliesStop == Spec => []ReplyStops
<1>1. ReplyInv => ReplyStops
  BY DEF ReplyInv, ReplyStops
<1>2. QED
  BY <1>1, ReplyInit, ReplyStep, PathSafe, ClaimInvSafe, TypeCorrect, PTL DEF Spec

-----------------------------------------------------------------------------
(* What is over stays over *)

\* The enrollment has ended in st, and nobody is at work on it.
Over(st) == enr.status = st /\ \A s \in Session : pc[s] = "idle"

LEMMA OverStays ==
    ASSUME NEW st \in Terminal, ~Review
    PROVE  TypeOK /\ PathInv /\ Over(st) /\ [Next]_vars => Over(st)'
<1> SUFFICES ASSUME TypeOK, PathInv, Over(st), [Next]_vars PROVE Over(st)'
  OBVIOUS
<1>1. ASSUME NEW s \in Session PROVE ~TickClaim(s) /\ ~Abort(s)
  BY DEF Over, Terminal, TickClaim, Abort
<1>2. ASSUME NEW s \in Session PROVE ~Human(s)
  <2>1. \A k \in Steps : touch[k] # "awaiting_approval"
    BY DEF PathInv
  <2>2. ~SubmitPause(s) /\ ~SubmitResume(s) /\ ~SubmitStop(s)
    BY DEF Over, Terminal, SubmitPause, SubmitResume, SubmitStop
  <2>3. QED
    BY <2>1, <2>2 DEF Human, SubmitApprove, SubmitReject
<1>3. ASSUME NEW s \in Session PROVE ~Proceed(s)
  <2>1. pc[s] = "idle"
    BY DEF Over
  <2>2. ASSUME NEW t \in Session PROVE ~DeadlockVictim(s, t)
    BY <2>1 DEF DeadlockVictim, Wants
  <2>3. QED
    BY <2>1, <2>2 DEF Proceed, CheckStop, CheckSent, CheckCall, CheckCompose, ComposeRaises, ComposeHeld,
           ComposePark, ComposeSend, SendDelivers, SendUndelivered, SendRefused, SendRaises,
           ReadTouch, ReadTouchGone, Mark, MoveOn, Control, Commit
<1>4. CASE Reply
  BY <1>4 DEF Reply, session, Over
<1>5. CASE DayPasses
  BY <1>5 DEF DayPasses, session, Over, TypeOK, Enrollments
<1>6. CASE UNCHANGED vars
  BY <1>6 DEF vars, session, Over
<1>7. QED
  BY <1>1, <1>2, <1>3, <1>4, <1>5, <1>6 DEF Next

\* An enrollment that nobody reviews and that is over stays as it ended, once the
\* transactions that read it before are over too, whatever ticks, pauses and stops
\* come after (RestsForGood).
THEOREM EndIsForGood == ASSUME ~Review PROVE Spec => RestsForGood
<1>1. ASSUME NEW st \in Terminal PROVE Spec => [](Over(st) => [](enr.status = st))
  <2>1. TypeOK /\ PathInv /\ Over(st) /\ [Next]_vars => Over(st)'
    BY OverStays
  <2>2. Over(st) => enr.status = st
    BY DEF Over
  <2>3. QED
    BY <2>1, <2>2, PathSafe, TypeCorrect, PTL DEF Spec
<1>2. ASSUME NEW st \in Terminal
      PROVE  Spec => [](enr.status = st /\ (\A s \in Session : pc[s] = "idle") => [](enr.status = st))
  BY <1>1 DEF Over
<1>3. QED
  BY <1>2 DEF RestsForGood
=============================================================================

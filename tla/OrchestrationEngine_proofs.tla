--------------------- MODULE OrchestrationEngine_proofs ---------------------
(***************************************************************************)
(* Theorems about OrchestrationEngine for every valid plan, every set of   *)
(* sessions and every bound; the last is about the runs of MCEngine in     *)
(* which requests come one at a time.                                      *)
(***************************************************************************)
EXTENDS MCEngine, FiniteSetTheorems, TLAPS

-----------------------------------------------------------------------------
(* What the helpers return *)

LEMMA StepsAreNat == /\ Steps \subseteq Nat
                     /\ 0 \in Steps
BY PlanAssumption DEF ValidPlan, Steps

LEMMA FreshType == Fresh \in Rows
BY DEF Fresh, Rows, RunStatus, StepStatus, GateStatus

LEMMA CascadeSkipType ==
    ASSUME NEW rows \in Rows, NEW i \in Steps
    PROVE  CascadeSkip(rows, i) \in Rows
BY DEF CascadeSkip, Rows, StepStatus

LEMMA FinalizedType ==
    ASSUME NEW rows \in Rows
    PROVE  Finalized(rows) \in Rows
BY DEF Finalized, Rows, RunStatus

LEMMA ParkedType ==
    ASSUME NEW rows \in Rows, NEW i \in Steps
    PROVE  Parked(rows, i) \in Rows
BY DEF Parked, Rows, RunStatus, StepStatus, GateStatus

LEMMA DecidedType ==
    ASSUME NEW rows \in Rows, NEW i \in Steps, NEW verdict \in GateStatus
    PROVE  Decided(rows, i, verdict) \in Rows
BY DEF Decided, Rows

LEMMA CancelledType ==
    ASSUME NEW rows \in Rows
    PROVE  CancelledRows(rows) \in Rows
BY DEF CancelledRows, Rows, RunStatus, StepStatus, GateStatus

LEMMA MergeType ==
    ASSUME NEW base \in Rows, NEW rows \in Rows, NEW cells
    PROVE  Merge(base, rows, cells) \in Rows
BY DEF Merge, Rows

LEMMA ChangedType ==
    ASSUME NEW old \in Rows, NEW new \in Rows
    PROVE  Changed(old, new) \subseteq Cells
BY DEF Changed, Cells

LEMMA StepSetType ==
    ASSUME NEW rows \in Rows, NEW i \in Steps, NEW st \in StepStatus
    PROVE  [rows EXCEPT !.step[i] = st] \in Rows
BY DEF Rows

\* A flush of well-typed rows keeps the three variables it writes well typed.
LEMMA FlushType ==
    ASSUME TypeOK, NEW s \in Session, NEW rows \in Rows,
           NEW also \in SUBSET Cells, Flush(s, rows, also)
    PROVE  /\ lock' \in Session \cup {NoSession}
           /\ mem' \in [Session -> Rows]
           /\ dirty' \in [Session -> SUBSET Cells]
<1>1. Changed(mem[s], rows) \subseteq Cells
  BY ChangedType DEF TypeOK
<1>2. QED
  BY <1>1 DEF TypeOK, Flush

LEMMA ResetType ==
    ASSUME TypeOK, NEW s \in Session, Reset(s)
    PROVE  /\ pc' \in [Session -> {"idle", "read", "ready", "drive", "run",
                                   "final", "commit"}]
           /\ op' \in [Session -> {"none", "create", "execute", "approve",
                                   "reject", "redraft", "cancel"}]
           /\ at' \in [Session -> Steps]
           /\ mem' \in [Session -> Rows]
           /\ dirty' \in [Session -> SUBSET Cells]
           /\ attempt' \in [Session -> 0 .. MaxAttempts]
           /\ edit' \in [Session -> Nat]
BY FreshType, StepsAreNat, BoundAssumption DEF TypeOK, Reset, Goto

-----------------------------------------------------------------------------
(* Type correctness *)

LEMMA InitType == Init => TypeOK
BY FreshType, StepsAreNat, BoundAssumption DEF Init, TypeOK

LEMMA SubmitType ==
    ASSUME TypeOK, NEW s \in Session, NEW i \in Steps,
           NEW name \in {"create", "execute", "approve", "reject", "redraft", "cancel"},
           NEW label \in {"read", "ready"}, Submit(s, name, i, label),
           edit' \in [Session -> Nat], drafts' \in Nat,
           granted' \in [Steps -> SUBSET Nat]
    PROVE  TypeOK'
<1>1. requests' \in 0 .. MaxRequests
  BY BoundAssumption DEF TypeOK, Submit
<1>2. pc' \in [Session -> {"idle", "read", "ready", "drive", "run", "final", "commit"}]
  BY DEF TypeOK, Submit, Goto
<1>3. /\ op' \in [Session -> {"none", "create", "execute", "approve", "reject",
                              "redraft", "cancel"}]
      /\ at' \in [Session -> Steps]
      /\ mem' \in [Session -> Rows]
  BY DEF TypeOK, Submit
<1>4. QED
  BY <1>1, <1>2, <1>3 DEF TypeOK, Submit

LEMMA ArriveType ==
    ASSUME TypeOK, NEW s \in Session, Arrive(s)
    PROVE  TypeOK'
<1>1. CASE SubmitCreate(s)
  BY <1>1, SubmitType, StepsAreNat DEF SubmitCreate, TypeOK
<1>2. CASE SubmitExecute(s)
  BY <1>2, SubmitType, StepsAreNat DEF SubmitExecute, TypeOK
<1>3. ASSUME NEW i \in Steps, NEW edited \in BOOLEAN, SubmitApprove(s, i, edited)
      PROVE  TypeOK'
  <2>1. drafts' \in Nat /\ edit' \in [Session -> Nat]
    BY <1>3 DEF SubmitApprove, TypeOK
  <2>2. db.shown[i] \in Nat
    BY DEF TypeOK, Rows
  <2>3. granted' \in [Steps -> SUBSET Nat]
    BY <1>3, <2>2 DEF SubmitApprove, TypeOK
  <2>4. QED
    BY <1>3, <2>1, <2>3, SubmitType DEF SubmitApprove
<1>4. ASSUME NEW i \in Steps, SubmitReject(s, i) PROVE TypeOK'
  BY <1>4, SubmitType DEF SubmitReject, TypeOK
<1>5. ASSUME NEW i \in Steps, SubmitRedraft(s, i) PROVE TypeOK'
  BY <1>5, SubmitType DEF SubmitRedraft, TypeOK
<1>6. CASE SubmitCancel(s)
  BY <1>6, SubmitType, StepsAreNat DEF SubmitCancel, TypeOK
<1>7. QED
  BY <1>1, <1>2, <1>3, <1>4, <1>5, <1>6 DEF Arrive

LEMMA RecordType ==
    ASSUME TypeOK, NEW i \in Steps, NEW outcome, NEW draft \in Nat,
           Record(i, outcome, draft)
    PROVE  pushed' \in [Steps -> Nat] /\ content' \in [Steps -> SUBSET Nat]
BY DEF TypeOK, Record

LEMMA ProceedType ==
    ASSUME TypeOK, NEW s \in Session, Proceed(s)
    PROVE  TypeOK'
<1>0. mem[s] \in Rows /\ at[s] \in Steps /\ db \in Rows
  BY DEF TypeOK
<1>1. CASE ReadRest(s)
  <2>1. [db EXCEPT !.run = mem[s].run, !.draft = mem[s].draft] \in Rows
    BY <1>0 DEF Rows
  <2>2. [db EXCEPT !.gate[at[s]] = mem[s].gate[at[s]],
                   !.shown[at[s]] = mem[s].shown[at[s]]] \in Rows
    BY <1>0 DEF Rows
  <2>3. mem' \in [Session -> Rows]
    BY <1>1, <2>1, <2>2 DEF ReadRest, TypeOK
  <2>4. QED
    BY <1>1, <2>3 DEF ReadRest, TypeOK, Goto, outside
<1>2. CASE ApplyCreate(s)
  <2>1. [Fresh EXCEPT !.run = "running"] \in Rows
    BY FreshType DEF Rows, RunStatus
  <2>2. /\ lock' \in Session \cup {NoSession}
        /\ mem' \in [Session -> Rows]
        /\ dirty' \in [Session -> SUBSET Cells]
    BY <1>2, <2>1, FlushType DEF ApplyCreate
  <2>3. QED
    BY <1>2, <2>2 DEF ApplyCreate, TypeOK, Goto, outside
<1>3. CASE CreateConflict(s)
  BY <1>3, ResetType DEF CreateConflict, TypeOK, outside
<1>4. CASE ApplyExecute(s)
  <2>1. [db EXCEPT !.run = "running", !.draft = mem[s].draft] \in Rows
    BY <1>0 DEF Rows, RunStatus
  <2>2. mem' \in [Session -> Rows]
    BY <1>4, <2>1 DEF ApplyExecute, TypeOK
  <2>3. RunCell \in Cells
    BY DEF Cells
  <2>4. lock' \in Session \cup {NoSession} /\ dirty' \in [Session -> SUBSET Cells]
    BY <1>4, <2>3 DEF ApplyExecute, TypeOK
  <2>5. QED
    BY <1>4, <2>2, <2>4 DEF ApplyExecute, TypeOK, Goto, outside
<1>5. CASE ApplyApprove(s)
  <2> DEFINE decided == Decided(mem[s], at[s], "approved")
             rows == [decided EXCEPT !.draft = IF edit[s] # 0 THEN edit[s] ELSE @,
                                     !.run = "running",
                                     !.step[at[s]] = "running"]
  <2>1. decided \in Rows
    BY <1>0, DecidedType DEF GateStatus
  <2>2. edit[s] \in Nat
    BY DEF TypeOK
  <2>3. rows \in Rows
    BY <2>1, <2>2 DEF Rows, RunStatus, StepStatus
  <2>4. /\ lock' \in Session \cup {NoSession}
        /\ mem' \in [Session -> Rows]
        /\ dirty' \in [Session -> SUBSET Cells]
    BY <1>5, <2>3, FlushType DEF ApplyApprove
  <2>5. attempt' \in [Session -> 0 .. MaxAttempts]
    BY <1>5, BoundAssumption DEF ApplyApprove, TypeOK
  <2>6. QED
    BY <1>5, <2>4, <2>5 DEF ApplyApprove, TypeOK, Goto, outside
<1>6. CASE ApplyReject(s)
  <2> DEFINE decided == Decided(mem[s], at[s], "rejected")
             rows == [decided EXCEPT !.step[at[s]] = "rejected"]
  <2>1. decided \in Rows
    BY <1>0, DecidedType DEF GateStatus
  <2>2. CascadeSkip(rows, at[s]) \in Rows
    BY <1>0, <2>1, StepSetType, CascadeSkipType DEF StepStatus
  <2>3. /\ lock' \in Session \cup {NoSession}
        /\ mem' \in [Session -> Rows]
        /\ dirty' \in [Session -> SUBSET Cells]
    BY <1>6, <2>2, FlushType DEF ApplyReject
  <2>4. QED
    BY <1>6, <2>3 DEF ApplyReject, TypeOK, Goto, outside
<1>7. CASE ApplyRedraft(s)
  <2>1. drafts + 1 \in Nat
    BY DEF TypeOK
  <2>2. [mem[s] EXCEPT !.draft = drafts + 1, !.shown[at[s]] = drafts + 1] \in Rows
    BY <1>0, <2>1 DEF Rows
  <2>3. /\ lock' \in Session \cup {NoSession}
        /\ mem' \in [Session -> Rows]
        /\ dirty' \in [Session -> SUBSET Cells]
    BY <1>7, <2>2, FlushType DEF ApplyRedraft
  <2>4. QED
    BY <1>7, <2>1, <2>3 DEF ApplyRedraft, TypeOK, Goto, outside
<1>8. CASE ApplyCancel(s)
  <2>1. /\ lock' \in Session \cup {NoSession}
        /\ mem' \in [Session -> Rows]
        /\ dirty' \in [Session -> SUBSET Cells]
    BY <1>8, <1>0, CancelledType, FlushType DEF ApplyCancel
  <2>2. QED
    BY <1>8, <2>1 DEF ApplyCancel, TypeOK, Goto, outside
<1>9. CASE DriveNothingLeft(s)
  BY <1>9 DEF DriveNothingLeft, TypeOK, Goto, outside
<1>10. ASSUME NEW i \in Steps, DrivePark(s, i) PROVE TypeOK'
  <2>1. /\ lock' \in Session \cup {NoSession}
        /\ mem' \in [Session -> Rows]
        /\ dirty' \in [Session -> SUBSET Cells]
    BY <1>10, <1>0, ParkedType, FlushType DEF DrivePark
  <2>2. QED
    BY <1>10, <2>1 DEF DrivePark, TypeOK, Goto, outside
<1>11. ASSUME NEW i \in Steps, DriveStart(s, i) PROVE TypeOK'
  <2>1. /\ lock' \in Session \cup {NoSession}
        /\ mem' \in [Session -> Rows]
        /\ dirty' \in [Session -> SUBSET Cells]
    <3>1. [mem[s] EXCEPT !.step[i] = "running"] \in Rows
      BY <1>0, StepSetType DEF StepStatus
    <3>2. Flush(s, [mem[s] EXCEPT !.step[i] = "running"], {})
      BY <1>11 DEF DriveStart
    <3>3. QED
      BY <3>1, <3>2, FlushType
  <2>2. attempt' \in [Session -> 0 .. MaxAttempts]
    BY <1>11, BoundAssumption DEF DriveStart, TypeOK
  <2>3. QED
    BY <1>11, <2>1, <2>2 DEF DriveStart, TypeOK, Goto, outside
<1>12. ASSUME NEW o, AttemptSucceeds(s, o) PROVE TypeOK'
  <2> DEFINE rows == [mem[s] EXCEPT !.step[at[s]] = "completed",
                             !.draft = IF at[s] = Composer THEN drafts + 1 ELSE @]
  <2>1. drafts' \in Nat /\ mem[s].draft \in Nat /\ drafts + 1 \in Nat
    BY <1>12, <1>0 DEF AttemptSucceeds, TypeOK, Rows
  <2>2. rows \in Rows
    BY <1>0, <2>1 DEF Rows, StepStatus
  <2>3. {DraftCell} \in SUBSET Cells
    BY DEF Cells
  <2>4. /\ lock' \in Session \cup {NoSession}
        /\ mem' \in [Session -> Rows]
        /\ dirty' \in [Session -> SUBSET Cells]
    BY <1>12, <2>2, <2>3, FlushType DEF AttemptSucceeds
  <2>5. pushed' \in [Steps -> Nat] /\ content' \in [Steps -> SUBSET Nat]
    BY <1>12, <1>0, <2>1, RecordType DEF AttemptSucceeds
  <2>6. QED
    BY <1>12, <2>1, <2>4, <2>5 DEF AttemptSucceeds, TypeOK, Goto
<1>13. ASSUME NEW o, AttemptRetries(s, o) PROVE TypeOK'
  <2>1. mem[s].draft \in Nat
    BY <1>0 DEF Rows
  <2>2. pushed' \in [Steps -> Nat] /\ content' \in [Steps -> SUBSET Nat]
    BY <1>13, <1>0, <2>1, RecordType DEF AttemptRetries
  <2>3. attempt' \in [Session -> 0 .. MaxAttempts]
    BY <1>13, BoundAssumption DEF AttemptRetries, TypeOK
  <2>4. QED
    BY <1>13, <2>2, <2>3 DEF AttemptRetries, TypeOK
<1>14. ASSUME NEW o, AttemptFails(s, o) PROVE TypeOK'
  <2>1. mem[s].draft \in Nat
    BY <1>0 DEF Rows
  <2>2. pushed' \in [Steps -> Nat] /\ content' \in [Steps -> SUBSET Nat]
    BY <1>14, <1>0, <2>1, RecordType DEF AttemptFails
  <2>3. CascadeSkip([mem[s] EXCEPT !.step[at[s]] = "failed"], at[s]) \in Rows
    BY <1>0, StepSetType, CascadeSkipType DEF StepStatus
  <2>4. /\ lock' \in Session \cup {NoSession}
        /\ mem' \in [Session -> Rows]
        /\ dirty' \in [Session -> SUBSET Cells]
    BY <1>14, <2>3, FlushType DEF AttemptFails
  <2>5. QED
    BY <1>14, <2>2, <2>4 DEF AttemptFails, TypeOK, Goto
<1>15. CASE Finalize(s)
  <2>1. CASE Finalized(mem[s]) = mem[s]
    BY <1>15, <2>1 DEF Finalize, TypeOK, Goto, outside
  <2>2. CASE Finalized(mem[s]) # mem[s]
    <3>1. Flush(s, Finalized(mem[s]), {})
      BY <1>15, <2>2 DEF Finalize
    <3>2. /\ lock' \in Session \cup {NoSession}
          /\ mem' \in [Session -> Rows]
          /\ dirty' \in [Session -> SUBSET Cells]
      BY <1>0, <3>1, FinalizedType, FlushType
    <3>3. QED
      BY <1>15, <3>2 DEF Finalize, TypeOK, Goto, outside
  <2>3. QED
    BY <2>1, <2>2
<1>16. CASE Commit(s)
  <2>1. db' \in Rows
    BY <1>16, <1>0, MergeType DEF Commit
  <2>2. QED
    BY <1>16, <2>1, ResetType DEF Commit, TypeOK, outside
<1>17. QED
  BY <1>1, <1>2, <1>3, <1>4, <1>5, <1>6, <1>7, <1>8, <1>9, <1>10, <1>11,
     <1>12, <1>13, <1>14, <1>15, <1>16 DEF Proceed

LEMMA AbortType ==
    ASSUME TypeOK, NEW s \in Session, Abort(s)
    PROVE  TypeOK'
BY ResetType, BoundAssumption DEF Abort, TypeOK, outside

\* Every reachable state is well typed: the committed rows, and every copy a
\* session works on, hold the statuses of models/orchestration.py only.
THEOREM TypeCorrect == Spec => []TypeOK
<1>1. TypeOK /\ [Next]_vars => TypeOK'
  <2>1. TypeOK /\ Next => TypeOK'
    BY ArriveType, ProceedType, AbortType DEF Next
  <2>2. TypeOK /\ UNCHANGED vars => TypeOK'
    BY DEF TypeOK, vars, session, outside
  <2>3. QED
    BY <2>1, <2>2
<1>2. QED
  BY InitType, <1>1, PTL DEF Spec

-----------------------------------------------------------------------------
(* The gate *)

\* The induction hypothesis behind GateNeverBypassed.  Only gated steps ever
\* have an approval, in the committed rows and in every copy; a session that
\* is approving works on a gated step that a human asked to send; and so does
\* a session that is running a gated step.
GateInv ==
    /\ GateNeverBypassed
    /\ \A i \in Steps \ Gated : db.gate[i] = "none"
    /\ \A s \in Session : \A i \in Steps \ Gated : mem[s].gate[i] = "none"
    /\ \A s \in Session : pc[s] \in {"read", "ready"} /\ op[s] \in {"approve", "reject"}
                            => at[s] \in Gated
    /\ \A s \in Session : pc[s] \in {"read", "ready"} /\ op[s] = "approve"
                            => granted[at[s]] # {}
    /\ \A s \in Session : pc[s] = "run" /\ at[s] \in Gated => granted[at[s]] # {}

LEMMA GateInit == Init => GateInv
BY DEF Init, GateInv, GateNeverBypassed, Fresh

\* A step that touches neither the asking nor the pushing, nor any approval,
\* and that leaves no session newly approving or newly running a gated step.
LEMMA GateQuiet ==
    ASSUME TypeOK, GateInv, NEW s \in Session,
           UNCHANGED <<db, granted, pushed>>,
           \A i \in Steps \ Gated : mem'[s].gate[i] = "none",
           \A z \in Session \ {s} : /\ mem'[z] = mem[z] /\ pc'[z] = pc[z]
                                    /\ op'[z] = op[z] /\ at'[z] = at[z],
           pc'[s] \notin {"read", "ready"},
           pc'[s] = "run" => at'[s] \notin Gated \/ granted[at'[s]] # {}
    PROVE  GateInv'
<1>1. \A i \in Steps : pushed'[i] > 0 => i \in Gated /\ granted'[i] # {}
  BY DEF GateInv, GateNeverBypassed
<1>2. \A z \in Session : \A i \in Steps \ Gated : mem'[z].gate[i] = "none"
  BY DEF GateInv
<1>3. QED
  BY <1>1, <1>2 DEF GateInv, GateNeverBypassed

LEMMA GateSubmit ==
    ASSUME TypeOK, GateInv, NEW s \in Session, NEW i \in Steps, NEW name,
           NEW label, Submit(s, name, i, label),
           \A j \in Steps : granted[j] \subseteq granted'[j],
           name \in {"approve", "reject"} => i \in Gated,
           name = "approve" => granted'[i] # {},
           label \in {"read", "ready"}
    PROVE  GateInv'
<1>1. /\ pc' = [pc EXCEPT ![s] = label]
      /\ op' = [op EXCEPT ![s] = name]
      /\ at' = [at EXCEPT ![s] = i]
      /\ mem' = [mem EXCEPT ![s] = db]
      /\ db' = db /\ pushed' = pushed
  BY DEF Submit, Goto
<1>2. \A j \in Steps : pushed'[j] > 0 => j \in Gated /\ granted'[j] # {}
  BY <1>1 DEF GateInv, GateNeverBypassed
<1>3. \A z \in Session : \A j \in Steps \ Gated : mem'[z].gate[j] = "none"
  BY <1>1 DEF GateInv, TypeOK
<1>4. \A z \in Session : pc'[z] \in {"read", "ready"} /\ op'[z] \in {"approve", "reject"}
                            => at'[z] \in Gated
  BY <1>1 DEF GateInv, TypeOK
<1>5. \A z \in Session : at[z] \in Steps
  BY DEF TypeOK
<1>6. \A z \in Session : pc'[z] \in {"read", "ready"} /\ op'[z] = "approve"
                            => granted'[at'[z]] # {}
  <2> SUFFICES ASSUME NEW z \in Session, pc'[z] \in {"read", "ready"}, op'[z] = "approve"
               PROVE  granted'[at'[z]] # {}
    OBVIOUS
  <2>1. CASE z = s
    BY <1>1, <2>1 DEF TypeOK
  <2>2. CASE z # s
    <3>1. granted[at[z]] # {} /\ at'[z] = at[z]
      BY <1>1, <2>2 DEF GateInv, TypeOK
    <3>2. QED
      BY <3>1, <1>5
  <2>3. QED
    BY <2>1, <2>2
<1>7. \A z \in Session : pc'[z] = "run" /\ at'[z] \in Gated => granted'[at'[z]] # {}
  <2> SUFFICES ASSUME NEW z \in Session, pc'[z] = "run", at'[z] \in Gated
               PROVE  granted'[at'[z]] # {}
    OBVIOUS
  <2>1. z # s /\ pc[z] = "run" /\ at'[z] = at[z]
    BY <1>1 DEF TypeOK
  <2>2. granted[at[z]] # {}
    BY <2>1 DEF GateInv
  <2>3. QED
    BY <2>1, <2>2, <1>5
<1>8. QED
  BY <1>1, <1>2, <1>3, <1>4, <1>6, <1>7 DEF GateInv, GateNeverBypassed

LEMMA GateArrive ==
    ASSUME TypeOK, GateInv, NEW s \in Session, Arrive(s)
    PROVE  GateInv'
<1>1. CASE SubmitCreate(s)
  BY <1>1, GateSubmit, StepsAreNat DEF SubmitCreate
<1>2. CASE SubmitExecute(s)
  BY <1>2, GateSubmit, StepsAreNat DEF SubmitExecute
<1>3. ASSUME NEW i \in Steps, NEW edited \in BOOLEAN, SubmitApprove(s, i, edited)
      PROVE  GateInv'
  <2>1. i \in Gated
    BY <1>3 DEF SubmitApprove, GateInv
  <2>2. granted'[i] # {} /\ \A j \in Steps : granted[j] \subseteq granted'[j]
    BY <1>3 DEF SubmitApprove, TypeOK
  <2>3. QED
    BY <1>3, <2>1, <2>2, GateSubmit DEF SubmitApprove
<1>4. ASSUME NEW i \in Steps, SubmitReject(s, i) PROVE GateInv'
  <2>1. i \in Gated
    BY <1>4 DEF SubmitReject, GateInv
  <2>2. QED
    BY <1>4, <2>1, GateSubmit DEF SubmitReject
<1>5. ASSUME NEW i \in Steps, SubmitRedraft(s, i) PROVE GateInv'
  BY <1>5, GateSubmit DEF SubmitRedraft
<1>6. CASE SubmitCancel(s)
  BY <1>6, GateSubmit, StepsAreNat DEF SubmitCancel
<1>7. QED
  BY <1>1, <1>2, <1>3, <1>4, <1>5, <1>6 DEF Arrive

\* A session that ends leaves nothing behind but the rows it commits.
LEMMA GateReset ==
    ASSUME TypeOK, GateInv, NEW s \in Session, Reset(s),
           \A i \in Steps \ Gated : db'.gate[i] = "none",
           UNCHANGED <<granted, pushed>>
    PROVE  GateInv'
<1>1. /\ pc' = [pc EXCEPT ![s] = "idle"]
      /\ op' = [op EXCEPT ![s] = "none"]
      /\ at' = [at EXCEPT ![s] = 0]
      /\ mem' = [mem EXCEPT ![s] = Fresh]
  BY DEF Reset, Goto
<1>2. \A z \in Session : \A j \in Steps \ Gated : mem'[z].gate[j] = "none"
  BY <1>1 DEF GateInv, TypeOK, Fresh
<1>3. \A z \in Session : pc'[z] # "idle" => /\ pc'[z] = pc[z] /\ op'[z] = op[z]
                                            /\ at'[z] = at[z]
  BY <1>1 DEF TypeOK
<1>4. QED
  BY <1>1, <1>2, <1>3 DEF GateInv, GateNeverBypassed

\* A push is made by a session that runs a gated step, so it was asked for.
LEMMA GatePush ==
    ASSUME TypeOK, GateInv, NEW s \in Session, pc[s] = "run", NEW outcome,
           outcome \in Outcomes(at[s], mem[s]),
           Record(at[s], outcome, mem[s].draft), granted' = granted
    PROVE  \/ pushed' = pushed
           \/ /\ at[s] \in Gated /\ granted[at[s]] # {}
              /\ pushed' = [pushed EXCEPT ![at[s]] = @ + 1]
<1>1. CASE outcome \in {"pushed", "pushed_undelivered"}
  <2>1. at[s] \in Gated
    BY <1>1 DEF Outcomes
  <2>2. QED
    BY <1>1, <2>1 DEF Record, GateInv
<1>2. CASE outcome \notin {"pushed", "pushed_undelivered"}
  BY <1>2 DEF Record
<1>3. QED
  BY <1>1, <1>2

LEMMA GateAttempt ==
    ASSUME TypeOK, GateInv, NEW s \in Session, pc[s] = "run", NEW outcome,
           outcome \in Outcomes(at[s], mem[s]),
           Record(at[s], outcome, mem[s].draft),
           UNCHANGED <<db, op, at, granted>>,
           \A i \in Steps \ Gated : mem'[s].gate[i] = "none",
           \A z \in Session \ {s} : mem'[z] = mem[z] /\ pc'[z] = pc[z],
           pc'[s] \notin {"read", "ready"}
    PROVE  GateInv'
<1>1. at[s] \in Steps /\ pushed \in [Steps -> Nat]
  BY DEF TypeOK
<1>2. \A i \in Steps : pushed'[i] > 0 => i \in Gated /\ granted[i] # {}
  <2>1. CASE pushed' = pushed
    BY <2>1 DEF GateInv, GateNeverBypassed
  <2>2. CASE /\ at[s] \in Gated /\ granted[at[s]] # {}
             /\ pushed' = [pushed EXCEPT ![at[s]] = @ + 1]
    BY <2>2, <1>1 DEF GateInv, GateNeverBypassed
  <2>3. QED
    BY <2>1, <2>2, GatePush
<1>3. \A z \in Session : \A j \in Steps \ Gated : mem'[z].gate[j] = "none"
  BY DEF GateInv
<1>4. QED
  BY <1>2, <1>3 DEF GateInv, GateNeverBypassed

LEMMA GateProceed ==
    ASSUME TypeOK, GateInv, NEW s \in Session, Proceed(s)
    PROVE  GateInv'
<1> DEFINE Closed(rows) == \A i \in Steps \ Gated : rows.gate[i] = "none"
<1>0. mem[s] \in Rows /\ at[s] \in Steps /\ db \in Rows /\ Closed(mem[s]) /\ Closed(db)
  BY DEF TypeOK, GateInv
<1>1. CASE ReadRest(s)
  <2>1. Closed([db EXCEPT !.run = mem[s].run, !.draft = mem[s].draft])
    BY <1>0 DEF Rows
  <2>2. Closed([db EXCEPT !.gate[at[s]] = mem[s].gate[at[s]],
                          !.shown[at[s]] = mem[s].shown[at[s]]])
    BY <1>0 DEF Rows
  <2>3. \A z \in Session : Closed(mem'[z])
    BY <1>1, <2>1, <2>2 DEF ReadRest, TypeOK, GateInv
  <2>4. /\ pc[s] = "read" /\ pc' = [pc EXCEPT ![s] = "ready"]
        /\ UNCHANGED <<db, op, at, granted, pushed>>
    BY <1>1 DEF ReadRest, Goto, outside
  <2>5. QED
    BY <2>3, <2>4 DEF GateInv, GateNeverBypassed, TypeOK
<1>2. CASE ApplyCreate(s)
  <2>1. /\ mem' = [mem EXCEPT ![s] = [Fresh EXCEPT !.run = "running"]]
        /\ pc' = [pc EXCEPT ![s] = "drive"]
        /\ UNCHANGED <<db, op, at, granted, pushed>>
    BY <1>2 DEF ApplyCreate, Flush, Goto, outside
  <2>2. Closed(mem'[s])
    BY <2>1 DEF Fresh, TypeOK
  <2>3. QED
    BY <2>1, <2>2, GateQuiet DEF TypeOK
<1>3. CASE CreateConflict(s)
  BY <1>3, <1>0, GateReset DEF CreateConflict, outside
<1>4. CASE ApplyExecute(s)
  <2>1. /\ mem' = [mem EXCEPT ![s] = [db EXCEPT !.run = "running", !.draft = mem[s].draft]]
        /\ pc' = [pc EXCEPT ![s] = "drive"]
        /\ UNCHANGED <<db, op, at, granted, pushed>>
    BY <1>4 DEF ApplyExecute, Goto, outside
  <2>2. Closed(mem'[s])
    BY <2>1, <1>0 DEF Rows, TypeOK
  <2>3. QED
    BY <2>1, <2>2, GateQuiet DEF TypeOK
<1>5. CASE ApplyApprove(s)
  <2> DEFINE rows == [Decided(mem[s], at[s], "approved") EXCEPT
                        !.draft = IF edit[s] # 0 THEN edit[s] ELSE @,
                        !.run = "running", !.step[at[s]] = "running"]
  <2>1. /\ mem' = [mem EXCEPT ![s] = rows]
        /\ pc' = [pc EXCEPT ![s] = "run"]
        /\ UNCHANGED <<db, op, at, granted, pushed>>
    BY <1>5 DEF ApplyApprove, Flush, Goto, outside
  <2>2. at[s] \in Gated /\ granted[at[s]] # {}
    BY <1>5 DEF ApplyApprove, GateInv
  <2>3. Closed(rows)
    BY <1>0, <2>2 DEF Decided, Rows
  <2>4. Closed(mem'[s])
    BY <2>1, <2>3 DEF TypeOK
  <2>5. pc'[s] = "run" /\ at'[s] = at[s]
    BY <2>1 DEF TypeOK
  <2>6. \A z \in Session \ {s} : /\ mem'[z] = mem[z] /\ pc'[z] = pc[z]
                                 /\ op'[z] = op[z] /\ at'[z] = at[z]
    BY <2>1 DEF TypeOK
  <2>7. QED
    BY <2>1, <2>2, <2>4, <2>5, <2>6, GateQuiet
<1>6. CASE ApplyReject(s)
  <2> DEFINE rows == CascadeSkip([Decided(mem[s], at[s], "rejected") EXCEPT
                                    !.step[at[s]] = "rejected"], at[s])
  <2>1. /\ mem' = [mem EXCEPT ![s] = rows]
        /\ pc' = [pc EXCEPT ![s] = "final"]
        /\ UNCHANGED <<db, op, at, granted, pushed>>
    BY <1>6 DEF ApplyReject, Flush, Goto, outside
  <2>2. at[s] \in Gated
    BY <1>6 DEF ApplyReject, GateInv
  <2>3. Closed(rows)
    BY <1>0, <2>2 DEF Decided, CascadeSkip, Rows
  <2>4. QED
    BY <2>1, <2>3, GateQuiet DEF TypeOK
<1>7. CASE ApplyRedraft(s)
  <2> DEFINE rows == [mem[s] EXCEPT !.draft = drafts + 1, !.shown[at[s]] = drafts + 1]
  <2>1. /\ mem' = [mem EXCEPT ![s] = rows]
        /\ pc' = [pc EXCEPT ![s] = "commit"]
        /\ UNCHANGED <<db, op, at, granted, pushed>>
    BY <1>7 DEF ApplyRedraft, Flush, Goto, outside
  <2>2. Closed(rows)
    BY <1>0 DEF Rows
  <2>3. QED
    BY <2>1, <2>2, GateQuiet DEF TypeOK
<1>8. CASE ApplyCancel(s)
  <2>1. /\ mem' = [mem EXCEPT ![s] = CancelledRows(mem[s])]
        /\ pc' = [pc EXCEPT ![s] = "commit"]
        /\ UNCHANGED <<db, op, at, granted, pushed>>
    BY <1>8 DEF ApplyCancel, Flush, Goto, outside
  <2>2. Closed(CancelledRows(mem[s]))
    BY <1>0 DEF CancelledRows, Rows
  <2>3. QED
    BY <2>1, <2>2, GateQuiet DEF TypeOK
<1>9. CASE DriveNothingLeft(s)
  <2>1. /\ mem' = mem
        /\ pc' = [pc EXCEPT ![s] = "final"]
        /\ UNCHANGED <<db, op, at, granted, pushed>>
    BY <1>9 DEF DriveNothingLeft, Goto, outside
  <2>2. QED
    BY <1>0, <2>1, GateQuiet DEF TypeOK
<1>10. ASSUME NEW i \in Steps, DrivePark(s, i) PROVE GateInv'
  <2>1. /\ mem' = [mem EXCEPT ![s] = Parked(mem[s], i)]
        /\ pc' = [pc EXCEPT ![s] = "commit"]
        /\ i \in Gated
        /\ UNCHANGED <<db, op, at, granted, pushed>>
    BY <1>10 DEF DrivePark, Flush, Goto, outside
  <2>2. Closed(Parked(mem[s], i))
    BY <1>0, <2>1 DEF Parked, Rows
  <2>3. QED
    BY <2>1, <2>2, GateQuiet DEF TypeOK
<1>11. ASSUME NEW i \in Steps, DriveStart(s, i) PROVE GateInv'
  <2>1. /\ mem' = [mem EXCEPT ![s] = [mem[s] EXCEPT !.step[i] = "running"]]
        /\ pc' = [pc EXCEPT ![s] = "run"]
        /\ at' = [at EXCEPT ![s] = i]
        /\ i \notin Gated
        /\ UNCHANGED <<db, op, granted, pushed>>
    BY <1>11 DEF DriveStart, Flush, Goto, outside
  <2>2. Closed([mem[s] EXCEPT !.step[i] = "running"])
    BY <1>0 DEF Rows
  <2>3. QED
    BY <2>1, <2>2, GateQuiet DEF TypeOK
<1>12. ASSUME NEW o, AttemptSucceeds(s, o) PROVE GateInv'
  <2> DEFINE rows == [mem[s] EXCEPT !.step[at[s]] = "completed",
                            !.draft = IF at[s] = Composer THEN drafts + 1 ELSE @]
  <2>1. /\ pc[s] = "run" /\ o \in Outcomes(at[s], mem[s])
        /\ Record(at[s], o, mem[s].draft)
        /\ mem' = [mem EXCEPT ![s] = rows]
        /\ pc' = [pc EXCEPT ![s] = "drive"]
        /\ UNCHANGED <<db, op, at, granted>>
    BY <1>12 DEF AttemptSucceeds, Flush, Goto
  <2>2. Closed(rows)
    BY <1>0 DEF Rows
  <2>3. QED
    BY <2>1, <2>2, GateAttempt DEF TypeOK
<1>13. ASSUME NEW o, AttemptRetries(s, o) PROVE GateInv'
  <2>1. /\ pc[s] = "run" /\ o \in Outcomes(at[s], mem[s])
        /\ Record(at[s], o, mem[s].draft)
        /\ UNCHANGED <<db, op, at, granted, mem, pc>>
    BY <1>13 DEF AttemptRetries
  <2>2. QED
    BY <1>0, <2>1, GateAttempt
<1>14. ASSUME NEW o, AttemptFails(s, o) PROVE GateInv'
  <2> DEFINE rows == CascadeSkip([mem[s] EXCEPT !.step[at[s]] = "failed"], at[s])
  <2>1. /\ pc[s] = "run" /\ o \in Outcomes(at[s], mem[s])
        /\ Record(at[s], o, mem[s].draft)
        /\ mem' = [mem EXCEPT ![s] = rows]
        /\ pc' = [pc EXCEPT ![s] = "final"]
        /\ UNCHANGED <<db, op, at, granted>>
    BY <1>14 DEF AttemptFails, Flush, Goto
  <2>2. Closed(rows)
    BY <1>0 DEF CascadeSkip, Rows
  <2>3. QED
    BY <2>1, <2>2, GateAttempt DEF TypeOK
<1>15. CASE Finalize(s)
  <2>1. /\ mem' = [mem EXCEPT ![s] = Finalized(mem[s])]
        /\ pc' = [pc EXCEPT ![s] = "commit"]
        /\ UNCHANGED <<db, op, at, granted, pushed>>
    BY <1>15, <1>0 DEF Finalize, Flush, Goto, outside, TypeOK
  <2>2. Closed(Finalized(mem[s]))
    BY <1>0 DEF Finalized, Rows
  <2>3. QED
    BY <2>1, <2>2, GateQuiet DEF TypeOK
<1>16. CASE Commit(s)
  <2>1. Closed(db')
    BY <1>16, <1>0 DEF Commit, Merge, Rows
  <2>2. QED
    BY <1>16, <2>1, GateReset DEF Commit, outside
<1>17. QED
  BY <1>1, <1>2, <1>3, <1>4, <1>5, <1>6, <1>7, <1>8, <1>9, <1>10, <1>11,
     <1>12, <1>13, <1>14, <1>15, <1>16 DEF Proceed

LEMMA GateStep == TypeOK /\ GateInv /\ [Next]_vars => GateInv'
<1> SUFFICES ASSUME TypeOK, GateInv, [Next]_vars PROVE GateInv'
  OBVIOUS
<1>1. ASSUME NEW s \in Session, Abort(s) PROVE GateInv'
  <2>1. \A i \in Steps \ Gated : db'.gate[i] = "none"
    BY <1>1 DEF Abort, GateInv
  <2>2. QED
    BY <1>1, <2>1, GateReset DEF Abort, outside
<1>2. CASE UNCHANGED vars
  BY <1>2 DEF GateInv, GateNeverBypassed, vars, session, outside
<1>3. QED
  BY <1>1, <1>2, GateArrive, GateProceed DEF Next

LEMMA GateInvariant == Spec => []GateInv
<1>1. QED
  BY GateInit, GateStep, TypeCorrect, PTL DEF Spec

\* Whatever requests race, whatever transaction is rolled back and whatever
\* the plan: nothing is pushed for a step no human asked to send.
THEOREM GateSafe == Spec => []GateNeverBypassed
<1>1. GateInv => GateNeverBypassed
  BY DEF GateInv
<1>2. QED
  BY <1>1, GateInvariant, PTL

-----------------------------------------------------------------------------
(* The engine implements the abstract gate *)

LEMMA GateInitRefines == Init => Gate!Init
BY DEF Init, Gate!Init

LEMMA GateStutters ==
    ASSUME UNCHANGED <<granted, pushed>>
    PROVE  UNCHANGED Gate!gateVars
BY DEF Gate!gateVars

LEMMA GateApproveAsks ==
    ASSUME TypeOK, GateInv, NEW s \in Session, NEW i \in Steps,
           NEW edited \in BOOLEAN, SubmitApprove(s, i, edited)
    PROVE  Gate!Ask(i)
<1>1. i \in Gated /\ pushed' = pushed
  BY DEF SubmitApprove, Submit, GateInv
<1>2. granted'[i] # {} /\ \A j \in Steps \ {i} : granted'[j] = granted[j]
  BY DEF SubmitApprove, TypeOK
<1>3. [j \in Steps |-> granted'[j] # {}]
        = [[j \in Steps |-> granted[j] # {}] EXCEPT ![i] = TRUE]
  BY <1>2
<1>4. QED
  BY <1>1, <1>3 DEF Gate!Ask

LEMMA GateAttemptPushes ==
    ASSUME TypeOK, GateInv, NEW s \in Session, pc[s] = "run", NEW outcome,
           outcome \in Outcomes(at[s], mem[s]),
           Record(at[s], outcome, mem[s].draft), granted' = granted
    PROVE  UNCHANGED Gate!gateVars \/ \E i \in Steps : Gate!Push(i)
<1>1. CASE pushed' = pushed
  BY <1>1, GateStutters
<1>2. CASE /\ at[s] \in Gated /\ granted[at[s]] # {}
           /\ pushed' = [pushed EXCEPT ![at[s]] = @ + 1]
  <2>1. at[s] \in Steps
    BY DEF TypeOK
  <2>2. Gate!Push(at[s])
    BY <1>2, <2>1 DEF Gate!Push
  <2>3. QED
    BY <2>1, <2>2
<1>3. QED
  BY <1>1, <1>2, GatePush

LEMMA GateStepRefines == TypeOK /\ GateInv /\ [Next]_vars => [Gate!Next]_(Gate!gateVars)
<1> SUFFICES ASSUME TypeOK, GateInv, [Next]_vars
             PROVE  [Gate!Next]_(Gate!gateVars)
  OBVIOUS
<1>1. ASSUME NEW s \in Session, Arrive(s) PROVE [Gate!Next]_(Gate!gateVars)
  <2>1. ASSUME NEW i \in Steps, NEW edited \in BOOLEAN, SubmitApprove(s, i, edited)
        PROVE  [Gate!Next]_(Gate!gateVars)
    BY <2>1, GateApproveAsks DEF Gate!Next
  <2>2. CASE \/ SubmitCreate(s) \/ SubmitExecute(s) \/ SubmitCancel(s)
             \/ \E i \in Steps : SubmitReject(s, i)
             \/ \E i \in Steps : SubmitRedraft(s, i)
    <3>1. UNCHANGED <<granted, pushed>>
      BY <2>2 DEF SubmitCreate, SubmitExecute, SubmitCancel, SubmitReject,
                  SubmitRedraft, Submit
    <3>2. QED
      BY <3>1, GateStutters
  <2>3. QED
    BY <1>1, <2>1, <2>2 DEF Arrive
<1>2. ASSUME NEW s \in Session, Proceed(s) PROVE [Gate!Next]_(Gate!gateVars)
  <2>1. ASSUME NEW o, AttemptSucceeds(s, o) \/ AttemptRetries(s, o) \/ AttemptFails(s, o)
        PROVE  [Gate!Next]_(Gate!gateVars)
    <3>1. /\ pc[s] = "run" /\ o \in Outcomes(at[s], mem[s])
          /\ Record(at[s], o, mem[s].draft) /\ granted' = granted
      BY <2>1 DEF AttemptSucceeds, AttemptRetries, AttemptFails
    <3>2. QED
      BY <3>1, GateAttemptPushes DEF Gate!Next
  <2>2. CASE \/ ReadRest(s) \/ ApplyCreate(s) \/ CreateConflict(s)
             \/ ApplyExecute(s) \/ ApplyApprove(s) \/ ApplyReject(s)
             \/ ApplyRedraft(s) \/ ApplyCancel(s) \/ DriveNothingLeft(s)
             \/ (\E i \in Steps : DrivePark(s, i) \/ DriveStart(s, i))
             \/ Finalize(s) \/ Commit(s)
    <3>1. UNCHANGED <<granted, pushed>>
      BY <2>2 DEF ReadRest, ApplyCreate, CreateConflict, ApplyExecute,
                  ApplyApprove, ApplyReject, ApplyRedraft, ApplyCancel,
                  DriveNothingLeft, DrivePark, DriveStart, Finalize, Commit, outside
    <3>2. QED
      BY <3>1, GateStutters
  <2>3. QED
    BY <1>2, <2>1, <2>2 DEF Proceed
<1>3. ASSUME NEW s \in Session, Abort(s) PROVE [Gate!Next]_(Gate!gateVars)
  BY <1>3, GateStutters DEF Abort, outside
<1>4. CASE UNCHANGED vars
  BY <1>4, GateStutters DEF vars, outside
<1>5. QED
  BY <1>1, <1>2, <1>3, <1>4 DEF Next

\* Every step of the engine is a step of the abstract gate, or no step of it.
THEOREM EngineImplementsGate == Spec => ImplementsGate
<1>1. QED
  BY GateInitRefines, GateStepRefines, TypeCorrect, GateInvariant, PTL
     DEF Spec, ImplementsGate, Gate!Spec

-----------------------------------------------------------------------------
(* Nothing is committed in the middle of a step *)

\* The induction hypothesis behind RestsBetweenSteps: a copy shows a step as
\* "running" only while its session is running that very step, and no row set
\* is ever left in "planning".
RestInv ==
    /\ RestsBetweenSteps
    /\ \A s \in Session : mem[s].run # "planning"
    /\ \A s \in Session : \A i \in Steps :
            mem[s].step[i] = "running" => pc[s] = "run" /\ at[s] = i

LEMMA RestInit == Init => RestInv
BY DEF Init, RestInv, RestsBetweenSteps, Fresh

\* A set of rows in which nothing is half done.
AtRest(rows) == rows.run # "planning" /\ \A i \in Steps : rows.step[i] # "running"

\* One session moves and its rows are at rest, or it runs the one step they
\* show as running.
LEMMA RestMove ==
    ASSUME TypeOK, RestInv, NEW s \in Session, AtRest(db'),
           mem'[s].run # "planning",
           \A i \in Steps : mem'[s].step[i] = "running" => pc'[s] = "run" /\ at'[s] = i,
           \A z \in Session \ {s} : /\ mem'[z] = mem[z] /\ pc'[z] = pc[z]
                                    /\ at'[z] = at[z]
    PROVE  RestInv'
<1>1. \A z \in Session : mem'[z].run # "planning"
  BY DEF RestInv
<1>2. \A z \in Session : \A i \in Steps :
            mem'[z].step[i] = "running" => pc'[z] = "run" /\ at'[z] = i
  BY DEF RestInv
<1>3. QED
  BY <1>1, <1>2 DEF RestInv, RestsBetweenSteps, AtRest

LEMMA RestMoveRows ==
    ASSUME TypeOK, RestInv, NEW s \in Session, AtRest(db'), NEW rows, AtRest(rows),
           mem' = [mem EXCEPT ![s] = rows],
           \A z \in Session \ {s} : pc'[z] = pc[z] /\ at'[z] = at[z]
    PROVE  RestInv'
<1>1. mem'[s] = rows /\ \A z \in Session \ {s} : mem'[z] = mem[z]
  BY DEF TypeOK
<1>2. QED
  BY <1>1, RestMove DEF AtRest

LEMMA RestArrive ==
    ASSUME TypeOK, RestInv, NEW s \in Session, Arrive(s)
    PROVE  RestInv'
<1>1. AtRest(db)
  BY DEF RestInv, RestsBetweenSteps, AtRest
<1>2. ASSUME NEW name, NEW i, NEW label, Submit(s, name, i, label) PROVE RestInv'
  <2>1. /\ mem' = [mem EXCEPT ![s] = db] /\ db' = db
        /\ pc' = [pc EXCEPT ![s] = label] /\ at' = [at EXCEPT ![s] = i]
    BY <1>2 DEF Submit, Goto
  <2>2. QED
    BY <1>1, <2>1, RestMoveRows DEF TypeOK
<1>3. QED
  BY <1>2 DEF Arrive, SubmitCreate, SubmitExecute, SubmitApprove, SubmitReject,
              SubmitRedraft, SubmitCancel

LEMMA RestProceed ==
    ASSUME TypeOK, RestInv, NEW s \in Session, Proceed(s)
    PROVE  RestInv'
<1>0. /\ mem[s] \in Rows /\ at[s] \in Steps /\ db \in Rows /\ AtRest(db)
      /\ pc[s] # "run" => AtRest(mem[s])
      /\ mem[s].run # "planning"
  BY DEF TypeOK, RestInv, RestsBetweenSteps, AtRest
<1>1. CASE ReadRest(s)
  <2> DEFINE forCancel == [db EXCEPT !.run = mem[s].run, !.draft = mem[s].draft]
             forDecision == [db EXCEPT !.gate[at[s]] = mem[s].gate[at[s]],
                                       !.shown[at[s]] = mem[s].shown[at[s]]]
  <2>1. AtRest(forCancel) /\ AtRest(forDecision)
    BY <1>0 DEF AtRest, Rows
  <2>2. /\ mem' = [mem EXCEPT ![s] = IF op[s] = "cancel" THEN forCancel ELSE forDecision]
        /\ pc' = [pc EXCEPT ![s] = "ready"]
        /\ db' = db /\ at' = at
    BY <1>1 DEF ReadRest, Goto
  <2>3. QED
    BY <1>0, <2>1, <2>2, RestMoveRows DEF TypeOK
<1>2. CASE ApplyCreate(s)
  <2>1. AtRest([Fresh EXCEPT !.run = "running"])
    BY DEF AtRest, Fresh
  <2>2. /\ mem' = [mem EXCEPT ![s] = [Fresh EXCEPT !.run = "running"]]
        /\ pc' = [pc EXCEPT ![s] = "drive"] /\ db' = db /\ at' = at
    BY <1>2 DEF ApplyCreate, Flush, Goto
  <2>3. QED
    BY <1>0, <2>1, <2>2, RestMoveRows DEF TypeOK
<1>3. ASSUME Reset(s), AtRest(db') PROVE RestInv'
  <2>1. AtRest(Fresh)
    BY DEF AtRest, Fresh
  <2>2. /\ mem' = [mem EXCEPT ![s] = Fresh]
        /\ pc' = [pc EXCEPT ![s] = "idle"] /\ at' = [at EXCEPT ![s] = 0]
    BY <1>3 DEF Reset, Goto
  <2>3. QED
    BY <1>3, <2>1, <2>2, RestMoveRows DEF TypeOK
<1>4. CASE CreateConflict(s)
  BY <1>0, <1>3, <1>4 DEF CreateConflict
<1>5. CASE ApplyExecute(s)
  <2> DEFINE rows == [db EXCEPT !.run = "running", !.draft = mem[s].draft]
  <2>1. AtRest(rows)
    BY <1>0 DEF AtRest, Rows
  <2>2. /\ mem' = [mem EXCEPT ![s] = rows]
        /\ pc' = [pc EXCEPT ![s] = "drive"] /\ db' = db /\ at' = at
    BY <1>5 DEF ApplyExecute, Goto
  <2>3. QED
    BY <1>0, <2>1, <2>2, RestMoveRows DEF TypeOK
<1>6. CASE ApplyApprove(s)
  <2> DEFINE rows == [Decided(mem[s], at[s], "approved") EXCEPT
                        !.draft = IF edit[s] # 0 THEN edit[s] ELSE @,
                        !.run = "running", !.step[at[s]] = "running"]
  <2>1. /\ mem' = [mem EXCEPT ![s] = rows]
        /\ pc' = [pc EXCEPT ![s] = "run"] /\ db' = db /\ at' = at
        /\ pc[s] = "ready"
    BY <1>6 DEF ApplyApprove, Flush, Goto
  <2>2. /\ rows.run # "planning"
        /\ \A i \in Steps : rows.step[i] = "running" => at[s] = i
    BY <1>0, <2>1 DEF Decided, AtRest, Rows
  <2>3. mem'[s] = rows /\ pc'[s] = "run" /\ at'[s] = at[s]
    BY <2>1 DEF TypeOK
  <2>4. \A z \in Session \ {s} : mem'[z] = mem[z] /\ pc'[z] = pc[z] /\ at'[z] = at[z]
    BY <2>1 DEF TypeOK
  <2> HIDE DEF rows
  <2>5. /\ AtRest(db') /\ mem'[s].run # "planning"
        /\ \A i \in Steps : mem'[s].step[i] = "running" => pc'[s] = "run" /\ at'[s] = i
    BY <1>0, <2>1, <2>2, <2>3
  <2>6. QED
    BY <2>4, <2>5, RestMove
<1>7. CASE ApplyReject(s)
  <2> DEFINE rows == CascadeSkip([Decided(mem[s], at[s], "rejected") EXCEPT
                                    !.step[at[s]] = "rejected"], at[s])
  <2>1. /\ mem' = [mem EXCEPT ![s] = rows]
        /\ pc' = [pc EXCEPT ![s] = "final"] /\ db' = db /\ at' = at
        /\ pc[s] = "ready"
    BY <1>7 DEF ApplyReject, Flush, Goto
  <2>2. AtRest(rows)
    BY <1>0, <2>1 DEF CascadeSkip, Decided, AtRest, Rows
  <2>3. QED
    BY <1>0, <2>1, <2>2, RestMoveRows DEF TypeOK
<1>8. CASE ApplyRedraft(s)
  <2> DEFINE rows == [mem[s] EXCEPT !.draft = drafts + 1, !.shown[at[s]] = drafts + 1]
  <2>1. /\ mem' = [mem EXCEPT ![s] = rows]
        /\ pc' = [pc EXCEPT ![s] = "commit"] /\ db' = db /\ at' = at
        /\ pc[s] = "ready"
    BY <1>8 DEF ApplyRedraft, Flush, Goto
  <2>2. AtRest(rows)
    BY <1>0, <2>1 DEF AtRest, Rows
  <2>3. QED
    BY <1>0, <2>1, <2>2, RestMoveRows DEF TypeOK
<1>9. CASE ApplyCancel(s)
  <2>1. /\ mem' = [mem EXCEPT ![s] = CancelledRows(mem[s])]
        /\ pc' = [pc EXCEPT ![s] = "commit"] /\ db' = db /\ at' = at
        /\ pc[s] = "ready"
    BY <1>9 DEF ApplyCancel, Flush, Goto
  <2>2. AtRest(CancelledRows(mem[s]))
    BY <1>0, <2>1 DEF CancelledRows, AtRest, Rows
  <2>3. QED
    BY <1>0, <2>1, <2>2, RestMoveRows DEF TypeOK
<1>10. CASE DriveNothingLeft(s)
  <2>1. /\ mem' = mem /\ pc' = [pc EXCEPT ![s] = "final"] /\ db' = db /\ at' = at
        /\ pc[s] = "drive"
    BY <1>10 DEF DriveNothingLeft, Goto
  <2>2. \A i \in Steps : mem'[s].step[i] # "running"
    BY <1>0, <2>1 DEF AtRest
  <2>3. QED
    BY <1>0, <2>1, <2>2, RestMove DEF TypeOK
<1>11. ASSUME NEW i \in Steps, DrivePark(s, i) PROVE RestInv'
  <2>1. /\ mem' = [mem EXCEPT ![s] = Parked(mem[s], i)]
        /\ pc' = [pc EXCEPT ![s] = "commit"] /\ db' = db /\ at' = at
        /\ pc[s] = "drive"
    BY <1>11 DEF DrivePark, Flush, Goto
  <2>2. AtRest(Parked(mem[s], i))
    BY <1>0, <2>1 DEF Parked, AtRest, Rows
  <2>3. QED
    BY <1>0, <2>1, <2>2, RestMoveRows DEF TypeOK
<1>12. ASSUME NEW i \in Steps, DriveStart(s, i) PROVE RestInv'
  <2> DEFINE rows == [mem[s] EXCEPT !.step[i] = "running"]
  <2>1. /\ mem' = [mem EXCEPT ![s] = rows]
        /\ pc' = [pc EXCEPT ![s] = "run"] /\ db' = db
        /\ at' = [at EXCEPT ![s] = i] /\ pc[s] = "drive"
    BY <1>12 DEF DriveStart, Flush, Goto
  <2>2. /\ rows.run # "planning"
        /\ \A j \in Steps : rows.step[j] = "running" => i = j
    BY <1>0, <2>1 DEF AtRest, Rows
  <2>3. mem'[s] = rows /\ pc'[s] = "run" /\ at'[s] = i
    BY <2>1 DEF TypeOK
  <2>4. \A z \in Session \ {s} : mem'[z] = mem[z] /\ pc'[z] = pc[z] /\ at'[z] = at[z]
    BY <2>1 DEF TypeOK
  <2>5. QED
    BY <1>0, <2>1, <2>2, <2>3, <2>4, RestMove
<1>13. ASSUME NEW o, AttemptSucceeds(s, o) PROVE RestInv'
  <2> DEFINE rows == [mem[s] EXCEPT !.step[at[s]] = "completed",
                            !.draft = IF at[s] = Composer THEN drafts + 1 ELSE @]
  <2>1. /\ mem' = [mem EXCEPT ![s] = rows]
        /\ pc' = [pc EXCEPT ![s] = "drive"] /\ db' = db /\ at' = at
    BY <1>13 DEF AttemptSucceeds, Flush, Goto
  <2>2. \A i \in Steps : mem[s].step[i] = "running" => at[s] = i
    BY DEF RestInv
  <2>3. AtRest(rows)
    BY <1>0, <2>2 DEF AtRest, Rows
  <2>4. QED
    BY <1>0, <2>1, <2>3, RestMoveRows DEF TypeOK
<1>14. ASSUME NEW o, AttemptRetries(s, o) PROVE RestInv'
  <2>1. UNCHANGED <<mem, pc, db, at>>
    BY <1>14 DEF AttemptRetries
  <2>2. QED
    BY <2>1 DEF RestInv, RestsBetweenSteps
<1>15. ASSUME NEW o, AttemptFails(s, o) PROVE RestInv'
  <2> DEFINE failed == [mem[s] EXCEPT !.step[at[s]] = "failed"]
             rows == CascadeSkip(failed, at[s])
  <2>1. /\ mem' = [mem EXCEPT ![s] = rows]
        /\ pc' = [pc EXCEPT ![s] = "final"] /\ db' = db /\ at' = at
    BY <1>15 DEF AttemptFails, Flush, Goto
  <2>2. \A i \in Steps : mem[s].step[i] = "running" => at[s] = i
    BY DEF RestInv
  <2>3. AtRest(failed)
    BY <1>0, <2>2 DEF AtRest, Rows
  <2>4. failed \in Rows
    BY <1>0, StepSetType DEF StepStatus
  <2>5. AtRest(rows)
    BY <2>3, <2>4 DEF AtRest, CascadeSkip, Rows
  <2>6. QED
    BY <1>0, <2>1, <2>5, RestMoveRows DEF TypeOK
<1>16. CASE Finalize(s)
  <2>1. /\ mem' = [mem EXCEPT ![s] = Finalized(mem[s])]
        /\ pc' = [pc EXCEPT ![s] = "commit"] /\ db' = db /\ at' = at
        /\ pc[s] = "final"
    BY <1>16, <1>0 DEF Finalize, Flush, Goto, TypeOK
  <2>2. AtRest(Finalized(mem[s]))
    BY <1>0, <2>1 DEF Finalized, AtRest, Rows
  <2>3. QED
    BY <1>0, <2>1, <2>2, RestMoveRows DEF TypeOK
<1>17. CASE Commit(s)
  <2>1. AtRest(mem[s])
    BY <1>0, <1>17 DEF Commit
  <2>2. AtRest(db')
    BY <1>0, <1>17, <2>1 DEF Commit, Merge, AtRest, Rows
  <2>3. QED
    BY <1>3, <1>17, <2>2 DEF Commit
<1>18. QED
  BY <1>1, <1>2, <1>4, <1>5, <1>6, <1>7, <1>8, <1>9, <1>10, <1>11, <1>12,
     <1>13, <1>14, <1>15, <1>16, <1>17 DEF Proceed

LEMMA RestAbort ==
    ASSUME TypeOK, RestInv, NEW s \in Session, Abort(s)
    PROVE  RestInv'
<1>1. AtRest(db') /\ AtRest(Fresh)
  BY DEF Abort, RestInv, RestsBetweenSteps, AtRest, Fresh
<1>2. /\ mem' = [mem EXCEPT ![s] = Fresh]
      /\ pc' = [pc EXCEPT ![s] = "idle"] /\ at' = [at EXCEPT ![s] = 0]
  BY DEF Abort, Reset, Goto
<1>3. QED
  BY <1>1, <1>2, RestMoveRows DEF TypeOK

\* No transaction leaves a step "running" or a run "planning": a process that
\* dies has nothing to repair when it comes back.
THEOREM RestsSafe == Spec => []RestsBetweenSteps
<1>1. TypeOK /\ RestInv /\ [Next]_vars => RestInv'
  <2>1. TypeOK /\ RestInv /\ Next => RestInv'
    BY RestArrive, RestProceed, RestAbort DEF Next
  <2>2. RestInv /\ UNCHANGED vars => RestInv'
    BY DEF RestInv, RestsBetweenSteps, vars, session
  <2>3. QED
    BY <2>1, <2>2
<1>2. RestInv => RestsBetweenSteps
  BY DEF RestInv
<1>3. QED
  BY RestInit, <1>1, <1>2, TypeCorrect, PTL DEF Spec

-----------------------------------------------------------------------------
(***************************************************************************)
(* Wherever a run rests it can be taken on.                                *)
(*                                                                         *)
(* A plan has at most one gate, and what comes after it depends on it: so  *)
(* are the playbooks of the planner.  What a transaction commits is not    *)
(* what it has read and changed, but its changes laid over rows that       *)
(* others changed meanwhile.  Settled says what rows may rest in the       *)
(* database; the induction keeps it true of what each open transaction     *)
(* would leave there (Outcome), whatever it has read, and of nobody but    *)
(* the holder of the lock there is something to keep while it drives.      *)
(***************************************************************************)

OneGate ==
    /\ \A g, h \in Gated : g = h
    /\ \A g \in Gated : \A j \in Steps : j > g => j \in Dependents(g)

Bad == {"failed", "rejected", "skipped"}
Verdicts == {"approved", "rejected"}

\* What follows a step that will not be completed is not waiting for it.
Cascaded(rows) ==
    \A i \in Steps : rows.step[i] = "pending" => \A d \in Deps[i] : rows.step[d] \notin Bad

\* Only the gate is ever parked at, or has an approval.
OnlyGateWaits(rows) ==
    \A i \in Steps \ Gated : rows.gate[i] = "none" /\ rows.step[i] # "awaiting_approval"

\* What is pending when the gate g has been reached waits for it.
WaitsFor(rows, g) == \A i \in Steps : rows.step[i] = "pending" => i \in Dependents(g)

\* The gate g is being decided.
Open(rows, g) ==
    /\ rows.gate[g] = "pending"
    /\ rows.step[g] = "awaiting_approval"
    /\ rows.run = "awaiting_approval"
    /\ rows.shown[g] = rows.draft
    /\ Runnable(rows) = {}
    /\ \A i \in Steps : rows.step[i] # "failed"
    /\ WaitsFor(rows, g)

\* The gate g has been decided.
Closed(rows, g) ==
    /\ rows.gate[g] \in Verdicts
    /\ rows.step[g] \notin {"pending", "awaiting_approval"}
    /\ rows.run \in RunTerminal
    /\ WaitsFor(rows, g)

\* The run ended before the gate.
Unreached(rows, g) ==
    /\ rows.gate[g] = "none"
    /\ rows.step[g] # "awaiting_approval"
    /\ rows.run \in RunTerminal

Settled(rows) ==
    /\ Cascaded(rows)
    /\ OnlyGateWaits(rows)
    /\ \A g \in Gated : Open(rows, g) \/ Closed(rows, g) \/ Unreached(rows, g)
    /\ Gated = {} => rows.run \in RunTerminal

\* What a commit may do to rows: no step becomes pending, no gate is reopened.
Later(old, new) ==
    /\ \A i \in Steps : new.step[i] = "pending" => old.step[i] = "pending"
    /\ \A g \in Gated : /\ old.gate[g] # "none" => new.gate[g] # "none"
                        /\ old.gate[g] \in Verdicts => new.gate[g] \in Verdicts

\* What the commit of s would leave in the database.
Outcome(s) == Merge(db, mem[s], dirty[s])

\* The gate has been reached.
Reached == Gated # {} /\ \A g \in Gated : db.gate[g] # "none"

\* What a session that has read the rows and flushed nothing may assume of them,
\* however old they are.
Snapshot(s) ==
    /\ Cascaded(mem[s]) /\ OnlyGateWaits(mem[s])
    /\ mem[s].run # "running"
    /\ \A i \in Steps : db.step[i] = "pending" => mem[s].step[i] = "pending"
    /\ \A g \in Gated :
        /\ mem[s].step[g] # "pending"
        /\ WaitsFor(mem[s], g)
        /\ \/ db.gate[g] \in Verdicts
           \/ /\ mem[s].gate[g] = "pending" /\ mem[s].step[g] = "awaiting_approval"
              /\ mem[s].run = "awaiting_approval"

Deciders == {"approve", "reject", "redraft"}

\* A session that has flushed nothing yet.
Waiting(s) ==
    /\ dirty[s] = {}
    /\ op[s] # "create" => Reached
    /\ op[s] = "execute" => mem[s].run # "running"
    /\ op[s] = "cancel" => mem[s].run = "awaiting_approval"
    /\ op[s] \in Deciders => at[s] \in Gated /\ mem[s].gate[at[s]] = "pending"
    /\ pc[s] = "ready" /\ op[s] \in Deciders \cup {"cancel"} => Snapshot(s)

\* The first transaction of the run: nobody has read anything of it yet.
Creating(s) ==
    /\ db = Fresh
    /\ dirty[s] = Cells
    /\ \A i \in Steps : mem[s].gate[i] = "none"
    /\ pc[s] # "final" => \A i \in Steps :
        /\ mem[s].step[i] \in {"pending", "running", "completed"}
        /\ mem[s].step[i] # "pending" => \A d \in Deps[i] : mem[s].step[d] = "completed"
    /\ \A i \in Steps : mem[s].step[i] # "awaiting_approval"

\* execute_run of a parked run: it finds nothing to do.
Passing(s) ==
    /\ pc[s] # "run"
    /\ \E g \in Gated : db.gate[g] = "pending"
    /\ mem[s].step = db.step /\ mem[s].gate = db.gate
    /\ dirty[s] = {RunCell}

\* What drives behind the gate: an approval, a rejection, or execute_run late.
Deciding(s) ==
    /\ Reached
    /\ \A i \in Steps :
        /\ db.step[i] = "pending" /\ mem[s].step[i] # "pending" => <<"step", i>> \in dirty[s]
        /\ mem[s].step[i] = "pending" /\ <<"step", i>> \in dirty[s] => db.step[i] = "pending"
    /\ \A g \in Gated :
        /\ mem[s].step[g] \notin {"pending", "awaiting_approval"}
        /\ \/ db.gate[g] \in Verdicts
           \/ <<"gate", g>> \in dirty[s] /\ <<"step", g>> \in dirty[s]
        /\ <<"gate", g>> \in dirty[s] => mem[s].gate[g] \in Verdicts
    /\ \/ RunCell \in dirty[s]
       \/ db.run \in RunTerminal
       \/ pc[s] = "final" /\ mem[s].run = "awaiting_approval"

\* The drive loop has ended.
Ended(rows) == Runnable(rows) = {} \/ \E i \in Steps : rows.step[i] = "failed"

Driving(s) ==
    /\ Cascaded(mem[s]) /\ OnlyGateWaits(mem[s])
    /\ pc[s] = "run" => mem[s].step[at[s]] = "running"
    /\ pc[s] = "final" => Ended(mem[s])
    /\ Creating(s) \/ Passing(s) \/ Deciding(s)

SessionInv(s) ==
    /\ pc[s] = "idle" => dirty[s] = {}
    /\ pc[s] \in {"drive", "run", "final", "commit"} => lock = s
    /\ pc[s] \in {"read", "ready"} => Waiting(s)
    /\ pc[s] \in {"drive", "run", "final"} => Driving(s)
    /\ pc[s] = "commit" => Settled(Outcome(s)) /\ Later(db, Outcome(s))

RunInv ==
    /\ db = Fresh \/ Settled(db)
    /\ \A s \in Session : SessionInv(s)

\* Every draft number in use was given out.
DraftsInv ==
    /\ db.draft <= drafts /\ \A i \in Steps : db.shown[i] <= drafts
    /\ \A s \in Session : mem[s].draft <= drafts /\ \A i \in Steps : mem[s].shown[i] <= drafts
    /\ \A s \in Session : edit[s] <= drafts
-----------------------------------------------------------------------------

\* The least-number principle: well-foundedness of the subsets of a finite set.
LEMMA LeastStep ==
    ASSUME NEW T \in SUBSET Steps, T # {}
    PROVE  \E i \in T : \A j \in T : i <= j
<1> DEFINE n == NumSteps - 1
           W == 0 .. n
           Below == {0 .. i : i \in T}
           R == StrictSubsetOrdering(W)
<1>0. n \in Nat /\ T \subseteq W
  BY PlanAssumption DEF ValidPlan, Steps
<1> HIDE DEF n
<1>1. IsFiniteSet(W)
  BY <1>0, FS_Interval
<1>2. IsWellFoundedOn(R, SUBSET W)
  BY <1>1, FS_StrictSubsetOrderingWellFounded, FS_FiniteSubsetsOfFinite
<1>3. Below \subseteq SUBSET W /\ Below # {}
  <2>1. \A i \in T : 0 .. i \subseteq W
    BY <1>0
  <2> QED
    BY <2>1
<1> HIDE DEF R
<1>4. PICK x \in Below : \A y \in Below : ~(<<y, x>> \in R)
  BY <1>2, <1>3, WFMin
<1>5. PICK i \in T : x = 0 .. i
  OBVIOUS
<1>6. ASSUME NEW j \in T, j < i PROVE FALSE
  <2>1. 0 .. j \in Below /\ 0 .. j \subseteq 0 .. i /\ i \notin 0 .. j /\ i \in 0 .. i
    BY <1>0, <1>6
  <2>2. <<0 .. j, 0 .. i>> \in R
    BY <2>1, <1>3, <1>5 DEF R, StrictSubsetOrdering
  <2> QED
    BY <1>4, <1>5, <2>1, <2>2
<1> QED
  BY <1>0, <1>6

LEMMA DependsBack == \A i \in Steps : Deps[i] \subseteq Steps /\ \A d \in Deps[i] : d < i
BY PlanAssumption DEF ValidPlan

\* What depends on i, or on a dependent of it, is a dependent of i.
LEMMA ChildOf ==
    ASSUME NEW i \in Steps, NEW k \in Steps, NEW d \in Deps[k], d = i \/ d \in Dependents(i)
    PROVE  k \in Dependents(i)
<1> SUFFICES ASSUME NEW S \in SUBSET Steps,
                    \A j \in Steps : (Deps[j] \cap (S \cup {i}) # {}) => j \in S
             PROVE  k \in S
  BY DEF Dependents
<1>1. d = i \/ d \in S
  BY DependsBack DEF Dependents
<1> QED
  BY <1>1

\* A set that is closed under "depends on i or on a member" has all dependents of i.
LEMMA DependentsLeast ==
    ASSUME NEW i \in Steps, NEW S \in SUBSET Steps,
           \A j \in Steps : (Deps[j] \cap (S \cup {i}) # {}) => j \in S
    PROVE  Dependents(i) \subseteq S
BY DEF Dependents

LEMMA CascadeCascades ==
    ASSUME NEW rows \in Rows, NEW i \in Steps, rows.step[i] # "pending",
           \A k \in Steps : rows.step[k] = "pending" =>
               \A d \in Deps[k] \ {i} : rows.step[d] \notin Bad
    PROVE  Cascaded(CascadeSkip(rows, i))
<1> DEFINE new == CascadeSkip(rows, i)
<1>1. \A k \in Steps : new.step[k] = IF k \in Dependents(i) /\ rows.step[k] = "pending"
                                      THEN "skipped" ELSE rows.step[k]
  BY DEF CascadeSkip, Rows
<1> HIDE DEF new
<1> SUFFICES ASSUME NEW k \in Steps, new.step[k] = "pending", NEW d \in Deps[k],
                    new.step[d] \in Bad
             PROVE  FALSE
  BY DEF Cascaded, new
<1>2. rows.step[k] = "pending" /\ k \notin Dependents(i) /\ d \in Steps
  BY <1>1, DependsBack
<1>3. d # i /\ d \notin Dependents(i)
  BY <1>2, ChildOf
<1> QED
  BY <1>1, <1>2, <1>3

\* The drive loop finds nothing runnable only when nothing is pending, unless a step
\* is under way or a gate is parked at.
LEMMA NothingPending ==
    ASSUME NEW rows \in Rows, Cascaded(rows), Runnable(rows) = {},
           \A i \in Steps : rows.step[i] \notin {"running", "awaiting_approval"}
    PROVE  \A i \in Steps : rows.step[i] # "pending"
<1> DEFINE T == {i \in Steps : rows.step[i] = "pending"}
<1> SUFFICES ASSUME T # {} PROVE FALSE
  OBVIOUS
<1>1. PICK i \in T : \A j \in T : i <= j
  BY LeastStep
<1>2. ASSUME NEW d \in Deps[i] PROVE rows.step[d] = "completed"
  <2>1. d \in Steps /\ d < i
    BY DependsBack
  <2>2. rows.step[d] # "pending"
    BY <1>1, <2>1, StepsAreNat
  <2>3. rows.step[d] \in StepStatus /\ rows.step[d] \notin Bad
    BY <2>1 DEF Rows, Cascaded
  <2> QED
    BY <2>1, <2>2, <2>3 DEF StepStatus, Bad
<1>3. i \in Runnable(rows)
  BY <1>2 DEF Runnable
<1> QED
  BY <1>3

LEMMA FinalRun ==
    ASSUME NEW rows \in Rows, Cascaded(rows), Ended(rows),
           \A i \in Steps : rows.step[i] \notin {"running", "awaiting_approval"}
    PROVE  Finalized(rows).run \in {"completed", "failed"}
<1>1. CASE \E i \in Steps : rows.step[i] = "failed"
  BY <1>1 DEF Finalized, Rows
<1>2. CASE ~ \E i \in Steps : rows.step[i] = "failed"
  <2>1. \A i \in Steps : rows.step[i] # "pending"
    BY <1>2, NothingPending DEF Ended
  <2>2. \A i \in Steps : rows.step[i] \in StepTerminal
    BY <2>1 DEF Rows, StepStatus, StepTerminal
  <2> QED
    BY <1>2, <2>2 DEF Finalized, Rows
<1> QED
  BY <1>1, <1>2

LEMMA FinalizedKeeps ==
    ASSUME NEW rows \in Rows
    PROVE  LET new == Finalized(rows)
           IN  /\ new.step = rows.step /\ new.gate = rows.gate
               /\ new.draft = rows.draft /\ new.shown = rows.shown
BY DEF Finalized, Rows

LEMMA MergeCells ==
    ASSUME NEW base \in Rows, NEW rows \in Rows, NEW cells, NEW new,
           new = Merge(base, rows, cells)
    PROVE  /\ new.run = IF RunCell \in cells THEN rows.run ELSE base.run
           /\ new.draft = IF DraftCell \in cells THEN rows.draft ELSE base.draft
           /\ \A i \in Steps :
                /\ new.step[i] = IF <<"step", i>> \in cells THEN rows.step[i] ELSE base.step[i]
                /\ new.gate[i] = IF <<"gate", i>> \in cells THEN rows.gate[i] ELSE base.gate[i]
                /\ new.shown[i] =
                     IF <<"shown", i>> \in cells THEN rows.shown[i] ELSE base.shown[i]
BY DEF Merge

LEMMA ChangedCells ==
    ASSUME NEW old \in Rows, NEW new \in Rows
    PROVE  /\ RunCell \in Changed(old, new) <=> old.run # new.run
           /\ DraftCell \in Changed(old, new) <=> old.draft # new.draft
           /\ \A i \in Steps :
                /\ <<"step", i>> \in Changed(old, new) <=> old.step[i] # new.step[i]
                /\ <<"gate", i>> \in Changed(old, new) <=> old.gate[i] # new.gate[i]
                /\ <<"shown", i>> \in Changed(old, new) <=> old.shown[i] # new.shown[i]
<1> DEFINE S == {<<"step", i>> : i \in {j \in Steps : old.step[j] # new.step[j]}}
           G == {<<"gate", i>> : i \in {j \in Steps : old.gate[j] # new.gate[j]}}
           H == {<<"shown", i>> : i \in {j \in Steps : old.shown[j] # new.shown[j]}}
           U == {c \in {RunCell} : old.run # new.run}
           D == {c \in {DraftCell} : old.draft # new.draft}
<1>1. Changed(old, new) = U \cup D \cup S \cup G \cup H
  BY DEF Changed
<1>2. \A i \in Steps : <<"step", i>> \in S <=> old.step[i] # new.step[i]
  OBVIOUS
<1>3. \A i \in Steps : <<"gate", i>> \in G <=> old.gate[i] # new.gate[i]
  OBVIOUS
<1>4. \A i \in Steps : <<"shown", i>> \in H <=> old.shown[i] # new.shown[i]
  OBVIOUS
<1>5. (RunCell \in U <=> old.run # new.run) /\ (DraftCell \in D <=> old.draft # new.draft)
  OBVIOUS
<1>6. \A c \in S : c[1] = "step"
  OBVIOUS
<1>7. \A c \in G : c[1] = "gate"
  OBVIOUS
<1>8. \A c \in H : c[1] = "shown"
  OBVIOUS
<1>9. (\A c \in U : c[1] = "run") /\ (\A c \in D : c[1] = "draft")
  BY DEF RunCell, DraftCell
<1>10. RunCell[1] = "run" /\ DraftCell[1] = "draft"
  BY DEF RunCell, DraftCell
<1> HIDE DEF S, G, H, U, D
<1>11. RunCell \notin D \cup S \cup G \cup H
  BY <1>6, <1>7, <1>8, <1>9, <1>10
<1>12. DraftCell \notin U \cup S \cup G \cup H
  BY <1>6, <1>7, <1>8, <1>9, <1>10
<1>13. ASSUME NEW i \in Steps
       PROVE  /\ <<"step", i>> \notin U \cup D \cup G \cup H
              /\ <<"gate", i>> \notin U \cup D \cup S \cup H
              /\ <<"shown", i>> \notin U \cup D \cup S \cup G
  <2>1. <<"step", i>>[1] = "step" /\ <<"gate", i>>[1] = "gate" /\ <<"shown", i>>[1] = "shown"
    OBVIOUS
  <2> QED
    BY <2>1, <1>6, <1>7, <1>8, <1>9
<1> QED
  BY <1>1, <1>2, <1>3, <1>4, <1>5, <1>11, <1>12, <1>13

\* Every cell is one of the five kinds.
LEMMA CellsDiffer ==
    /\ RunCell # DraftCell
    /\ \A i \in Steps : <<"step", i>> # RunCell /\ <<"step", i>> # DraftCell
    /\ \A i \in Steps : <<"gate", i>> # RunCell /\ <<"gate", i>> # DraftCell
    /\ \A i \in Steps : <<"shown", i>> # RunCell /\ <<"shown", i>> # DraftCell
    /\ \A i, j \in Steps : /\ <<"step", i>> # <<"gate", j>> /\ <<"step", i>> # <<"shown", j>>
                           /\ <<"gate", i>> # <<"shown", j>>
BY DEF RunCell, DraftCell
-----------------------------------------------------------------------------

\* What the database holds at rest.
LEMMA RestingRows ==
    ASSUME TypeOK, RunInv, OneGate
    PROVE  /\ db.run \notin {"planning", "running"}
           /\ db.run = "absent" => db = Fresh
           /\ Cascaded(db) /\ OnlyGateWaits(db)
           /\ (\E i \in Steps : db.gate[i] = "pending") => Reached
           /\ db.run \notin RunTerminal \cup {"absent"} => Reached
           /\ Reached => Settled(db)
           /\ Reached => \A g \in Gated : Open(db, g) \/ Closed(db, g)
<1>g. Gated \subseteq Steps
  BY PlanAssumption DEF ValidPlan
<1>1. CASE db = Fresh
  <2>1. /\ db.run = "absent"
        /\ \A i \in Steps : db.gate[i] = "none" /\ db.step[i] = "pending"
    BY <1>1 DEF Fresh
  <2>2. ~Reached
    BY <1>g, <2>1 DEF Reached
  <2>3. Cascaded(db) /\ OnlyGateWaits(db)
    BY <2>1, DependsBack DEF Cascaded, OnlyGateWaits, Bad
  <2> QED
    BY <1>1, <2>1, <2>2, <2>3
<1>2. CASE Settled(db)
  <2>1. \A g \in Gated : Open(db, g) \/ Closed(db, g) \/ Unreached(db, g)
    BY <1>2 DEF Settled
  <2>2. db.run \in RunTerminal \cup {"awaiting_approval"}
    BY <1>2, <2>1 DEF Settled, Open, Closed, Unreached
  <2>3. ASSUME NEW i \in Steps, db.gate[i] = "pending" PROVE Reached
    <3>1. i \in Gated
      BY <1>2, <2>3 DEF Settled, OnlyGateWaits
    <3> QED
      BY <2>3, <3>1 DEF Reached, OneGate
  <2>4. ASSUME db.run \notin RunTerminal PROVE Reached
    <3>1. Gated # {} /\ \A g \in Gated : Open(db, g)
      BY <1>2, <2>1, <2>4 DEF Settled, Closed, Unreached
    <3> QED
      BY <3>1 DEF Reached, Open
  <2>5. Reached => \A g \in Gated : Open(db, g) \/ Closed(db, g)
    BY <2>1 DEF Reached, Unreached
  <2> QED
    BY <1>2, <2>2, <2>3, <2>4, <2>5 DEF Settled, RunTerminal
<1> QED
  BY <1>1, <1>2 DEF RunInv

\* All other sessions stand still.
OthersStand(s) ==
    \A z \in Session \ {s} :
        /\ pc'[z] = pc[z] /\ op'[z] = op[z] /\ at'[z] = at[z]
        /\ mem'[z] = mem[z] /\ dirty'[z] = dirty[z]

\* While one session moves and commits nothing, the others keep what they have.
LEMMA MoveKeeps ==
    ASSUME RunInv, NEW s \in Session, db' = db, OthersStand(s),
           lock' = lock \/ lock \in {s, NoSession}, SessionInv(s)'
    PROVE  RunInv'
<1>1. ASSUME NEW z \in Session \ {s} PROVE SessionInv(z)'
  <2>1. SessionInv(z)
    BY DEF RunInv
  <2>2. /\ pc'[z] = pc[z] /\ op'[z] = op[z] /\ at'[z] = at[z]
        /\ mem'[z] = mem[z] /\ dirty'[z] = dirty[z]
    BY DEF OthersStand
  <2>3. pc[z] \in {"drive", "run", "final", "commit"} => lock' = z
    BY <2>1, SessionAssumption DEF SessionInv
  <2>4. Waiting(z) => Waiting(z)'
    BY <2>2 DEF Waiting, Reached, Snapshot
  <2>5. Driving(z) => Driving(z)'
    BY <2>2 DEF Driving, Creating, Passing, Deciding, Reached
  <2>6. Outcome(z)' = Outcome(z)
    BY <2>2 DEF Outcome
  <2> QED
    BY <2>1, <2>2, <2>3, <2>4, <2>5, <2>6 DEF SessionInv
<1>2. db' = Fresh \/ Settled(db')
  BY DEF RunInv
<1> QED
  BY <1>1, <1>2 DEF RunInv

\* A commit of the holder of the lock, of rows that keep to Later.
LEMMA CommitKeeps ==
    ASSUME RunInv, NEW s \in Session, lock = s, Settled(db'), Later(db, db'), OthersStand(s),
           SessionInv(s)'
    PROVE  RunInv'
<1>1. ASSUME NEW z \in Session \ {s} PROVE SessionInv(z)'
  <2>1. SessionInv(z)
    BY DEF RunInv
  <2>2. /\ pc'[z] = pc[z] /\ op'[z] = op[z] /\ at'[z] = at[z]
        /\ mem'[z] = mem[z] /\ dirty'[z] = dirty[z]
    BY DEF OthersStand
  <2>3. pc[z] \notin {"drive", "run", "final", "commit"}
    BY <2>1 DEF SessionInv
  <2>4. Reached => Reached'
    BY DEF Reached, Later
  <2>5. Snapshot(z) => Snapshot(z)'
    BY <2>2 DEF Snapshot, Later
  <2>6. Waiting(z) => Waiting(z)'
    BY <2>2, <2>4, <2>5 DEF Waiting
  <2> QED
    BY <2>1, <2>2, <2>3, <2>6 DEF SessionInv
<1> QED
  BY <1>1 DEF RunInv

LEMMA RunInit == Init => RunInv
BY DEF Init, RunInv, SessionInv

LEMMA RunReset ==
    ASSUME TypeOK, NEW s \in Session, Reset(s)
    PROVE  SessionInv(s)' /\ OthersStand(s)
<1>1. pc'[s] = "idle" /\ dirty'[s] = {}
  BY DEF Reset, Goto, TypeOK
<1>2. OthersStand(s)
  BY DEF Reset, Goto, TypeOK, OthersStand
<1> QED
  BY <1>1, <1>2 DEF SessionInv

LEMMA RunSubmit ==
    ASSUME TypeOK, RunInv, OneGate, NEW s \in Session, NEW name, NEW i \in Steps,
           NEW label \in {"read", "ready"}, Submit(s, name, i, label),
           name # "create" => Reached,
           name = "cancel" => db.run = "awaiting_approval" /\ label = "read",
           name \in Deciders => db.gate[i] = "pending" /\ label = "read"
    PROVE  RunInv'
<1>1. /\ pc'[s] = label /\ op'[s] = name /\ at'[s] = i /\ mem'[s] = db
      /\ dirty' = dirty /\ lock' = lock /\ db' = db /\ pc[s] = "idle"
      /\ OthersStand(s)
  BY DEF Submit, Goto, TypeOK, OthersStand
<1>2. dirty[s] = {}
  BY <1>1 DEF RunInv, SessionInv
<1>3. db.run # "running"
  BY RestingRows
<1>4. name \in Deciders => i \in Gated
  BY RestingRows DEF OnlyGateWaits
<1>5. Reached' <=> Reached
  BY <1>1 DEF Reached
<1>6. Waiting(s)'
  BY <1>1, <1>2, <1>3, <1>4, <1>5 DEF Waiting, Deciders
<1>7. SessionInv(s)'
  BY <1>1, <1>6 DEF SessionInv
<1> QED
  BY <1>1, <1>7, MoveKeeps

LEMMA RunArrive ==
    ASSUME TypeOK, RunInv, OneGate, NEW s \in Session, Arrive(s)
    PROVE  RunInv'
<1>0. 0 \in Steps
  BY StepsAreNat
<1>1. CASE SubmitCreate(s)
  BY <1>0, <1>1, RunSubmit DEF SubmitCreate, Deciders
<1>2. CASE SubmitExecute(s)
  BY <1>0, <1>2, RunSubmit, RestingRows DEF SubmitExecute, Deciders
<1>3. ASSUME NEW i \in Steps, NEW edited \in BOOLEAN, SubmitApprove(s, i, edited) PROVE RunInv'
  BY <1>3, RunSubmit, RestingRows DEF SubmitApprove, Deciders
<1>4. ASSUME NEW i \in Steps, SubmitReject(s, i) PROVE RunInv'
  BY <1>4, RunSubmit, RestingRows DEF SubmitReject, Deciders
<1>5. ASSUME NEW i \in Steps, SubmitRedraft(s, i) PROVE RunInv'
  BY <1>5, RunSubmit, RestingRows DEF SubmitRedraft, Deciders
<1>6. CASE SubmitCancel(s)
  <2>1. Reached /\ db.run \notin RunTerminal
    BY <1>6, RestingRows DEF SubmitCancel
  <2>2. db.run = "awaiting_approval"
    BY <2>1, RestingRows DEF Reached, Open, Closed
  <2> QED
    BY <1>0, <1>6, <2>1, <2>2, RunSubmit DEF SubmitCancel, Deciders
<1> QED
  BY <1>1, <1>2, <1>3, <1>4, <1>5, <1>6 DEF Arrive

LEMMA RunReadRest ==
    ASSUME TypeOK, RunInv, OneGate, NEW s \in Session, ReadRest(s)
    PROVE  RunInv'
<1> DEFINE forCancel == [db EXCEPT !.run = mem[s].run, !.draft = mem[s].draft]
           forDecision == [db EXCEPT !.gate[at[s]] = mem[s].gate[at[s]],
                                     !.shown[at[s]] = mem[s].shown[at[s]]]
           new == IF op[s] = "cancel" THEN forCancel ELSE forDecision
<1>1. /\ pc[s] = "read" /\ pc'[s] = "ready" /\ mem'[s] = new
      /\ op' = op /\ at' = at /\ dirty' = dirty /\ lock' = lock /\ db' = db
      /\ OthersStand(s)
  BY DEF ReadRest, Goto, TypeOK, OthersStand
<1>2. Waiting(s) /\ db \in Rows /\ at[s] \in Steps
  BY <1>1 DEF RunInv, SessionInv, TypeOK
<1>3. /\ new.step = db.step
      /\ new.run = IF op[s] = "cancel" THEN mem[s].run ELSE db.run
      /\ \A i \in Steps : new.gate[i] = IF op[s] # "cancel" /\ i = at[s]
                                        THEN mem[s].gate[i] ELSE db.gate[i]
  BY <1>2 DEF Rows
<1> HIDE DEF new
<1>4. db.run # "running" /\ Cascaded(db) /\ OnlyGateWaits(db)
  BY RestingRows
<1>5. ASSUME op[s] \in Deciders \cup {"cancel"} PROVE Snapshot(s)'
  <2>1. Reached /\ \A g \in Gated : Open(db, g) \/ Closed(db, g)
    BY <1>2, <1>5, RestingRows DEF Waiting, Deciders
  <2>2. Gated \subseteq Steps
    BY PlanAssumption DEF ValidPlan
  <2>3. op[s] # "cancel" => at[s] \in Gated /\ mem[s].gate[at[s]] = "pending"
    BY <1>2, <1>5 DEF Waiting
  <2>4. op[s] = "cancel" => mem[s].run = "awaiting_approval"
    BY <1>2 DEF Waiting
  <2>5. Cascaded(new) /\ OnlyGateWaits(new) /\ new.run # "running"
    BY <1>3, <1>4, <2>3, <2>4 DEF Cascaded, OnlyGateWaits
  <2>6. ASSUME NEW g \in Gated
        PROVE  /\ new.step[g] # "pending" /\ WaitsFor(new, g)
               /\ \/ db.gate[g] \in Verdicts
                  \/ /\ new.gate[g] = "pending" /\ new.step[g] = "awaiting_approval"
                     /\ new.run = "awaiting_approval"
    BY <1>3, <2>1, <2>2, <2>3, <2>4 DEF Open, Closed, WaitsFor
  <2> QED
    BY <1>1, <1>3, <2>5, <2>6 DEF Snapshot
<1>6. Waiting(s)'
  <2>1. Reached' <=> Reached
    BY <1>1 DEF Reached
  <2>2. op[s] = "execute" => new.run # "running"
    BY <1>3, <1>4
  <2>3. op[s] = "cancel" => new.run = "awaiting_approval"
    BY <1>2, <1>3 DEF Waiting
  <2>4. op[s] \in Deciders => at[s] \in Gated /\ new.gate[at[s]] = "pending"
    BY <1>2, <1>3 DEF Waiting, Deciders
  <2> QED
    BY <1>1, <1>2, <1>5, <2>1, <2>2, <2>3, <2>4 DEF Waiting
<1>7. SessionInv(s)'
  BY <1>1, <1>6 DEF SessionInv
<1> QED
  BY <1>1, <1>7, MoveKeeps

-----------------------------------------------------------------------------

\* What a flush of s does.
LEMMA FlushDoes ==
    ASSUME TypeOK, NEW s \in Session, NEW rows, NEW also, NEW label,
           Flush(s, rows, also), Goto(s, label), op' = op, db' = db,
           \A z \in Session \ {s} : at'[z] = at[z]
    PROVE  /\ pc'[s] = label /\ op'[s] = op[s] /\ mem'[s] = rows /\ lock' = s
           /\ dirty'[s] = dirty[s] \cup Changed(mem[s], rows) \cup also
           /\ lock \in {s, NoSession}
           /\ OthersStand(s)
BY DEF Flush, Goto, TypeOK, OthersStand

\* The cells a flush of s adds to its own.
LEMMA FlushMarks ==
    ASSUME TypeOK, NEW s \in Session, NEW rows \in Rows, NEW also, Flush(s, rows, also)
    PROVE  /\ RunCell \in dirty'[s] <=>
                    RunCell \in dirty[s] \cup also \/ mem[s].run # rows.run
           /\ DraftCell \in dirty'[s] <=>
                    DraftCell \in dirty[s] \cup also \/ mem[s].draft # rows.draft
           /\ \A i \in Steps :
                /\ <<"step", i>> \in dirty'[s] <=>
                        <<"step", i>> \in dirty[s] \cup also \/ mem[s].step[i] # rows.step[i]
                /\ <<"gate", i>> \in dirty'[s] <=>
                        <<"gate", i>> \in dirty[s] \cup also \/ mem[s].gate[i] # rows.gate[i]
                /\ <<"shown", i>> \in dirty'[s] <=>
                        <<"shown", i>> \in dirty[s] \cup also \/ mem[s].shown[i] # rows.shown[i]
<1> DEFINE new == Changed(mem[s], rows)
<1>1. mem[s] \in Rows /\ dirty'[s] = dirty[s] \cup new \cup also
  BY DEF TypeOK, Flush
<1>2. /\ RunCell \in new <=> mem[s].run # rows.run
      /\ DraftCell \in new <=> mem[s].draft # rows.draft
      /\ \A i \in Steps : /\ <<"step", i>> \in new <=> mem[s].step[i] # rows.step[i]
                          /\ <<"gate", i>> \in new <=> mem[s].gate[i] # rows.gate[i]
                          /\ <<"shown", i>> \in new <=> mem[s].shown[i] # rows.shown[i]
  BY <1>1, ChangedCells
<1> HIDE DEF new
<1> QED
  BY <1>1, <1>2

LEMMA RunCreate ==
    ASSUME TypeOK, RunInv, OneGate, NEW s \in Session, ApplyCreate(s)
    PROVE  RunInv'
<1> DEFINE rows == [Fresh EXCEPT !.run = "running"]
<1>1. /\ pc'[s] = "drive" /\ mem'[s] = rows /\ lock' = s /\ lock \in {s, NoSession}
      /\ dirty'[s] = dirty[s] \cup Changed(mem[s], rows) \cup Cells
      /\ OthersStand(s) /\ db' = db
  BY FlushDoes DEF ApplyCreate
<1>2. rows \in Rows /\ mem[s] \in Rows /\ dirty[s] \subseteq Cells
  BY FreshType DEF TypeOK, Rows, RunStatus
<1>3. dirty'[s] = Cells
  BY <1>1, <1>2, ChangedType
<1>4. db = Fresh
  BY RestingRows DEF ApplyCreate
<1>5. \A i \in Steps : rows.step[i] = "pending" /\ rows.gate[i] = "none"
  BY DEF Fresh
<1> HIDE DEF rows
<1>6. Creating(s)'
  BY <1>1, <1>3, <1>4, <1>5 DEF Creating
<1>7. Cascaded(rows) /\ OnlyGateWaits(rows)
  BY <1>5, DependsBack DEF Cascaded, OnlyGateWaits, Bad
<1>8. SessionInv(s)'
  BY <1>1, <1>6, <1>7 DEF SessionInv, Driving
<1> QED
  BY <1>1, <1>8, MoveKeeps

LEMMA RunExecute ==
    ASSUME TypeOK, RunInv, OneGate, NEW s \in Session, ApplyExecute(s)
    PROVE  RunInv'
<1> DEFINE rows == [db EXCEPT !.run = "running", !.draft = mem[s].draft]
<1>1. Waiting(s) /\ op[s] = "execute" /\ pc[s] = "ready"
  BY DEF ApplyExecute, RunInv, SessionInv
<1>2. Reached /\ mem[s].run # "running" /\ dirty[s] = {}
  BY <1>1 DEF Waiting
<1>3. /\ pc'[s] = "drive" /\ mem'[s] = rows /\ lock' = s /\ lock \in {s, NoSession}
      /\ dirty'[s] = {RunCell}
      /\ OthersStand(s) /\ db' = db
  BY <1>2 DEF ApplyExecute, Goto, TypeOK, OthersStand
<1>4. rows.step = db.step /\ rows.gate = db.gate
  BY DEF TypeOK, Rows
<1>5. /\ Cascaded(db) /\ OnlyGateWaits(db)
      /\ \A g \in Gated : Open(db, g) \/ Closed(db, g)
  BY <1>2, RestingRows
<1> HIDE DEF rows
<1>6. Cascaded(rows) /\ OnlyGateWaits(rows)
  BY <1>4, <1>5 DEF Cascaded, OnlyGateWaits
<1>7. Passing(s)' \/ Deciding(s)'
  <2>1. CASE \E g \in Gated : db.gate[g] = "pending"
    BY <1>3, <1>4, <2>1 DEF Passing
  <2>2. CASE \A g \in Gated : db.gate[g] # "pending"
    <3>1. \A g \in Gated : Closed(db, g)
      BY <1>5, <2>2 DEF Open
    <3>2. \A g \in Gated : /\ rows.step[g] \notin {"pending", "awaiting_approval"}
                           /\ db.gate[g] \in Verdicts
      BY <1>4, <3>1 DEF Closed
    <3>3. Reached'
      BY <1>2, <1>3 DEF Reached
    <3>4. \A i \in Steps : <<"step", i>> \notin dirty'[s] /\ <<"gate", i>> \notin dirty'[s]
      BY <1>3, CellsDiffer
    <3>5. Gated \subseteq Steps
      BY PlanAssumption DEF ValidPlan
    <3> QED
      BY <1>3, <1>4, <3>2, <3>3, <3>4, <3>5 DEF Deciding
  <2> QED
    BY <2>1, <2>2
<1>8. SessionInv(s)'
  BY <1>3, <1>6, <1>7 DEF SessionInv, Driving
<1> QED
  BY <1>3, <1>8, MoveKeeps

\* What a decision may rely on when it flushes.
LEMMA DecisionReady ==
    ASSUME TypeOK, RunInv, OneGate, NEW s \in Session, pc[s] = "ready",
           op[s] \in Deciders
    PROVE  /\ Reached /\ dirty[s] = {} /\ Snapshot(s)
           /\ at[s] \in Gated /\ mem[s].gate[at[s]] = "pending"
           /\ \A g \in Gated : g = at[s]
           /\ Gated \subseteq Steps /\ mem[s] \in Rows
           /\ \A g \in Gated : Open(db, g) \/ Closed(db, g)
<1>1. Waiting(s)
  BY DEF RunInv, SessionInv
<1>2. Reached
  BY <1>1 DEF Waiting, Deciders
<1>3. \A g \in Gated : Open(db, g) \/ Closed(db, g)
  BY <1>2, RestingRows
<1> QED
  BY <1>1, <1>2, <1>3, PlanAssumption DEF Waiting, OneGate, TypeOK, ValidPlan

LEMMA RunApprove ==
    ASSUME TypeOK, RestInv, RunInv, OneGate, NEW s \in Session, ApplyApprove(s)
    PROVE  RunInv'
<1> DEFINE g == at[s]
           draft == IF edit[s] # 0 THEN edit[s] ELSE mem[s].draft
           rows == [Decided(mem[s], g, "approved") EXCEPT
                        !.draft = IF edit[s] # 0 THEN edit[s] ELSE @,
                        !.run = "running", !.step[g] = "running"]
<1>1. /\ pc[s] = "ready" /\ pc'[s] = "run" /\ mem'[s] = rows /\ lock' = s
      /\ lock \in {s, NoSession} /\ op[s] = "approve"
      /\ dirty'[s] = dirty[s] \cup Changed(mem[s], rows) \cup {}
      /\ OthersStand(s) /\ db' = db /\ at' = at
  BY FlushDoes DEF ApplyApprove
<1>2. /\ Reached /\ dirty[s] = {} /\ Snapshot(s)
      /\ g \in Gated /\ mem[s].gate[g] = "pending"
      /\ \A h \in Gated : h = g
      /\ Gated \subseteq Steps /\ mem[s] \in Rows
  BY <1>1, DecisionReady DEF Deciders
<1>3. /\ rows.run = "running"
      /\ \A i \in Steps : rows.step[i] = IF i = g THEN "running" ELSE mem[s].step[i]
      /\ \A i \in Steps : rows.gate[i] = IF i = g THEN "approved" ELSE mem[s].gate[i]
  BY <1>2 DEF Decided, Rows
<1>4. rows \in Rows
  <2>1. edit[s] \in Nat
    BY DEF TypeOK
  <2> QED
    BY <1>2, <2>1 DEF Decided, Rows, RunStatus, StepStatus, GateStatus
<1> HIDE DEF rows, g
<1>5. mem[s].run # "running" /\ mem[s].step[g] # "running"
  BY <1>1, <1>2 DEF Snapshot, RestInv
<1>6. /\ RunCell \in dirty'[s]
      /\ \A i \in Steps : /\ <<"step", i>> \in dirty'[s] <=> i = g
                          /\ <<"gate", i>> \in dirty'[s] <=> i = g
  <2>1. Flush(s, rows, {})
    BY DEF ApplyApprove, rows, g
  <2>2. /\ RunCell \in dirty'[s] <=> mem[s].run # rows.run
        /\ DraftCell \in dirty'[s] <=> mem[s].draft # rows.draft
        /\ \A i \in Steps : /\ <<"step", i>> \in dirty'[s] <=> mem[s].step[i] # rows.step[i]
                            /\ <<"gate", i>> \in dirty'[s] <=> mem[s].gate[i] # rows.gate[i]
                            /\ <<"shown", i>> \in dirty'[s] <=> mem[s].shown[i] # rows.shown[i]
    BY <1>2, <1>4, <2>1, FlushMarks
  <2> QED
    BY <1>2, <1>3, <1>5, <2>2
<1>7. Cascaded(rows) /\ OnlyGateWaits(rows)
  <2>1. Cascaded(rows)
    BY <1>2, <1>3, DependsBack DEF Snapshot, Cascaded, Bad
  <2>2. OnlyGateWaits(rows)
    BY <1>2, <1>3 DEF Snapshot, OnlyGateWaits
  <2> QED
    BY <2>1, <2>2
<1>8. Deciding(s)'
  <2>1. Reached'
    BY <1>1, <1>2 DEF Reached
  <2>2. ASSUME NEW i \in Steps
        PROVE  /\ db.step[i] = "pending" /\ rows.step[i] # "pending" => <<"step", i>> \in dirty'[s]
               /\ rows.step[i] = "pending" /\ <<"step", i>> \in dirty'[s] => db.step[i] = "pending"
    BY <1>2, <1>3, <1>6 DEF Snapshot
  <2> QED
    BY <1>1, <1>2, <1>3, <1>6, <2>1, <2>2 DEF Deciding, Verdicts
<1>9. SessionInv(s)'
  <2>1. rows.step[g] = "running"
    BY <1>2, <1>3
  <2> QED
    BY <1>1, <1>7, <1>8, <2>1 DEF SessionInv, Driving, g
<1> QED
  BY <1>1, <1>9, MoveKeeps

LEMMA RunReject ==
    ASSUME TypeOK, RestInv, RunInv, OneGate, NEW s \in Session, ApplyReject(s)
    PROVE  RunInv'
<1> DEFINE g == at[s]
           left == [Decided(mem[s], g, "rejected") EXCEPT !.step[g] = "rejected"]
           rows == CascadeSkip(left, g)
<1>1. /\ pc[s] = "ready" /\ pc'[s] = "final" /\ mem'[s] = rows /\ lock' = s
      /\ lock \in {s, NoSession} /\ op[s] = "reject"
      /\ dirty'[s] = dirty[s] \cup Changed(mem[s], rows) \cup {}
      /\ OthersStand(s) /\ db' = db /\ at' = at
  BY FlushDoes DEF ApplyReject
<1>2. /\ Reached /\ dirty[s] = {} /\ Snapshot(s)
      /\ g \in Gated /\ mem[s].gate[g] = "pending"
      /\ \A h \in Gated : h = g
      /\ Gated \subseteq Steps /\ mem[s] \in Rows
      /\ \A h \in Gated : Open(db, h) \/ Closed(db, h)
  BY <1>1, DecisionReady DEF Deciders
<1>3. /\ left.run = mem[s].run
      /\ \A i \in Steps : left.step[i] = IF i = g THEN "rejected" ELSE mem[s].step[i]
      /\ \A i \in Steps : left.gate[i] = IF i = g THEN "rejected" ELSE mem[s].gate[i]
      /\ left \in Rows
  BY <1>2 DEF Decided, Rows, StepStatus, GateStatus
<1> HIDE DEF left
<1>4. /\ rows.run = left.run /\ rows.gate = left.gate
      /\ \A i \in Steps : rows.step[i] = IF i \in Dependents(g) /\ left.step[i] = "pending"
                                         THEN "skipped" ELSE left.step[i]
      /\ rows \in Rows
  <2>1. g \in Steps
    BY <1>2
  <2>2. rows \in Rows
    BY <1>3, <2>1, CascadeSkipType
  <2>3. rows = [left EXCEPT !.step = [i \in Steps |->
                   IF i \in Dependents(g) /\ left.step[i] = "pending"
                   THEN "skipped" ELSE left.step[i]]]
    BY DEF CascadeSkip
  <2> QED
    BY <1>3, <2>2, <2>3 DEF Rows
<1>5. Cascaded(rows)
  <2>1. \A k \in Steps : left.step[k] = "pending" =>
            \A d \in Deps[k] \ {g} : left.step[d] \notin Bad
    BY <1>2, <1>3, DependsBack DEF Snapshot, Cascaded
  <2>2. left.step[g] # "pending" /\ g \in Steps
    BY <1>2, <1>3
  <2> QED
    BY <1>3, <2>1, <2>2, CascadeCascades
<1> HIDE DEF rows, g
<1>6. \A i \in Steps : rows.step[i] # "pending"
  BY <1>2, <1>3, <1>4 DEF Snapshot, WaitsFor
<1>7. /\ rows.step[g] = "rejected" /\ rows.gate[g] = "rejected" /\ rows.run = mem[s].run
      /\ \A i \in Steps \ {g} : rows.gate[i] = mem[s].gate[i]
      /\ \A i \in Steps : rows.step[i] # mem[s].step[i] \/ rows.step[i] = mem[s].step[i]
  BY <1>2, <1>3, <1>4
<1>8. OnlyGateWaits(rows)
  BY <1>2, <1>3, <1>4 DEF Snapshot, OnlyGateWaits
<1>9. /\ \A i \in Steps : <<"step", i>> \in dirty'[s] <=> rows.step[i] # mem[s].step[i]
      /\ <<"gate", g>> \in dirty'[s]
  <2>1. Flush(s, rows, {})
    BY DEF ApplyReject, rows, g, left
  <2>2. dirty[s] \cup {} = {} /\ rows \in Rows
    BY <1>2, <1>4
  <2>3. /\ RunCell \in dirty'[s] <=> mem[s].run # rows.run
        /\ DraftCell \in dirty'[s] <=> mem[s].draft # rows.draft
        /\ \A i \in Steps : /\ <<"step", i>> \in dirty'[s] <=> mem[s].step[i] # rows.step[i]
                            /\ <<"gate", i>> \in dirty'[s] <=> mem[s].gate[i] # rows.gate[i]
                            /\ <<"shown", i>> \in dirty'[s] <=> mem[s].shown[i] # rows.shown[i]
    BY <2>1, <2>2, FlushMarks
  <2> QED
    BY <1>2, <1>7, <2>3
<1>10. \/ db.gate[g] \in Verdicts
       \/ mem[s].step[g] = "awaiting_approval" /\ mem[s].run = "awaiting_approval"
  BY <1>2 DEF Snapshot
<1>11. db.gate[g] \in Verdicts => db.run \in RunTerminal
  BY <1>2 DEF Open, Closed, Verdicts
<1>12. Deciding(s)'
  <2>1. Reached'
    BY <1>1, <1>2 DEF Reached
  <2>2. ASSUME NEW i \in Steps
        PROVE  db.step[i] = "pending" => <<"step", i>> \in dirty'[s]
    BY <1>2, <1>6, <1>9 DEF Snapshot
  <2>3. ASSUME NEW h \in Gated
        PROVE  /\ rows.step[h] \notin {"pending", "awaiting_approval"}
               /\ \/ db.gate[h] \in Verdicts
                  \/ <<"gate", h>> \in dirty'[s] /\ <<"step", h>> \in dirty'[s]
               /\ rows.gate[h] \in Verdicts
    BY <1>2, <1>7, <1>9, <1>10 DEF Verdicts
  <2>4. db.run \in RunTerminal \/ rows.run = "awaiting_approval"
    BY <1>7, <1>10, <1>11
  <2> QED
    BY <1>1, <1>6, <2>1, <2>2, <2>3, <2>4 DEF Deciding
<1>13. Ended(rows)
  BY <1>6 DEF Ended, Runnable
<1>14. SessionInv(s)'
  BY <1>1, <1>5, <1>8, <1>12, <1>13 DEF SessionInv, Driving
<1> QED
  BY <1>1, <1>14, MoveKeeps

\* Rows that agree on the steps agree on what follows from the steps alone.
LEMMA SameSteps ==
    ASSUME NEW a, NEW b, \A i \in Steps : a.step[i] = b.step[i]
    PROVE  /\ Cascaded(a) <=> Cascaded(b)
           /\ Runnable(a) = Runnable(b)
           /\ \A g \in Steps : WaitsFor(a, g) <=> WaitsFor(b, g)
<1>1. Cascaded(a) <=> Cascaded(b)
  BY DependsBack DEF Cascaded
<1>2. Runnable(a) = Runnable(b)
  BY DependsBack DEF Runnable
<1>3. \A g \in Steps : WaitsFor(a, g) <=> WaitsFor(b, g)
  BY DEF WaitsFor
<1> QED
  BY <1>1, <1>2, <1>3

LEMMA RunRedraft ==
    ASSUME TypeOK, DraftsInv, RunInv, OneGate, NEW s \in Session, ApplyRedraft(s)
    PROVE  RunInv'
<1> DEFINE g == at[s]
           d == drafts + 1
           rows == [mem[s] EXCEPT !.draft = drafts + 1, !.shown[g] = drafts + 1]
           new == Merge(db, rows, dirty'[s])
<1>1. /\ pc[s] = "ready" /\ pc'[s] = "commit" /\ mem'[s] = rows /\ lock' = s
      /\ lock \in {s, NoSession} /\ op[s] = "redraft"
      /\ OthersStand(s) /\ db' = db /\ Flush(s, rows, {})
  BY FlushDoes DEF ApplyRedraft
<1>2. /\ Reached /\ dirty[s] = {} /\ g \in Gated
      /\ \A h \in Gated : h = g
      /\ Gated \subseteq Steps /\ mem[s] \in Rows /\ db \in Rows
      /\ \A h \in Gated : Open(db, h) \/ Closed(db, h)
  BY <1>1, DecisionReady DEF Deciders, TypeOK
<1>3. d \in Nat /\ mem[s].draft # d /\ mem[s].shown[g] # d
  BY <1>2 DEF DraftsInv, TypeOK, Rows
<1>4. /\ rows.run = mem[s].run /\ rows.step = mem[s].step /\ rows.gate = mem[s].gate
      /\ rows.draft = d /\ rows.shown[g] = d /\ rows \in Rows
  BY <1>2, <1>3 DEF Rows
<1>m. new = Merge(db, rows, dirty'[s])
  OBVIOUS
<1> HIDE DEF rows, d, g, new
<1>5. /\ RunCell \notin dirty'[s] /\ DraftCell \in dirty'[s]
      /\ <<"shown", g>> \in dirty'[s]
      /\ \A i \in Steps : <<"step", i>> \notin dirty'[s] /\ <<"gate", i>> \notin dirty'[s]
  <2>1. dirty[s] \cup {} = {} /\ g \in Steps
    BY <1>2
  <2>2. /\ RunCell \in dirty'[s] <=> mem[s].run # rows.run
        /\ DraftCell \in dirty'[s] <=> mem[s].draft # rows.draft
        /\ \A i \in Steps : /\ <<"step", i>> \in dirty'[s] <=> mem[s].step[i] # rows.step[i]
                            /\ <<"gate", i>> \in dirty'[s] <=> mem[s].gate[i] # rows.gate[i]
                            /\ <<"shown", i>> \in dirty'[s] <=> mem[s].shown[i] # rows.shown[i]
    BY <1>1, <1>4, <2>1, FlushMarks
  <2> QED
    BY <1>3, <1>4, <2>1, <2>2
<1>6. /\ new.run = db.run /\ new.draft = d /\ new.shown[g] = d
      /\ \A i \in Steps : new.step[i] = db.step[i] /\ new.gate[i] = db.gate[i]
  <2>m. /\ new.run = IF RunCell \in dirty'[s] THEN rows.run ELSE db.run
        /\ new.draft = IF DraftCell \in dirty'[s] THEN rows.draft ELSE db.draft
        /\ \A i \in Steps :
            /\ new.step[i] = IF <<"step", i>> \in dirty'[s] THEN rows.step[i] ELSE db.step[i]
            /\ new.gate[i] = IF <<"gate", i>> \in dirty'[s] THEN rows.gate[i] ELSE db.gate[i]
            /\ new.shown[i] = IF <<"shown", i>> \in dirty'[s] THEN rows.shown[i] ELSE db.shown[i]
    BY <1>2, <1>4, <1>m, MergeCells
  <2> QED
    BY <1>2, <1>4, <1>5, <2>m
<1>7. Outcome(s)' = new
  BY <1>1, <1>m DEF Outcome
<1>8. Settled(db)
  BY <1>2, RestingRows
<1>9. /\ Cascaded(new) <=> Cascaded(db)
      /\ Runnable(new) = Runnable(db)
      /\ \A h \in Steps : WaitsFor(new, h) <=> WaitsFor(db, h)
  BY <1>6, SameSteps
<1>10. Settled(new)
  <2>1. OnlyGateWaits(new)
    BY <1>6, <1>8 DEF Settled, OnlyGateWaits
  <2>2. ASSUME NEW h \in Gated PROVE Open(new, h) \/ Closed(new, h)
    BY <1>2, <1>6, <1>9 DEF Open, Closed
  <2> QED
    BY <1>2, <1>8, <1>9, <2>1, <2>2 DEF Settled
<1>11. Later(db, new)
  BY <1>2, <1>6 DEF Later
<1>12. SessionInv(s)'
  BY <1>1, <1>7, <1>10, <1>11 DEF SessionInv
<1> QED
  BY <1>1, <1>12, MoveKeeps

LEMMA RunCancel ==
    ASSUME TypeOK, RunInv, OneGate, NEW s \in Session, ApplyCancel(s)
    PROVE  RunInv'
<1> DEFINE rows == CancelledRows(mem[s])
           new == Merge(db, rows, dirty'[s])
<1>1. /\ pc[s] = "ready" /\ pc'[s] = "commit" /\ mem'[s] = rows /\ lock' = s
      /\ lock \in {s, NoSession} /\ op[s] = "cancel"
      /\ OthersStand(s) /\ db' = db /\ Flush(s, rows, {})
  BY FlushDoes DEF ApplyCancel
<1>2. /\ Reached /\ dirty[s] = {} /\ mem[s].run = "awaiting_approval" /\ Snapshot(s)
      /\ mem[s] \in Rows /\ db \in Rows /\ Gated \subseteq Steps
  BY <1>1, PlanAssumption DEF RunInv, SessionInv, Waiting, TypeOK, ValidPlan
<1>3. /\ OnlyGateWaits(db) /\ \A g \in Gated : Open(db, g) \/ Closed(db, g)
  BY <1>2, RestingRows
<1>4. /\ rows.run = "cancelled" /\ rows \in Rows
      /\ \A i \in Steps : rows.step[i] = IF mem[s].step[i] \in {"pending", "awaiting_approval"}
                                         THEN "skipped" ELSE mem[s].step[i]
      /\ \A i \in Steps :
            rows.gate[i] = IF mem[s].step[i] = "awaiting_approval" /\ mem[s].gate[i] = "pending"
                           THEN "rejected" ELSE mem[s].gate[i]
  BY <1>2, CancelledType DEF CancelledRows, Rows
<1>m. new = Merge(db, rows, dirty'[s])
  OBVIOUS
<1> HIDE DEF rows, new
<1>5. /\ RunCell \in dirty'[s]
      /\ \A i \in Steps : /\ <<"step", i>> \in dirty'[s] <=> mem[s].step[i] # rows.step[i]
                          /\ <<"gate", i>> \in dirty'[s] <=> mem[s].gate[i] # rows.gate[i]
  <2>1. dirty[s] \cup {} = {}
    BY <1>2
  <2>2. /\ RunCell \in dirty'[s] <=> mem[s].run # rows.run
        /\ DraftCell \in dirty'[s] <=> mem[s].draft # rows.draft
        /\ \A i \in Steps : /\ <<"step", i>> \in dirty'[s] <=> mem[s].step[i] # rows.step[i]
                            /\ <<"gate", i>> \in dirty'[s] <=> mem[s].gate[i] # rows.gate[i]
                            /\ <<"shown", i>> \in dirty'[s] <=> mem[s].shown[i] # rows.shown[i]
    BY <1>1, <1>4, <2>1, FlushMarks
  <2> QED
    BY <1>2, <1>4, <2>2
<1>6. /\ new.run = "cancelled"
      /\ \A i \in Steps :
            /\ new.step[i] = IF <<"step", i>> \in dirty'[s] THEN rows.step[i] ELSE db.step[i]
            /\ new.gate[i] = IF <<"gate", i>> \in dirty'[s] THEN rows.gate[i] ELSE db.gate[i]
  <2>m. /\ new.run = IF RunCell \in dirty'[s] THEN rows.run ELSE db.run
        /\ new.draft = IF DraftCell \in dirty'[s] THEN rows.draft ELSE db.draft
        /\ \A i \in Steps :
            /\ new.step[i] = IF <<"step", i>> \in dirty'[s] THEN rows.step[i] ELSE db.step[i]
            /\ new.gate[i] = IF <<"gate", i>> \in dirty'[s] THEN rows.gate[i] ELSE db.gate[i]
            /\ new.shown[i] = IF <<"shown", i>> \in dirty'[s] THEN rows.shown[i] ELSE db.shown[i]
    BY <1>2, <1>4, <1>m, MergeCells
  <2> QED
    BY <1>4, <1>5, <2>m
<1>7. \A i \in Steps : new.step[i] # "pending"
  BY <1>2, <1>4, <1>5, <1>6 DEF Snapshot
<1>8. OnlyGateWaits(new)
  <2> SUFFICES ASSUME NEW i \in Steps \ Gated
               PROVE  new.gate[i] = "none" /\ new.step[i] # "awaiting_approval"
    BY DEF OnlyGateWaits
  <2>1. mem[s].gate[i] = "none" /\ mem[s].step[i] # "awaiting_approval"
    BY <1>2 DEF Snapshot, OnlyGateWaits
  <2>2. db.gate[i] = "none" /\ db.step[i] # "awaiting_approval"
    BY <1>3 DEF OnlyGateWaits
  <2>3. rows.gate[i] = "none" /\ rows.step[i] # "awaiting_approval"
    BY <1>4, <2>1
  <2> QED
    BY <1>6, <2>2, <2>3
<1>9. ASSUME NEW g \in Gated PROVE Closed(new, g)
  <2>1. g \in Steps /\ (Open(db, g) \/ Closed(db, g))
    BY <1>2, <1>3
  <2>2. \/ db.gate[g] \in Verdicts
        \/ mem[s].gate[g] = "pending" /\ mem[s].step[g] = "awaiting_approval"
    BY <1>2 DEF Snapshot
  <2>3. new.gate[g] \in Verdicts
    <3>1. CASE <<"gate", g>> \in dirty'[s]
      <4>1. new.gate[g] = rows.gate[g] /\ mem[s].gate[g] # rows.gate[g]
        BY <1>5, <1>6, <2>1, <3>1
      <4> QED
        BY <1>4, <2>1, <4>1 DEF Verdicts
    <3>2. CASE <<"gate", g>> \notin dirty'[s]
      <4>1. new.gate[g] = db.gate[g] /\ mem[s].gate[g] = rows.gate[g]
        BY <1>5, <1>6, <2>1, <3>2
      <4> QED
        BY <1>4, <2>1, <2>2, <4>1
    <3> QED
      BY <3>1, <3>2
  <2>4. new.step[g] # "awaiting_approval"
    <3>1. CASE <<"step", g>> \in dirty'[s]
      BY <1>4, <1>6, <2>1, <3>1
    <3>2. CASE <<"step", g>> \notin dirty'[s]
      <4>1. new.step[g] = db.step[g] /\ mem[s].step[g] = rows.step[g]
        BY <1>5, <1>6, <2>1, <3>2
      <4>2. mem[s].step[g] # "awaiting_approval"
        BY <1>4, <2>1, <4>1
      <4> QED
        BY <2>1, <2>2, <4>1, <4>2 DEF Open, Closed, Verdicts
    <3> QED
      BY <3>1, <3>2
  <2> QED
    BY <1>6, <1>7, <2>1, <2>3, <2>4 DEF Closed, WaitsFor, RunTerminal
<1>10. Settled(new)
  BY <1>2, <1>7, <1>8, <1>9 DEF Settled, Cascaded, Reached
<1>11. Later(db, new)
  BY <1>7, <1>9 DEF Later, Closed, Verdicts
<1>12. Outcome(s)' = new
  BY <1>1, <1>m DEF Outcome
<1>13. SessionInv(s)'
  BY <1>1, <1>10, <1>11, <1>12 DEF SessionInv
<1> QED
  BY <1>1, <1>13, MoveKeeps

-----------------------------------------------------------------------------

\* What a session that holds the lock and drives may rely on.
LEMMA DriverHolds ==
    ASSUME TypeOK, RunInv, NEW s \in Session, pc[s] \in {"drive", "run", "final"}
    PROVE  /\ lock = s /\ Driving(s)
           /\ mem[s] \in Rows /\ db \in Rows /\ at[s] \in Steps
           /\ dirty[s] \in SUBSET Cells /\ Gated \subseteq Steps
BY PlanAssumption DEF RunInv, SessionInv, TypeOK, ValidPlan

\* A late execute_run of a parked run finds nothing runnable.
LEMMA PassingFindsNothing ==
    ASSUME TypeOK, RunInv, OneGate, NEW s \in Session, Passing(s)
    PROVE  /\ Settled(db) /\ Runnable(mem[s]) = {}
           /\ \E g \in Gated : Open(db, g)
<1>1. PICK g \in Gated : db.gate[g] = "pending"
  BY DEF Passing
<1>2. g \in Steps
  BY PlanAssumption DEF ValidPlan
<1>3. Reached
  BY <1>1, <1>2, RestingRows
<1>4. Settled(db) /\ Open(db, g)
  BY <1>1, <1>3, RestingRows DEF Closed, Verdicts
<1>5. mem[s].step = db.step
  BY DEF Passing
<1>6. Runnable(mem[s]) = Runnable(db)
  BY <1>5, SameSteps
<1> QED
  BY <1>4, <1>6 DEF Open

LEMMA RunStutter ==
    ASSUME RunInv, db' = db, lock' = lock, pc' = pc, op' = op, at' = at, mem' = mem,
           dirty' = dirty
    PROVE  RunInv'
<1>1. ASSUME NEW s \in Session PROVE SessionInv(s)'
  <2>1. SessionInv(s)
    BY DEF RunInv
  <2>2. Waiting(s)' <=> Waiting(s)
    BY DEF Waiting, Reached, Snapshot
  <2>3. Driving(s)' <=> Driving(s)
    BY DEF Driving, Creating, Passing, Deciding, Reached
  <2>4. Outcome(s)' = Outcome(s)
    BY DEF Outcome
  <2> QED
    BY <2>1, <2>2, <2>3, <2>4 DEF SessionInv
<1> QED
  BY <1>1 DEF RunInv

LEMMA RunConflict ==
    ASSUME TypeOK, RunInv, NEW s \in Session, CreateConflict(s)
    PROVE  RunInv'
BY RunReset, MoveKeeps DEF CreateConflict

LEMMA RunAbort ==
    ASSUME TypeOK, RunInv, NEW s \in Session, Abort(s)
    PROVE  RunInv'
BY RunReset, MoveKeeps DEF Abort

LEMMA RunCommit ==
    ASSUME TypeOK, RunInv, NEW s \in Session, Commit(s)
    PROVE  RunInv'
<1>1. lock = s /\ Settled(Outcome(s)) /\ Later(db, Outcome(s))
  BY DEF Commit, RunInv, SessionInv
<1>2. db' = Outcome(s) /\ Reset(s)
  BY DEF Commit, Outcome
<1> HIDE DEF Outcome
<1> QED
  BY <1>1, <1>2, RunReset, CommitKeeps

LEMMA RunRetries ==
    ASSUME RunInv, NEW s \in Session, NEW o, AttemptRetries(s, o)
    PROVE  RunInv'
BY RunStutter DEF AttemptRetries

LEMMA RunNothingLeft ==
    ASSUME TypeOK, RunInv, NEW s \in Session, DriveNothingLeft(s)
    PROVE  RunInv'
<1>1. /\ pc[s] = "drive" /\ pc'[s] = "final" /\ mem' = mem /\ dirty' = dirty
      /\ db' = db /\ lock' = lock /\ at' = at /\ Runnable(mem[s]) = {} /\ OthersStand(s)
  BY DEF DriveNothingLeft, Goto, TypeOK, OthersStand
<1>2. lock = s /\ Driving(s)
  BY <1>1, DriverHolds
<1>3. Ended(mem'[s])
  BY <1>1 DEF Ended
<1>4. Creating(s)' \/ Passing(s)' \/ Deciding(s)'
  <2>1. Creating(s) => Creating(s)'
    BY <1>1 DEF Creating
  <2>2. Passing(s) => Passing(s)'
    BY <1>1 DEF Passing
  <2>3. Deciding(s) => Deciding(s)'
    BY <1>1 DEF Deciding, Reached
  <2> QED
    BY <1>2, <2>1, <2>2, <2>3 DEF Driving
<1>5. Driving(s)'
  BY <1>1, <1>2, <1>3, <1>4 DEF Driving
<1>6. SessionInv(s)'
  BY <1>1, <1>2, <1>5 DEF SessionInv
<1> QED
  BY <1>1, <1>6, MoveKeeps

\* The first gate a run meets is one that all it has left waits for.
LEMMA ParkSettles ==
    ASSUME OneGate, NEW rows \in Rows, NEW g \in Gated, IsNext(rows, g),
           \A i \in Steps : rows.gate[i] = "none" /\ rows.step[i] \in {"pending", "completed"},
           \A i \in Steps : rows.step[i] = "completed" =>
               \A d \in Deps[i] : rows.step[d] = "completed"
    PROVE  Settled(Parked(rows, g))
<1> DEFINE new == Parked(rows, g)
<1>g. Gated \subseteq Steps /\ g \in Steps
  BY PlanAssumption DEF ValidPlan
<1>1. /\ new.run = "awaiting_approval" /\ new.draft = rows.draft /\ new.shown[g] = rows.draft
      /\ \A i \in Steps : new.step[i] = IF i = g THEN "awaiting_approval" ELSE rows.step[i]
      /\ \A i \in Steps : new.gate[i] = IF i = g THEN "pending" ELSE rows.gate[i]
  BY <1>g DEF Parked, Rows
<1> HIDE DEF new
<1>2. rows.step[g] = "pending" /\ \A i \in Runnable(rows) : g <= i
  BY DEF IsNext, Runnable
<1>3. WaitsFor(new, g)
  <2> DEFINE T == {i \in Steps : new.step[i] = "pending" /\ i \notin Dependents(g)}
  <2> SUFFICES ASSUME T # {} PROVE FALSE
    BY DEF WaitsFor
  <2>1. PICK i \in T : \A j \in T : i <= j
    BY LeastStep
  <2>2. i \in Steps /\ i # g /\ rows.step[i] = "pending" /\ i \notin Dependents(g)
    BY <1>1
  <2>3. i < g
    BY <1>g, <2>2, StepsAreNat DEF OneGate
  <2>4. ASSUME NEW d \in Deps[i] PROVE rows.step[d] = "completed"
    <3>1. d \in Steps /\ d < i
      BY <2>2, DependsBack
    <3>2. d \notin T /\ d # g
      BY <1>g, <2>1, <2>2, <2>3, <3>1, StepsAreNat
    <3>3. d \notin Dependents(g)
      BY <1>g, <2>2, ChildOf
    <3> QED
      BY <1>1, <3>1, <3>2, <3>3
  <2>5. i \in Runnable(rows)
    BY <2>2, <2>4 DEF Runnable
  <2> QED
    BY <1>2, <1>g, <2>2, <2>3, <2>5, StepsAreNat
<1>4. Runnable(new) = {}
  <2> DEFINE S == {k \in Steps : \E d \in Deps[k] : new.step[d] # "completed"}
  <2>1. ASSUME NEW k \in Steps, Deps[k] \cap (S \cup {g}) # {} PROVE k \in S
    <3>1. PICK d \in Deps[k] : d \in S \/ d = g
      BY <2>1
    <3>2. d \in Steps
      BY DependsBack
    <3>3. new.step[d] # "completed"
      <4>1. CASE d = g
        BY <1>1, <3>2, <4>1
      <4>2. CASE d # g /\ d \in S
        <5>1. PICK e \in Deps[d] : new.step[e] # "completed"
          BY <4>2
        <5>2. e \in Steps
          BY <3>2, DependsBack
        <5>3. rows.step[e] # "completed"
          BY <1>1, <1>2, <5>1, <5>2
        <5> QED
          BY <1>1, <3>2, <4>2, <5>3
      <4> QED
        BY <3>1, <4>1, <4>2
    <3> QED
      BY <3>3
  <2>2. Dependents(g) \subseteq S
    BY <1>g, <2>1, DependentsLeast
  <2> QED
    BY <1>3, <2>2 DEF Runnable, WaitsFor
<1>5. Cascaded(new)
  BY <1>1, DependsBack DEF Cascaded, Bad
<1>6. OnlyGateWaits(new)
  BY <1>1 DEF OnlyGateWaits
<1>7. Open(new, g)
  BY <1>g, <1>1, <1>3, <1>4 DEF Open
<1> QED
  BY <1>5, <1>6, <1>7 DEF Settled, OneGate, new

\* The whole of a run is written.
LEMMA MergeAll ==
    ASSUME NEW base \in Rows, NEW rows \in Rows, NEW cells, Cells \subseteq cells
    PROVE  Merge(base, rows, cells) = rows
<1> DEFINE new == Merge(base, rows, cells)
<1>1. /\ RunCell \in cells /\ DraftCell \in cells
      /\ \A i \in Steps : <<"step", i>> \in cells /\ <<"gate", i>> \in cells
                          /\ <<"shown", i>> \in cells
  BY DEF Cells
<1>2. new \in Rows
  BY MergeType
<1>m. new = Merge(base, rows, cells)
  OBVIOUS
<1> HIDE DEF new
<1>3. /\ new.run = rows.run /\ new.draft = rows.draft
      /\ \A i \in Steps : new.step[i] = rows.step[i] /\ new.gate[i] = rows.gate[i]
                          /\ new.shown[i] = rows.shown[i]
  <2>1. /\ new.run = IF RunCell \in cells THEN rows.run ELSE base.run
        /\ new.draft = IF DraftCell \in cells THEN rows.draft ELSE base.draft
        /\ \A i \in Steps :
            /\ new.step[i] = IF <<"step", i>> \in cells THEN rows.step[i] ELSE base.step[i]
            /\ new.gate[i] = IF <<"gate", i>> \in cells THEN rows.gate[i] ELSE base.gate[i]
            /\ new.shown[i] = IF <<"shown", i>> \in cells THEN rows.shown[i] ELSE base.shown[i]
    BY <1>m, MergeCells
  <2> QED
    BY <1>1, <2>1
<1>4. new.step = rows.step /\ new.gate = rows.gate /\ new.shown = rows.shown
  BY <1>2, <1>3 DEF Rows
<1> QED
  BY <1>2, <1>3, <1>4, <1>m DEF Rows

LEMMA FreshLater == ASSUME NEW rows PROVE Later(Fresh, rows)
<1>1. Gated \subseteq Steps
  BY PlanAssumption DEF ValidPlan
<1> QED
  BY <1>1 DEF Later, Fresh, Verdicts

LEMMA RunPark ==
    ASSUME TypeOK, RestInv, RunInv, OneGate, NEW s \in Session, NEW g \in Steps, DrivePark(s, g)
    PROVE  RunInv'
<1> DEFINE rows == Parked(mem[s], g)
<1>1. /\ pc[s] = "drive" /\ pc'[s] = "commit" /\ mem'[s] = rows /\ lock' = s
      /\ lock \in {s, NoSession} /\ g \in Gated /\ IsNext(mem[s], g)
      /\ dirty'[s] = dirty[s] \cup Changed(mem[s], rows) \cup {}
      /\ OthersStand(s) /\ db' = db
  BY FlushDoes DEF DrivePark
<1>2. Driving(s) /\ mem[s] \in Rows /\ db \in Rows /\ rows \in Rows
  BY <1>1, DriverHolds, ParkedType
<1>3. mem[s].step[g] = "pending" /\ Runnable(mem[s]) # {}
  BY <1>1 DEF IsNext, Runnable
<1>4. Creating(s)
  BY <1>1, <1>2, <1>3, PassingFindsNothing DEF Driving, Deciding
<1>5. \A i \in Steps : mem[s].step[i] # "running"
  BY <1>1 DEF RestInv
<1>6. Settled(rows)
  BY <1>1, <1>2, <1>4, <1>5, ParkSettles DEF Creating
<1> HIDE DEF rows
<1>7. Outcome(s)' = rows
  BY <1>1, <1>2, <1>4, MergeAll DEF Outcome, Creating
<1>8. Later(db, rows)
  BY <1>4, FreshLater DEF Creating
<1>9. SessionInv(s)'
  BY <1>1, <1>6, <1>7, <1>8 DEF SessionInv
<1> QED
  BY <1>1, <1>9, MoveKeeps

\* A flush in the first transaction.
LEMMA CreatingKeeps ==
    ASSUME TypeOK, NEW s \in Session, Creating(s), NEW rows \in Rows, NEW also \in SUBSET Cells,
           Flush(s, rows, also), db' = db,
           \A i \in Steps : rows.gate[i] = "none" /\ rows.step[i] # "awaiting_approval",
           pc'[s] # "final" => \A i \in Steps :
               /\ rows.step[i] \in {"pending", "running", "completed"}
               /\ rows.step[i] # "pending" => \A d \in Deps[i] : rows.step[d] = "completed"
    PROVE  Creating(s)'
<1>1. mem'[s] = rows /\ dirty'[s] = Cells \cup Changed(mem[s], rows) \cup also
  BY DEF Flush, TypeOK, Creating
<1>2. Changed(mem[s], rows) \subseteq Cells
  BY ChangedType DEF TypeOK
<1>3. dirty'[s] = Cells
  BY <1>1, <1>2
<1> QED
  BY <1>1, <1>3 DEF Creating

\* A flush behind the gate, of rows in which no step has become pending.
LEMMA DecidingKeeps ==
    ASSUME TypeOK, NEW s \in Session, Deciding(s), NEW rows \in Rows, NEW also,
           also \subseteq {DraftCell}, Flush(s, rows, also), db' = db, pc[s] # "final",
           \A i \in Steps : /\ rows.gate[i] = mem[s].gate[i]
                            /\ rows.step[i] = "pending" => mem[s].step[i] = "pending",
           \A g \in Gated : rows.step[g] \notin {"pending", "awaiting_approval"}
    PROVE  Deciding(s)'
<1>g. Gated \subseteq Steps
  BY PlanAssumption DEF ValidPlan
<1>1. mem'[s] = rows
  BY DEF Flush, TypeOK
<1>2. /\ RunCell \in dirty[s] => RunCell \in dirty'[s]
      /\ \A i \in Steps :
            /\ <<"step", i>> \in dirty'[s] <=>
                    <<"step", i>> \in dirty[s] \/ mem[s].step[i] # rows.step[i]
            /\ <<"gate", i>> \in dirty'[s] <=> <<"gate", i>> \in dirty[s]
  <2>1. \A i \in Steps : <<"step", i>> \notin also /\ <<"gate", i>> \notin also
    BY CellsDiffer
  <2>2. /\ RunCell \in dirty'[s] <=>
                RunCell \in dirty[s] \cup also \/ mem[s].run # rows.run
        /\ DraftCell \in dirty'[s] <=>
                DraftCell \in dirty[s] \cup also \/ mem[s].draft # rows.draft
        /\ \A i \in Steps :
            /\ <<"step", i>> \in dirty'[s] <=>
                    <<"step", i>> \in dirty[s] \cup also \/ mem[s].step[i] # rows.step[i]
            /\ <<"gate", i>> \in dirty'[s] <=>
                    <<"gate", i>> \in dirty[s] \cup also \/ mem[s].gate[i] # rows.gate[i]
            /\ <<"shown", i>> \in dirty'[s] <=>
                    <<"shown", i>> \in dirty[s] \cup also \/ mem[s].shown[i] # rows.shown[i]
    BY FlushMarks
  <2> QED
    BY <2>1, <2>2
<1>3. Reached'
  BY DEF Deciding, Reached
<1>4. ASSUME NEW i \in Steps
      PROVE  /\ db.step[i] = "pending" /\ rows.step[i] # "pending" => <<"step", i>> \in dirty'[s]
             /\ rows.step[i] = "pending" /\ <<"step", i>> \in dirty'[s] => db.step[i] = "pending"
  BY <1>2 DEF Deciding
<1>5. ASSUME NEW g \in Gated
      PROVE  /\ \/ db.gate[g] \in Verdicts
                \/ <<"gate", g>> \in dirty'[s] /\ <<"step", g>> \in dirty'[s]
             /\ <<"gate", g>> \in dirty'[s] => rows.gate[g] \in Verdicts
  BY <1>2, <1>g DEF Deciding
<1>6. RunCell \in dirty'[s] \/ db.run \in RunTerminal
  BY <1>2 DEF Deciding
<1> QED
  BY <1>1, <1>3, <1>4, <1>5, <1>6 DEF Deciding

LEMMA RunStart ==
    ASSUME TypeOK, RestInv, RunInv, OneGate, NEW s \in Session, NEW i \in Steps, DriveStart(s, i)
    PROVE  RunInv'
<1> DEFINE rows == [mem[s] EXCEPT !.step[i] = "running"]
<1>1. /\ pc[s] = "drive" /\ pc'[s] = "run" /\ mem'[s] = rows /\ lock' = s /\ at'[s] = i
      /\ lock \in {s, NoSession} /\ i \notin Gated /\ i \in Runnable(mem[s])
      /\ OthersStand(s) /\ db' = db /\ Flush(s, rows, {})
  BY FlushDoes DEF DriveStart, IsNext, TypeOK
<1>2. Driving(s) /\ mem[s] \in Rows /\ Gated \subseteq Steps
  BY <1>1, DriverHolds
<1>3. /\ \A j \in Steps : rows.step[j] = IF j = i THEN "running" ELSE mem[s].step[j]
      /\ \A j \in Steps : rows.gate[j] = mem[s].gate[j]
      /\ rows \in Rows
  BY <1>2 DEF Rows, StepStatus
<1> HIDE DEF rows
<1>4. mem[s].step[i] = "pending" /\ \A d \in Deps[i] : mem[s].step[d] = "completed"
  BY <1>1 DEF Runnable
<1>5. Cascaded(rows) /\ OnlyGateWaits(rows)
  <2>1. Cascaded(mem[s]) /\ OnlyGateWaits(mem[s])
    BY <1>2 DEF Driving
  <2>2. Cascaded(rows)
    BY <1>3, <2>1, DependsBack DEF Cascaded, Bad
  <2>3. OnlyGateWaits(rows)
    BY <1>3, <2>1 DEF OnlyGateWaits
  <2> QED
    BY <2>2, <2>3
<1>6. ASSUME Creating(s) PROVE Creating(s)'
  <2>1. \A j \in Steps : rows.gate[j] = "none" /\ rows.step[j] # "awaiting_approval"
    BY <1>3, <1>6 DEF Creating
  <2>2. ASSUME NEW j \in Steps
        PROVE  /\ rows.step[j] \in {"pending", "running", "completed"}
               /\ rows.step[j] # "pending" => \A d \in Deps[j] : rows.step[d] = "completed"
    <3>1. /\ mem[s].step[j] \in {"pending", "running", "completed"}
          /\ mem[s].step[j] # "pending" => \A d \in Deps[j] : mem[s].step[d] = "completed"
      BY <1>1, <1>6 DEF Creating
    <3> QED
      BY <1>3, <1>4, <3>1, DependsBack
  <2> QED
    BY <1>1, <1>3, <1>6, <2>1, <2>2, CreatingKeeps
<1>7. ASSUME Deciding(s) PROVE Deciding(s)'
  <2>1. \A g \in Gated : rows.step[g] \notin {"pending", "awaiting_approval"}
    BY <1>1, <1>2, <1>3, <1>7 DEF Deciding
  <2> QED
    BY <1>1, <1>3, <1>7, <2>1, DecidingKeeps
<1>8. ~Passing(s)
  BY <1>1, PassingFindsNothing
<1>9. rows.step[i] = "running"
  BY <1>3
<1>10. SessionInv(s)'
  BY <1>1, <1>2, <1>5, <1>6, <1>7, <1>8, <1>9 DEF SessionInv, Driving
<1> QED
  BY <1>1, <1>10, MoveKeeps

LEMMA RunSucceeds ==
    ASSUME TypeOK, RunInv, OneGate, NEW s \in Session, NEW o, AttemptSucceeds(s, o)
    PROVE  RunInv'
<1> DEFINE a == at[s]
           rows == [mem[s] EXCEPT !.step[a] = "completed",
                                  !.draft = IF a = Composer THEN drafts + 1 ELSE @]
<1>1. /\ pc[s] = "run" /\ pc'[s] = "drive" /\ mem'[s] = rows /\ lock' = s
      /\ lock \in {s, NoSession}
      /\ OthersStand(s) /\ db' = db /\ Flush(s, rows, {DraftCell})
  BY FlushDoes DEF AttemptSucceeds
<1>2. Driving(s) /\ mem[s] \in Rows /\ Gated \subseteq Steps /\ a \in Steps /\ drafts \in Nat
  BY <1>1, DriverHolds DEF TypeOK
<1>3. /\ \A j \in Steps : rows.step[j] = IF j = a THEN "completed" ELSE mem[s].step[j]
      /\ \A j \in Steps : rows.gate[j] = mem[s].gate[j]
      /\ rows \in Rows
  <2>1. (IF a = Composer THEN drafts + 1 ELSE mem[s].draft) \in Nat
    BY <1>2 DEF Rows
  <2> QED
    BY <1>2, <2>1 DEF Rows, StepStatus
<1>4. mem[s].step[a] = "running"
  BY <1>1, <1>2 DEF Driving
<1>c. DraftCell \in Cells
  BY DEF Cells
<1> HIDE DEF rows, a
<1>5. Cascaded(rows) /\ OnlyGateWaits(rows)
  <2>1. Cascaded(mem[s]) /\ OnlyGateWaits(mem[s])
    BY <1>2 DEF Driving
  <2>2. Cascaded(rows)
    BY <1>3, <2>1, DependsBack DEF Cascaded, Bad
  <2>3. OnlyGateWaits(rows)
    BY <1>3, <2>1 DEF OnlyGateWaits
  <2> QED
    BY <2>2, <2>3
<1>6. ASSUME Creating(s) PROVE Creating(s)'
  <2>1. \A j \in Steps : rows.gate[j] = "none" /\ rows.step[j] # "awaiting_approval"
    BY <1>3, <1>6 DEF Creating
  <2>2. ASSUME NEW j \in Steps
        PROVE  /\ rows.step[j] \in {"pending", "running", "completed"}
               /\ rows.step[j] # "pending" => \A d \in Deps[j] : rows.step[d] = "completed"
    <3>1. /\ mem[s].step[j] \in {"pending", "running", "completed"}
          /\ mem[s].step[j] # "pending" => \A d \in Deps[j] : mem[s].step[d] = "completed"
      BY <1>1, <1>6 DEF Creating
    <3> QED
      BY <1>3, <1>4, <3>1, DependsBack
  <2> QED
    BY <1>1, <1>3, <1>6, <1>c, <2>1, <2>2, CreatingKeeps
<1>7. ASSUME Deciding(s) PROVE Deciding(s)'
  <2>1. \A g \in Gated : rows.step[g] \notin {"pending", "awaiting_approval"}
    BY <1>2, <1>3, <1>7 DEF Deciding
  <2>2. \A j \in Steps : rows.step[j] = "pending" => mem[s].step[j] = "pending"
    BY <1>3
  <2>3. pc[s] # "final"
    BY <1>1
  <2> QED
    BY <1>1, <1>3, <1>7, <2>1, <2>2, <2>3, DecidingKeeps
<1>8. ~Passing(s)
  BY <1>1 DEF Passing
<1>9. SessionInv(s)'
  BY <1>1, <1>2, <1>5, <1>6, <1>7, <1>8 DEF SessionInv, Driving
<1> QED
  BY <1>1, <1>9, MoveKeeps

LEMMA RunFails ==
    ASSUME TypeOK, RunInv, OneGate, NEW s \in Session, NEW o, AttemptFails(s, o)
    PROVE  RunInv'
<1> DEFINE a == at[s]
           left == [mem[s] EXCEPT !.step[a] = "failed"]
           rows == CascadeSkip(left, a)
<1>1. /\ pc[s] = "run" /\ pc'[s] = "final" /\ mem'[s] = rows /\ lock' = s
      /\ lock \in {s, NoSession}
      /\ OthersStand(s) /\ db' = db /\ Flush(s, rows, {})
  BY FlushDoes DEF AttemptFails
<1>2. Driving(s) /\ mem[s] \in Rows /\ Gated \subseteq Steps /\ a \in Steps
  BY <1>1, DriverHolds
<1>3. /\ \A j \in Steps : left.step[j] = IF j = a THEN "failed" ELSE mem[s].step[j]
      /\ \A j \in Steps : left.gate[j] = mem[s].gate[j]
      /\ left \in Rows
  BY <1>2 DEF Rows, StepStatus
<1> HIDE DEF left
<1>4. /\ rows.gate = left.gate
      /\ \A j \in Steps : rows.step[j] = IF j \in Dependents(a) /\ left.step[j] = "pending"
                                         THEN "skipped" ELSE left.step[j]
      /\ rows \in Rows
  BY <1>2, <1>3, CascadeSkipType DEF CascadeSkip, Rows
<1>5. Cascaded(mem[s]) /\ OnlyGateWaits(mem[s])
  BY <1>2 DEF Driving
<1>6. Cascaded(rows)
  <2>1. \A k \in Steps : left.step[k] = "pending" =>
            \A d \in Deps[k] \ {a} : left.step[d] \notin Bad
    BY <1>3, <1>5, DependsBack DEF Cascaded
  <2>2. left.step[a] # "pending"
    BY <1>2, <1>3
  <2> QED
    BY <1>2, <1>3, <2>1, <2>2, CascadeCascades
<1> HIDE DEF rows, a
<1>7. OnlyGateWaits(rows)
  BY <1>3, <1>4, <1>5 DEF OnlyGateWaits
<1>8. Ended(rows)
  BY <1>2, <1>3, <1>4 DEF Ended
<1>9. ASSUME Creating(s) PROVE Creating(s)'
  <2>1. \A j \in Steps : rows.gate[j] = "none" /\ rows.step[j] # "awaiting_approval"
    BY <1>3, <1>4, <1>9 DEF Creating
  <2> QED
    BY <1>1, <1>4, <1>9, <2>1, CreatingKeeps
<1>10. ASSUME Deciding(s) PROVE Deciding(s)'
  <2>1. \A g \in Gated : rows.step[g] \notin {"pending", "awaiting_approval"}
    BY <1>2, <1>3, <1>4, <1>10 DEF Deciding
  <2>2. \A j \in Steps : /\ rows.gate[j] = mem[s].gate[j]
                         /\ rows.step[j] = "pending" => mem[s].step[j] = "pending"
    BY <1>3, <1>4
  <2>3. pc[s] # "final"
    BY <1>1
  <2> QED
    BY <1>1, <1>4, <1>10, <2>1, <2>2, <2>3, DecidingKeeps
<1>11. ~Passing(s)
  BY <1>1 DEF Passing
<1>12. SessionInv(s)'
  BY <1>1, <1>2, <1>6, <1>7, <1>8, <1>9, <1>10, <1>11 DEF SessionInv, Driving
<1> QED
  BY <1>1, <1>12, MoveKeeps

\* The end of the run's first transaction.
LEMMA FirstEnd ==
    ASSUME NEW rows \in Rows, Cascaded(rows), OnlyGateWaits(rows),
           rows.run \in {"completed", "failed"},
           \A i \in Steps : rows.gate[i] = "none" /\ rows.step[i] # "awaiting_approval"
    PROVE  Settled(rows)
<1>1. Gated \subseteq Steps
  BY PlanAssumption DEF ValidPlan
<1> QED
  BY <1>1 DEF Settled, Unreached, RunTerminal

LEMMA RunFinalize ==
    ASSUME TypeOK, RestInv, RunInv, OneGate, NEW s \in Session, Finalize(s)
    PROVE  RunInv'
<1> DEFINE rows == Finalized(mem[s])
           new == Merge(db, rows, dirty'[s])
<1>1. /\ pc[s] = "final" /\ pc'[s] = "commit" /\ db' = db
      /\ op' = op /\ at' = at
  BY DEF Finalize, Goto, TypeOK
<1>2. /\ lock = s /\ Driving(s) /\ mem[s] \in Rows /\ db \in Rows
      /\ dirty[s] \in SUBSET Cells /\ Gated \subseteq Steps
  BY <1>1, DriverHolds
<1>3. /\ rows \in Rows
      /\ rows.step = mem[s].step /\ rows.gate = mem[s].gate
      /\ rows.draft = mem[s].draft /\ rows.shown = mem[s].shown
  BY <1>2, FinalizedType, FinalizedKeeps
<1>f. (rows = mem[s] /\ UNCHANGED <<lock, mem, dirty>>) \/ Flush(s, rows, {})
  BY DEF Finalize
<1>e. /\ (\E i \in Steps : mem[s].step[i] = "failed") => rows.run = "failed"
      /\ (\A i \in Steps : mem[s].step[i] # "failed") =>
            ((\E i \in Steps : mem[s].step[i] = "awaiting_approval") =>
                rows.run = "awaiting_approval")
  BY <1>2 DEF Finalized, Rows
<1>r. /\ Cascaded(mem[s]) /\ OnlyGateWaits(mem[s]) /\ Ended(mem[s])
      /\ \A i \in Steps : mem[s].step[i] # "running"
  BY <1>1, <1>2 DEF Driving, RestInv
<1>t. (\A i \in Steps : mem[s].step[i] # "awaiting_approval") =>
          rows.run \in {"completed", "failed"}
  BY <1>2, <1>r, FinalRun
<1>m. new = Merge(db, rows, dirty'[s])
  OBVIOUS
<1> HIDE DEF rows, new
<1>4. mem'[s] = rows /\ lock' = s /\ OthersStand(s)
  <2>1. CASE rows = mem[s] /\ UNCHANGED <<lock, mem, dirty>>
    BY <1>1, <1>2, <2>1 DEF Finalize, Goto, TypeOK, OthersStand
  <2>2. CASE Flush(s, rows, {})
    BY <1>1, <2>2 DEF Flush, Finalize, Goto, TypeOK, OthersStand
  <2> QED
    BY <1>f, <2>1, <2>2
<1>5. /\ RunCell \in dirty'[s] <=> RunCell \in dirty[s] \/ mem[s].run # rows.run
      /\ DraftCell \in dirty'[s] <=> DraftCell \in dirty[s]
      /\ \A i \in Steps : /\ <<"step", i>> \in dirty'[s] <=> <<"step", i>> \in dirty[s]
                          /\ <<"gate", i>> \in dirty'[s] <=> <<"gate", i>> \in dirty[s]
                          /\ <<"shown", i>> \in dirty'[s] <=> <<"shown", i>> \in dirty[s]
  <2>1. CASE rows = mem[s] /\ UNCHANGED <<lock, mem, dirty>>
    BY <2>1
  <2>2. CASE Flush(s, rows, {})
    <3>1. dirty[s] \cup {} = dirty[s]
      OBVIOUS
    <3>2. /\ RunCell \in dirty'[s] <=> RunCell \in dirty[s] \/ mem[s].run # rows.run
          /\ DraftCell \in dirty'[s] <=> DraftCell \in dirty[s] \/ mem[s].draft # rows.draft
          /\ \A i \in Steps :
                /\ <<"step", i>> \in dirty'[s] <=>
                        <<"step", i>> \in dirty[s] \/ mem[s].step[i] # rows.step[i]
                /\ <<"gate", i>> \in dirty'[s] <=>
                        <<"gate", i>> \in dirty[s] \/ mem[s].gate[i] # rows.gate[i]
                /\ <<"shown", i>> \in dirty'[s] <=>
                        <<"shown", i>> \in dirty[s] \/ mem[s].shown[i] # rows.shown[i]
      BY <1>3, <2>2, <3>1, FlushMarks
    <3> QED
      BY <1>3, <3>2
  <2> QED
    BY <1>f, <2>1, <2>2
<1>6. /\ new.run = IF RunCell \in dirty'[s] THEN rows.run ELSE db.run
      /\ new.draft = IF DraftCell \in dirty'[s] THEN rows.draft ELSE db.draft
      /\ \A i \in Steps :
          /\ new.step[i] = IF <<"step", i>> \in dirty'[s] THEN rows.step[i] ELSE db.step[i]
          /\ new.gate[i] = IF <<"gate", i>> \in dirty'[s] THEN rows.gate[i] ELSE db.gate[i]
          /\ new.shown[i] = IF <<"shown", i>> \in dirty'[s] THEN rows.shown[i] ELSE db.shown[i]
  BY <1>2, <1>3, <1>m, MergeCells
<1>s. /\ Cascaded(rows) <=> Cascaded(mem[s])
      /\ OnlyGateWaits(rows) <=> OnlyGateWaits(mem[s])
  BY <1>3 DEF Cascaded, OnlyGateWaits
<1>7. ASSUME Creating(s) PROVE Settled(new) /\ Later(db, new)
  <2>1. Cells \subseteq dirty'[s]
    <3>1. CASE rows = mem[s] /\ UNCHANGED <<lock, mem, dirty>>
      BY <1>7, <3>1 DEF Creating
    <3>2. CASE Flush(s, rows, {})
      BY <1>7, <3>2 DEF Creating, Flush, TypeOK
    <3> QED
      BY <1>f, <3>1, <3>2
  <2>2. new = rows
    BY <1>2, <1>3, <1>m, <2>1, MergeAll
  <2>3. \A i \in Steps : mem[s].gate[i] = "none" /\ mem[s].step[i] # "awaiting_approval"
    BY <1>7 DEF Creating
  <2>4. rows.run \in {"completed", "failed"}
    BY <1>t, <2>3
  <2>5. Settled(rows)
    BY <1>3, <1>r, <1>s, <2>3, <2>4, FirstEnd
  <2> QED
    BY <1>7, <2>2, <2>5, FreshLater DEF Creating
<1>8. ASSUME Passing(s) PROVE Settled(new) /\ Later(db, new)
  <2>1. Settled(db) /\ \E g \in Gated : Open(db, g)
    BY <1>8, PassingFindsNothing
  <2>2. db.run = "awaiting_approval" /\ rows.run = "awaiting_approval"
    <3>1. PICK g \in Gated : Open(db, g)
      BY <2>1
    <3>2. mem[s].step = db.step
      BY <1>8 DEF Passing
    <3> QED
      BY <1>2, <1>e, <3>1, <3>2 DEF Open
  <2>3. dirty[s] = {RunCell} /\ \A i \in Steps : /\ <<"step", i>> \notin dirty[s]
                                                 /\ <<"gate", i>> \notin dirty[s]
                                                 /\ <<"shown", i>> \notin dirty[s]
    BY <1>8, CellsDiffer DEF Passing
  <2>4. /\ new.run = db.run /\ new.draft = db.draft
        /\ \A i \in Steps : /\ new.step[i] = db.step[i] /\ new.gate[i] = db.gate[i]
                            /\ new.shown[i] = db.shown[i]
    BY <1>5, <1>6, <2>2, <2>3, CellsDiffer
  <2>5. new = db
    <3>1. new \in Rows
      BY <1>2, <1>3, <1>m, MergeType
    <3>2. new.step = db.step /\ new.gate = db.gate /\ new.shown = db.shown
      BY <1>2, <2>4, <3>1 DEF Rows
    <3> QED
      BY <1>2, <2>4, <3>1, <3>2 DEF Rows
  <2> QED
    BY <2>1, <2>5 DEF Later
<1>9. ASSUME Deciding(s) PROVE Settled(new) /\ Later(db, new)
  <2>1. Reached /\ Cascaded(db) /\ OnlyGateWaits(db)
    BY <1>9, RestingRows DEF Deciding
  <2>2. \A g \in Gated : Open(db, g) \/ Closed(db, g)
    BY <2>1, RestingRows
  <2>3. \A i \in Steps : mem[s].step[i] # "awaiting_approval"
    BY <1>9, <1>r DEF Deciding, OnlyGateWaits
  <2>4. rows.run \in {"completed", "failed"}
    BY <1>t, <2>3
  <2>5. new.run \in RunTerminal
    BY <1>1, <1>5, <1>6, <1>9, <2>4 DEF Deciding, RunTerminal
  <2>6. ASSUME NEW i \in Steps, new.step[i] = "pending"
        PROVE  mem[s].step[i] = "pending" /\ db.step[i] = "pending"
    BY <1>3, <1>5, <1>6, <1>9, <2>6 DEF Deciding
  <2>7. ASSUME NEW i \in Steps PROVE new.step[i] \in {mem[s].step[i], db.step[i]}
    BY <1>3, <1>6
  <2>8. Cascaded(new)
    <3> SUFFICES ASSUME NEW k \in Steps, new.step[k] = "pending", NEW d \in Deps[k]
                 PROVE  new.step[d] \notin Bad
      BY DEF Cascaded
    <3>1. mem[s].step[d] \notin Bad /\ db.step[d] \notin Bad /\ d \in Steps
      BY <1>r, <2>1, <2>6, DependsBack DEF Cascaded
    <3> QED
      BY <2>7, <3>1
  <2>9. OnlyGateWaits(new)
    <3> SUFFICES ASSUME NEW i \in Steps \ Gated
                 PROVE  new.gate[i] = "none" /\ new.step[i] # "awaiting_approval"
      BY DEF OnlyGateWaits
    <3>1. /\ mem[s].gate[i] = "none" /\ mem[s].step[i] # "awaiting_approval"
          /\ db.gate[i] = "none" /\ db.step[i] # "awaiting_approval"
      BY <1>r, <2>1 DEF OnlyGateWaits
    <3> QED
      BY <1>3, <1>6, <3>1
  <2>10. ASSUME NEW g \in Gated PROVE Closed(new, g)
    <3>1. g \in Steps /\ (Open(db, g) \/ Closed(db, g))
      BY <1>2, <2>2
    <3>2. /\ mem[s].step[g] \notin {"pending", "awaiting_approval"}
          /\ \/ db.gate[g] \in Verdicts
             \/ <<"gate", g>> \in dirty[s] /\ <<"step", g>> \in dirty[s]
          /\ <<"gate", g>> \in dirty[s] => mem[s].gate[g] \in Verdicts
      BY <1>9 DEF Deciding
    <3>3. new.gate[g] \in Verdicts
      BY <1>3, <1>5, <1>6, <3>1, <3>2
    <3>4. new.step[g] \notin {"pending", "awaiting_approval"}
      <4>1. CASE <<"step", g>> \in dirty[s]
        BY <1>3, <1>5, <1>6, <3>1, <3>2, <4>1
      <4>2. CASE <<"step", g>> \notin dirty[s]
        <5>1. Closed(db, g)
          BY <3>1, <3>2, <4>2 DEF Open, Verdicts
        <5> QED
          BY <1>5, <1>6, <3>1, <4>2, <5>1 DEF Closed
      <4> QED
        BY <4>1, <4>2
    <3>5. WaitsFor(new, g)
      BY <2>6, <3>1 DEF WaitsFor, Open, Closed
    <3> QED
      BY <2>5, <3>3, <3>4, <3>5 DEF Closed
  <2>11. Settled(new)
    BY <2>1, <2>5, <2>8, <2>9, <2>10 DEF Settled
  <2>12. Later(db, new)
    BY <2>6, <2>10 DEF Later, Closed, Verdicts
  <2> QED
    BY <2>11, <2>12
<1>10. Settled(new) /\ Later(db, new)
  BY <1>2, <1>7, <1>8, <1>9 DEF Driving
<1>11. Outcome(s)' = new
  BY <1>1, <1>4, <1>m DEF Outcome
<1>12. SessionInv(s)'
  BY <1>1, <1>4, <1>10, <1>11 DEF SessionInv
<1> QED
  BY <1>1, <1>2, <1>4, <1>12, MoveKeeps

LEMMA RunProceed ==
    ASSUME TypeOK, RestInv, DraftsInv, RunInv, OneGate, NEW s \in Session, Proceed(s)
    PROVE  RunInv'
<1>1. CASE ReadRest(s)
  BY <1>1, RunReadRest
<1>2. CASE ApplyCreate(s)
  BY <1>2, RunCreate
<1>3. CASE CreateConflict(s)
  BY <1>3, RunConflict
<1>4. CASE ApplyExecute(s)
  BY <1>4, RunExecute
<1>5. CASE ApplyApprove(s)
  BY <1>5, RunApprove
<1>6. CASE ApplyReject(s)
  BY <1>6, RunReject
<1>7. CASE ApplyRedraft(s)
  BY <1>7, RunRedraft
<1>8. CASE ApplyCancel(s)
  BY <1>8, RunCancel
<1>9. CASE DriveNothingLeft(s)
  BY <1>9, RunNothingLeft
<1>10. ASSUME NEW i \in Steps, DrivePark(s, i) PROVE RunInv'
  BY <1>10, RunPark
<1>11. ASSUME NEW i \in Steps, DriveStart(s, i) PROVE RunInv'
  BY <1>11, RunStart
<1>12. ASSUME NEW o, AttemptSucceeds(s, o) PROVE RunInv'
  BY <1>12, RunSucceeds
<1>13. ASSUME NEW o, AttemptRetries(s, o) PROVE RunInv'
  BY <1>13, RunRetries
<1>14. ASSUME NEW o, AttemptFails(s, o) PROVE RunInv'
  BY <1>14, RunFails
<1>15. CASE Finalize(s)
  BY <1>15, RunFinalize
<1>16. CASE Commit(s)
  BY <1>16, RunCommit
<1> QED
  BY <1>1, <1>2, <1>3, <1>4, <1>5, <1>6, <1>7, <1>8, <1>9, <1>10, <1>11, <1>12,
     <1>13, <1>14, <1>15, <1>16 DEF Proceed

LEMMA RunStep ==
    ASSUME TypeOK, RestInv, DraftsInv, RunInv, OneGate, [Next]_vars
    PROVE  RunInv'
<1>1. CASE Next
  <2>1. PICK s \in Session : Arrive(s) \/ Proceed(s) \/ Abort(s)
    BY <1>1 DEF Next
  <2> QED
    BY <2>1, RunArrive, RunProceed, RunAbort
<1>2. CASE UNCHANGED vars
  BY <1>2, RunStutter DEF vars, session
<1> QED
  BY <1>1, <1>2

-----------------------------------------------------------------------------

\* Rows that use draft numbers up to n.
KnownBy(rows, n) == rows.draft <= n /\ \A i \in Steps : rows.shown[i] <= n

LEMMA DraftsInit == Init => DraftsInv
BY DEF Init, DraftsInv, Fresh

\* One session moves, and what it writes is known.
LEMMA DraftsMove ==
    ASSUME TypeOK, DraftsInv, NEW s \in Session,
           drafts' \in Nat, drafts <= drafts', KnownBy(db', drafts'), KnownBy(mem'[s], drafts'),
           edit'[s] <= drafts',
           \A z \in Session \ {s} : mem'[z] = mem[z] /\ edit'[z] = edit[z]
    PROVE  DraftsInv'
<1>1. ASSUME NEW z \in Session
      PROVE  mem'[z].draft <= drafts' /\ \A i \in Steps : mem'[z].shown[i] <= drafts'
  <2>1. CASE z = s
    BY <2>1 DEF KnownBy
  <2>2. CASE z # s
    <3>1. mem[z].draft \in Nat /\ \A i \in Steps : mem[z].shown[i] \in Nat
      BY DEF TypeOK, Rows
    <3>2. drafts \in Nat /\ mem'[z] = mem[z]
      BY <2>2 DEF TypeOK
    <3> QED
      BY <3>1, <3>2 DEF DraftsInv
  <2> QED
    BY <2>1, <2>2
<1>2. ASSUME NEW z \in Session PROVE edit'[z] <= drafts'
  BY DEF DraftsInv, TypeOK
<1> QED
  BY <1>1, <1>2 DEF DraftsInv, KnownBy

\* The same, when no draft is written: the rows are made of known ones.
LEMMA DraftsKeep ==
    ASSUME TypeOK, DraftsInv, NEW s \in Session, NEW rows, KnownBy(rows, drafts),
           drafts' = drafts, edit' = edit, db' = db, mem' = [mem EXCEPT ![s] = rows]
    PROVE  DraftsInv'
<1>1. mem'[s] = rows /\ \A z \in Session \ {s} : mem'[z] = mem[z]
  BY DEF TypeOK
<1>2. KnownBy(db', drafts') /\ drafts' \in Nat /\ edit'[s] <= drafts'
  BY DEF DraftsInv, KnownBy, TypeOK
<1> QED
  BY <1>1, <1>2, DraftsMove

LEMMA DraftsKnown ==
    ASSUME TypeOK, DraftsInv, NEW s \in Session
    PROVE  /\ KnownBy(db, drafts) /\ KnownBy(mem[s], drafts) /\ KnownBy(Fresh, drafts)
           /\ mem[s] \in Rows /\ db \in Rows /\ at[s] \in Steps
           /\ edit[s] <= drafts /\ edit[s] \in Nat /\ drafts \in Nat
BY DEF DraftsInv, KnownBy, TypeOK, Fresh

LEMMA DraftsReset ==
    ASSUME TypeOK, DraftsInv, NEW s \in Session, Reset(s), drafts' = drafts,
           KnownBy(db', drafts)
    PROVE  DraftsInv'
<1>1. /\ mem'[s] = Fresh /\ edit'[s] = 0
      /\ \A z \in Session \ {s} : mem'[z] = mem[z] /\ edit'[z] = edit[z]
  BY DEF Reset, TypeOK
<1> QED
  BY <1>1, DraftsKnown, DraftsMove

LEMMA DraftsArrive ==
    ASSUME TypeOK, DraftsInv, NEW s \in Session, Arrive(s)
    PROVE  DraftsInv'
<1>1. mem' = [mem EXCEPT ![s] = db] /\ db' = db
  BY DEF Arrive, SubmitCreate, SubmitExecute, SubmitApprove, SubmitReject, SubmitRedraft,
         SubmitCancel, Submit
<1>2. CASE edit' = edit /\ drafts' = drafts
  BY <1>1, <1>2, DraftsKnown, DraftsKeep
<1>3. ASSUME NEW i \in Steps, NEW edited \in BOOLEAN, SubmitApprove(s, i, edited)
      PROVE  DraftsInv'
  <2>1. /\ drafts \in Nat /\ drafts' = IF edited THEN drafts + 1 ELSE drafts
        /\ edit' = [edit EXCEPT ![s] = IF edited THEN drafts + 1 ELSE 0]
    BY <1>3 DEF SubmitApprove, TypeOK
  <2>2. /\ drafts' \in Nat /\ drafts <= drafts' /\ edit'[s] <= drafts'
        /\ \A z \in Session \ {s} : mem'[z] = mem[z] /\ edit'[z] = edit[z]
        /\ mem'[s] = db
    BY <1>1, <2>1 DEF TypeOK
  <2>3. KnownBy(db, drafts')
    <3>1. db.draft \in Nat /\ \A j \in Steps : db.shown[j] \in Nat
      BY DEF TypeOK, Rows
    <3> QED
      BY <2>1, <2>2, <3>1, DraftsKnown DEF KnownBy
  <2> QED
    BY <1>1, <2>2, <2>3, DraftsMove
<1> QED
  BY <1>2, <1>3 DEF Arrive, SubmitCreate, SubmitExecute, SubmitReject, SubmitRedraft,
                    SubmitCancel

\* Operations that hand on the drafts they have read.
LEMMA DraftsProceed ==
    ASSUME TypeOK, DraftsInv, NEW s \in Session, Proceed(s)
    PROVE  DraftsInv'
<1>0. /\ KnownBy(db, drafts) /\ KnownBy(mem[s], drafts) /\ KnownBy(Fresh, drafts)
      /\ mem[s] \in Rows /\ db \in Rows /\ at[s] \in Steps
      /\ edit[s] <= drafts /\ edit[s] \in Nat /\ drafts \in Nat
  BY DraftsKnown
<1>k. ASSUME NEW rows, rows.draft = mem[s].draft,
             \A i \in Steps : rows.shown[i] = mem[s].shown[i]
      PROVE  KnownBy(rows, drafts)
  BY <1>0, <1>k DEF KnownBy
<1>1. CASE ReadRest(s)
  <2>1. /\ KnownBy([db EXCEPT !.run = mem[s].run, !.draft = mem[s].draft], drafts)
        /\ KnownBy([db EXCEPT !.gate[at[s]] = mem[s].gate[at[s]],
                              !.shown[at[s]] = mem[s].shown[at[s]]], drafts)
    BY <1>0 DEF KnownBy, Rows
  <2> QED
    BY <1>1, <2>1, DraftsKeep DEF ReadRest
<1>2. CASE ApplyCreate(s)
  <2>1. KnownBy([Fresh EXCEPT !.run = "running"], drafts)
    BY <1>0 DEF KnownBy, Fresh
  <2> QED
    BY <1>2, <2>1, DraftsKeep DEF ApplyCreate, Flush
<1>3. CASE CreateConflict(s)
  BY <1>0, <1>3, DraftsReset DEF CreateConflict
<1>4. CASE ApplyExecute(s)
  <2>1. KnownBy([db EXCEPT !.run = "running", !.draft = mem[s].draft], drafts)
    BY <1>0 DEF KnownBy, Rows
  <2> QED
    BY <1>4, <2>1, DraftsKeep DEF ApplyExecute
<1>5. CASE ApplyApprove(s)
  <2> DEFINE rows == [Decided(mem[s], at[s], "approved") EXCEPT
                        !.draft = IF edit[s] # 0 THEN edit[s] ELSE @,
                        !.run = "running",
                        !.step[at[s]] = "running"]
  <2>1. KnownBy(rows, drafts)
    BY <1>0 DEF KnownBy, Decided, Rows
  <2> QED
    BY <1>5, <2>1, DraftsKeep DEF ApplyApprove, Flush
<1>6. CASE ApplyReject(s)
  <2> DEFINE rows == CascadeSkip([Decided(mem[s], at[s], "rejected") EXCEPT
                                    !.step[at[s]] = "rejected"], at[s])
  <2>1. KnownBy(rows, drafts)
    BY <1>0 DEF KnownBy, Decided, Rows, CascadeSkip
  <2> QED
    BY <1>6, <2>1, DraftsKeep DEF ApplyReject, Flush
<1>7. CASE ApplyRedraft(s)
  <2> DEFINE rows == [mem[s] EXCEPT !.draft = drafts + 1, !.shown[at[s]] = drafts + 1]
  <2>1. /\ drafts' = drafts + 1 /\ mem'[s] = rows /\ edit' = edit /\ db' = db
        /\ \A z \in Session \ {s} : mem'[z] = mem[z]
    BY <1>7 DEF ApplyRedraft, Flush, TypeOK
  <2>2. KnownBy(rows, drafts + 1)
    <3>1. \A i \in Steps : rows.shown[i] = IF i = at[s] THEN drafts + 1 ELSE mem[s].shown[i]
      BY <1>0 DEF Rows
    <3>2. rows.draft = drafts + 1
      BY <1>0 DEF Rows
    <3>3. \A i \in Steps : mem[s].shown[i] \in Nat /\ mem[s].shown[i] <= drafts
      BY <1>0 DEF KnownBy, Rows
    <3> QED
      BY <1>0, <3>1, <3>2, <3>3 DEF KnownBy
  <2>3. KnownBy(db, drafts + 1)
    <3>1. db.draft \in Nat /\ \A i \in Steps : db.shown[i] \in Nat
      BY <1>0 DEF Rows
    <3> QED
      BY <1>0, <3>1 DEF KnownBy
  <2> HIDE DEF rows
  <2> QED
    BY <1>0, <2>1, <2>2, <2>3, DraftsMove
<1>8. CASE ApplyCancel(s)
  <2>1. KnownBy(CancelledRows(mem[s]), drafts)
    BY <1>0 DEF KnownBy, CancelledRows, Rows
  <2> QED
    BY <1>8, <2>1, DraftsKeep DEF ApplyCancel, Flush
<1>9. CASE DriveNothingLeft(s)
  BY <1>9 DEF DriveNothingLeft, DraftsInv
<1>10. ASSUME NEW i \in Steps, DrivePark(s, i) PROVE DraftsInv'
  <2>1. KnownBy(Parked(mem[s], i), drafts)
    BY <1>0 DEF KnownBy, Parked, Rows
  <2> QED
    BY <1>10, <2>1, DraftsKeep DEF DrivePark, Flush
<1>11. ASSUME NEW i \in Steps, DriveStart(s, i) PROVE DraftsInv'
  <2>1. KnownBy([mem[s] EXCEPT !.step[i] = "running"], drafts)
    BY <1>0 DEF KnownBy, Rows
  <2> QED
    BY <1>11, <2>1, DraftsKeep DEF DriveStart, Flush
<1>12. ASSUME NEW o, AttemptSucceeds(s, o) PROVE DraftsInv'
  <2> DEFINE rows == [mem[s] EXCEPT !.step[at[s]] = "completed",
                          !.draft = IF at[s] = Composer THEN drafts + 1 ELSE @]
  <2>1. /\ drafts' = IF at[s] = Composer THEN drafts + 1 ELSE drafts
        /\ mem'[s] = rows /\ edit' = edit /\ db' = db
        /\ \A z \in Session \ {s} : mem'[z] = mem[z]
    BY <1>12 DEF AttemptSucceeds, Flush, TypeOK
  <2>2. /\ rows.draft = IF at[s] = Composer THEN drafts + 1 ELSE mem[s].draft
        /\ rows.shown = mem[s].shown
    BY <1>0 DEF Rows
  <2> HIDE DEF rows
  <2>3. /\ \A i \in Steps : mem[s].shown[i] \in Nat /\ mem[s].shown[i] <= drafts
        /\ \A i \in Steps : db.shown[i] \in Nat /\ db.shown[i] <= drafts
        /\ mem[s].draft \in Nat /\ mem[s].draft <= drafts
        /\ db.draft \in Nat /\ db.draft <= drafts
    BY <1>0 DEF KnownBy, Rows
  <2>4. drafts' \in Nat /\ drafts <= drafts' /\ edit'[s] <= drafts'
    BY <1>0, <2>1
  <2>5. KnownBy(rows, drafts') /\ KnownBy(db, drafts')
    BY <1>0, <2>1, <2>2, <2>3, <2>4 DEF KnownBy
  <2> QED
    BY <2>1, <2>4, <2>5, DraftsMove
<1>13. ASSUME NEW o, AttemptRetries(s, o) PROVE DraftsInv'
  BY <1>13 DEF AttemptRetries, DraftsInv
<1>14. ASSUME NEW o, AttemptFails(s, o) PROVE DraftsInv'
  <2>1. KnownBy(CascadeSkip([mem[s] EXCEPT !.step[at[s]] = "failed"], at[s]), drafts)
    BY <1>0 DEF KnownBy, CascadeSkip, Rows
  <2> QED
    BY <1>14, <2>1, DraftsKeep DEF AttemptFails, Flush
<1>15. CASE Finalize(s)
  <2> DEFINE rows == Finalized(mem[s])
  <2>1. KnownBy(rows, drafts)
    BY <1>0, FinalizedKeeps DEF KnownBy
  <2>2. CASE UNCHANGED <<lock, mem, dirty>>
    BY <1>15, <2>2 DEF Finalize, DraftsInv
  <2>3. CASE Flush(s, rows, {})
    BY <1>15, <2>1, <2>3, DraftsKeep DEF Finalize, Flush
  <2> QED
    BY <1>15, <2>2, <2>3 DEF Finalize
<1>16. CASE Commit(s)
  <2> DEFINE new == Merge(db, mem[s], dirty[s])
  <2>1. new.draft \in {db.draft, mem[s].draft}
    BY DEF Merge
  <2>2. \A i \in Steps : new.shown[i] \in {db.shown[i], mem[s].shown[i]}
    BY DEF Merge
  <2> HIDE DEF new
  <2>3. KnownBy(new, drafts)
    BY <1>0, <2>1, <2>2 DEF KnownBy
  <2> QED
    BY <1>16, <2>3, DraftsReset DEF Commit, new
<1> QED
  BY <1>1, <1>2, <1>3, <1>4, <1>5, <1>6, <1>7, <1>8, <1>9, <1>10, <1>11, <1>12,
     <1>13, <1>14, <1>15, <1>16 DEF Proceed

LEMMA DraftsStep ==
    ASSUME TypeOK, DraftsInv, [Next]_vars
    PROVE  DraftsInv'
<1>1. ASSUME NEW s \in Session, Abort(s) PROVE DraftsInv'
  BY <1>1, DraftsKnown, DraftsReset DEF Abort
<1>2. CASE UNCHANGED vars
  BY <1>2 DEF vars, session, DraftsInv
<1> QED
  BY <1>1, <1>2, DraftsArrive, DraftsProceed DEF Next

LEMMA RunInvGoesOn ==
    ASSUME TypeOK, RunInv, OneGate
    PROVE  RunCanGoOn
<1>1. NothingStranded
  BY RestingRows DEF NothingStranded
<1>2. CASE ~Reached
  <2>1. db.run \in RunTerminal \cup {"absent"} /\ \A i \in Steps : db.gate[i] # "pending"
    BY <1>2, RestingRows
  <2> QED
    BY <1>1, <2>1 DEF RunCanGoOn, ParkedRunIsDecidable, ReviewerSeesTheDraft, RunTerminal
<1>3. CASE Reached
  <2>1. /\ \A g \in Gated : Open(db, g) \/ Closed(db, g)
        /\ OnlyGateWaits(db)
    BY <1>3, RestingRows
  <2>2. ParkedRunIsDecidable
    <3>1. PICK g \in Gated : g \in Steps
      BY <1>3, PlanAssumption DEF Reached, ValidPlan
    <3>2. db.run = "awaiting_approval" => Open(db, g)
      BY <2>1 DEF Closed, RunTerminal
    <3> QED
      BY <3>1, <3>2 DEF ParkedRunIsDecidable, Open
  <2>3. ReviewerSeesTheDraft
    BY <2>1 DEF ReviewerSeesTheDraft, OnlyGateWaits, Open, Closed, Verdicts
  <2> QED
    BY <1>1, <2>2, <2>3 DEF RunCanGoOn
<1> QED
  BY <1>2, <1>3

LEMMA RunInvariant ==
    ASSUME OneGate
    PROVE  Spec => []RunInv
<1>1. TypeOK /\ RestInv /\ [Next]_vars => RestInv'
  <2>1. TypeOK /\ RestInv /\ Next => RestInv'
    BY RestArrive, RestProceed, RestAbort DEF Next
  <2>2. RestInv /\ UNCHANGED vars => RestInv'
    BY DEF RestInv, RestsBetweenSteps, vars, session
  <2> QED
    BY <2>1, <2>2
<1>2. TypeOK /\ DraftsInv /\ [Next]_vars => DraftsInv'
  BY DraftsStep
<1>3. TypeOK /\ RestInv /\ DraftsInv /\ RunInv /\ [Next]_vars => RunInv'
  BY RunStep
<1> QED
  BY RestInit, DraftsInit, RunInit, <1>1, <1>2, <1>3, TypeCorrect, PTL DEF Spec

\* Whatever requests race on a run with one gate, and whatever dies: where the run
\* rests a human can take it on.  Nothing is stranded half-way, a parked run has an
\* approval to decide, and that approval shows the draft that would be sent.
THEOREM RunCanGoOnSafe ==
    ASSUME OneGate
    PROVE  Spec => []RunCanGoOn
<1>1. TypeOK /\ RunInv => RunCanGoOn
  BY RunInvGoesOn
<1> QED
  BY <1>1, RunInvariant, TypeCorrect, PTL

-----------------------------------------------------------------------------
(***************************************************************************)
(* Requests that come one at a time.                                       *)
(*                                                                         *)
(* Of requests that race a commit lays what one session changed over what  *)
(* another left.  Of those that come one at a time it does not: the one at *)
(* work read what is committed, and commits just what it has in hand       *)
(* (OneAtWork).  So what is in hand can be followed through the handler:   *)
(* which steps it skips (SkipInv), and which draft it is about to send     *)
(* (GrantInv).  That one gate is decided once is RunInv's: a run whose     *)
(* gate was decided has ended.                                             *)
(***************************************************************************)

\* What is skipped is what is downstream of a failure or a rejection, and what has been
\* looked at had all it depends on.
Exact(rows) ==
    /\ \A k \in Steps : rows.step[k] = "skipped" <=>
          \E j \in Steps : rows.step[j] \in {"failed", "rejected"} /\ k \in Dependents(j)
    /\ \A k \in Steps : rows.step[k] \notin {"pending", "skipped"} =>
          \A d \in Deps[k] : rows.step[d] = "completed"

Reading == pc[s1] \in {"read", "ready"}
AtWork == pc[s1] \in {"drive", "run", "final", "commit"}

\* Of requests that come one at a time, the one at work knows what is committed, and will
\* commit what it has in hand.
OneAtWork ==
    /\ \A z \in Session \ {s1} : pc[z] = "idle"
    /\ db.run \in RunTerminal => pc[s1] = "idle"
    /\ Reading => mem[s1] = db
    /\ AtWork => Outcome(s1) = mem[s1]

SkipInv ==
    /\ db.run = "cancelled" \/ Exact(db)
    /\ AtWork => Exact(mem[s1]) \/ (pc[s1] = "commit" /\ mem[s1].run = "cancelled")

\* The draft that is about to leave is the one that was granted, and its gate is approved
\* in the copy of whoever sends it.
GrantInv ==
    /\ SentAsGranted
    /\ Reading /\ op[s1] = "approve" =>
          (IF edit[s1] # 0 THEN edit[s1] ELSE db.draft) \in granted[at[s1]]
    /\ pc[s1] = "run" /\ at[s1] \in Gated =>
          mem[s1].draft \in granted[at[s1]] /\ mem[s1].gate[at[s1]] = "approved"
    /\ aborts = 0 => \A i \in Steps : pushed[i] > 0 =>
          db.gate[i] = "approved" \/ (AtWork /\ mem[s1].gate[i] = "approved")

SerialInv == OneAtWork /\ SkipInv /\ GrantInv

\* While a request is under way nothing was decided, and what can be decided is the gate
\* with the draft that it shows.
LEMMA Undecided ==
    ASSUME TypeOK, RunInv, OneGate, db.run \notin RunTerminal
    PROVE  /\ \A i \in Steps : db.gate[i] \in {"none", "pending"}
           /\ \A i \in Steps : db.gate[i] = "pending" =>
                 i \in Gated /\ db.step[i] = "awaiting_approval" /\ db.shown[i] = db.draft
<1>1. OnlyGateWaits(db) /\ Gated \subseteq Steps
  BY RestingRows, PlanAssumption DEF ValidPlan
<1>2. CASE Reached
  <2>1. \A g \in Gated : Open(db, g)
    BY <1>2, RestingRows DEF Closed
  <2> QED
    BY <1>1, <2>1 DEF Open, OnlyGateWaits
<1>3. CASE ~Reached
  <2>1. db = Fresh
    BY <1>3, RestingRows
  <2> QED
    BY <2>1 DEF Fresh
<1> QED
  BY <1>2, <1>3

\* Rows are known by their columns.
LEMMA SameRows ==
    ASSUME NEW a \in Rows, NEW b \in Rows, a.run = b.run, a.draft = b.draft,
           \A i \in Steps : a.step[i] = b.step[i] /\ a.gate[i] = b.gate[i] /\ a.shown[i] = b.shown[i]
    PROVE  a = b
<1>1. a.step = b.step /\ a.gate = b.gate /\ a.shown = b.shown
  BY DEF Rows
<1> QED
  BY <1>1 DEF Rows

LEMMA MergeNothing ==
    ASSUME NEW rows \in Rows
    PROVE  Merge(rows, rows, {}) = rows
<1>1. Merge(rows, rows, {}) \in Rows
  BY MergeType
<1>2. PICK new : new = Merge(rows, rows, {})
  OBVIOUS
<1>3. /\ new.run = rows.run /\ new.draft = rows.draft
      /\ \A i \in Steps : /\ new.step[i] = rows.step[i] /\ new.gate[i] = rows.gate[i]
                          /\ new.shown[i] = rows.shown[i]
  BY <1>2 DEF Merge
<1>4. new = rows
  BY <1>1, <1>2, <1>3, SameRows
<1> QED
  BY <1>2, <1>4

\* A flush keeps that what is committed will be what is in hand.
LEMMA FlushFaithful ==
    ASSUME TypeOK, NEW s \in Session, NEW rows \in Rows, NEW also, Flush(s, rows, also), db' = db,
           Outcome(s) = mem[s]
    PROVE  Outcome(s)' = rows
<1>1. mem'[s] = rows /\ mem[s] \in Rows /\ db \in Rows
  BY DEF Flush, TypeOK
<1>2. PICK new : new = Merge(db, rows, dirty'[s])
  OBVIOUS
<1>3. PICK old : old = Merge(db, mem[s], dirty[s])
  OBVIOUS
<1>4. old = mem[s]
  BY <1>3 DEF Outcome
<1>5. new \in Rows
  BY <1>1, <1>2, MergeType
<1>6. /\ new.run = IF RunCell \in dirty'[s] THEN rows.run ELSE db.run
      /\ new.draft = IF DraftCell \in dirty'[s] THEN rows.draft ELSE db.draft
      /\ \A i \in Steps :
            /\ new.step[i] = IF <<"step", i>> \in dirty'[s] THEN rows.step[i] ELSE db.step[i]
            /\ new.gate[i] = IF <<"gate", i>> \in dirty'[s] THEN rows.gate[i] ELSE db.gate[i]
            /\ new.shown[i] = IF <<"shown", i>> \in dirty'[s] THEN rows.shown[i] ELSE db.shown[i]
  BY <1>2 DEF Merge
<1>7. /\ RunCell \notin dirty[s] => mem[s].run = db.run
      /\ DraftCell \notin dirty[s] => mem[s].draft = db.draft
      /\ \A i \in Steps :
            /\ <<"step", i>> \notin dirty[s] => mem[s].step[i] = db.step[i]
            /\ <<"gate", i>> \notin dirty[s] => mem[s].gate[i] = db.gate[i]
            /\ <<"shown", i>> \notin dirty[s] => mem[s].shown[i] = db.shown[i]
  BY <1>3, <1>4 DEF Merge
<1>8. /\ RunCell \notin dirty'[s] => RunCell \notin dirty[s] /\ mem[s].run = rows.run
      /\ DraftCell \notin dirty'[s] => DraftCell \notin dirty[s] /\ mem[s].draft = rows.draft
      /\ \A i \in Steps :
            /\ <<"step", i>> \notin dirty'[s] => <<"step", i>> \notin dirty[s] /\ mem[s].step[i] = rows.step[i]
            /\ <<"gate", i>> \notin dirty'[s] => <<"gate", i>> \notin dirty[s] /\ mem[s].gate[i] = rows.gate[i]
            /\ <<"shown", i>> \notin dirty'[s] =>
                  <<"shown", i>> \notin dirty[s] /\ mem[s].shown[i] = rows.shown[i]
  BY FlushMarks
<1>9. /\ new.run = rows.run /\ new.draft = rows.draft
      /\ \A i \in Steps : /\ new.step[i] = rows.step[i] /\ new.gate[i] = rows.gate[i]
                          /\ new.shown[i] = rows.shown[i]
  BY <1>6, <1>7, <1>8
<1>10. new = rows
  BY <1>5, <1>9, SameRows
<1> QED
  BY <1>1, <1>2, <1>10 DEF Outcome

\* What a step that has not been completed has downstream was not looked at, so that it is
\* all skipped when the step fails.
LEMMA CascadeExact ==
    ASSUME NEW rows \in Rows, NEW i \in Steps, NEW verdict \in {"failed", "rejected"}, Exact(rows),
           rows.step[i] \in {"running", "awaiting_approval"}
    PROVE  Exact(CascadeSkip([rows EXCEPT !.step[i] = verdict], i))
<1> DEFINE S == {k \in Steps : rows.step[k] \in {"pending", "skipped"}}
           new == CascadeSkip([rows EXCEPT !.step[i] = verdict], i)
<1>1. ASSUME NEW j \in Steps, Deps[j] \cap (S \cup {i}) # {} PROVE j \in S
  BY <1>1 DEF Exact
<1>2. Dependents(i) \subseteq S /\ i \notin S
  BY <1>1, DependentsLeast
<1>3. \A k \in Steps : new.step[k] = IF k = i THEN verdict
                                     ELSE IF k \in Dependents(i) /\ rows.step[k] = "pending"
                                     THEN "skipped" ELSE rows.step[k]
  BY <1>2 DEF CascadeSkip, Rows
<1> HIDE DEF new, S
<1>4. \A k \in Dependents(i) : rows.step[k] \in {"pending", "skipped"}
  BY <1>2 DEF S
<1>5. \A k \in Steps : new.step[k] \in {"failed", "rejected"} <=>
          k = i \/ rows.step[k] \in {"failed", "rejected"}
  BY <1>3
<1>6. \A k \in Steps : new.step[k] = "skipped" <=> k \in Dependents(i) \/ rows.step[k] = "skipped"
  BY <1>2, <1>3, <1>4 DEF S
<1>7. ASSUME NEW k \in Steps
      PROVE  new.step[k] = "skipped" <=>
                \E j \in Steps : new.step[j] \in {"failed", "rejected"} /\ k \in Dependents(j)
  BY <1>5, <1>6 DEF Exact
<1>8. ASSUME NEW k \in Steps, new.step[k] \notin {"pending", "skipped"}, NEW d \in Deps[k]
      PROVE  new.step[d] = "completed"
  <2>1. rows.step[k] \notin {"pending", "skipped"}
    BY <1>3, <1>8
  <2>2. d \in Steps /\ rows.step[d] = "completed"
    BY <1>8, <2>1, DependsBack DEF Exact
  <2> QED
    BY <1>3, <2>2
<1> QED
  BY <1>7, <1>8 DEF Exact, new

\* A step that has all it depends on moves on, without failing.
LEMMA StepExact ==
    ASSUME NEW rows \in Rows, NEW new, Exact(rows), NEW i \in Steps, NEW st \in StepStatus \ {"skipped"},
           st \notin {"pending", "failed", "rejected"},
           rows.step[i] \notin {"skipped", "failed", "rejected", "completed"},
           \A d \in Deps[i] : rows.step[d] = "completed",
           \A k \in Steps : new.step[k] = IF k = i THEN st ELSE rows.step[k]
    PROVE  Exact(new)
<1>1. \A k \in Steps : new.step[k] = "skipped" <=> rows.step[k] = "skipped"
  OBVIOUS
<1>2. \A k \in Steps : new.step[k] \in {"failed", "rejected"} <=> rows.step[k] \in {"failed", "rejected"}
  OBVIOUS
<1>3. ASSUME NEW k \in Steps, new.step[k] \notin {"pending", "skipped"}, NEW d \in Deps[k]
      PROVE  new.step[d] = "completed"
  <2>1. d \in Steps /\ rows.step[d] = "completed"
    BY <1>3, DependsBack DEF Exact
  <2> QED
    BY <2>1
<1> QED
  BY <1>1, <1>2, <1>3 DEF Exact

LEMMA ExactOfSteps ==
    ASSUME NEW rows, NEW new, Exact(rows), \A k \in Steps : new.step[k] = rows.step[k]
    PROVE  Exact(new)
BY DependsBack DEF Exact

-----------------------------------------------------------------------------

\* A pending approval is that of the gate at which the run is parked.
LEMMA PendingIsOpen ==
    ASSUME TypeOK, RunInv, OneGate, NEW i \in Steps, db.gate[i] = "pending"
    PROVE  i \in Gated /\ Open(db, i) /\ db.run \notin RunTerminal
<1>1. i \in Gated
  BY RestingRows DEF OnlyGateWaits
<1>2. Reached
  BY RestingRows
<1>3. Open(db, i)
  BY <1>1, <1>2, RestingRows DEF Closed, Verdicts
<1> QED
  BY <1>1, <1>3 DEF Open, RunTerminal

\* What the request at work can rely on.
LEMMA WorkFacts ==
    ASSUME TypeOK, RunInv, OneGate, SerialInv, pc[s1] # "idle"
    PROVE  /\ s1 \in Session /\ mem[s1] \in Rows /\ db \in Rows /\ at[s1] \in Steps
           /\ Gated \subseteq Steps
           /\ db.run \notin RunTerminal /\ Exact(db)
           /\ Outcome(s1) = mem[s1]
           /\ pc[s1] \in {"drive", "run", "final"} => Exact(mem[s1])
           /\ aborts = 0 => \A i \in Steps : pushed[i] > 0 => AtWork /\ mem[s1].gate[i] = "approved"
<1>1. s1 \in Session /\ mem[s1] \in Rows /\ db \in Rows /\ at[s1] \in Steps
  BY SerialAssumption DEF TypeOK
<1>2. db.run \notin RunTerminal /\ Exact(db)
  BY DEF SerialInv, OneAtWork, SkipInv, RunTerminal
<1>3. Outcome(s1) = mem[s1]
  <2>1. CASE Reading
    <3>1. mem[s1] = db /\ dirty[s1] = {}
      BY <1>1, <2>1 DEF Reading, SerialInv, OneAtWork, RunInv, SessionInv, Waiting
    <3> QED
      BY <1>1, <3>1, MergeNothing DEF Outcome
  <2>2. CASE AtWork
    BY <2>2 DEF SerialInv, OneAtWork
  <2> QED
    BY <1>1, <2>1, <2>2 DEF Reading, AtWork, TypeOK
<1>4. pc[s1] \in {"drive", "run", "final"} => Exact(mem[s1])
  BY DEF SerialInv, SkipInv, AtWork
<1>5. ASSUME aborts = 0, NEW i \in Steps, pushed[i] > 0 PROVE AtWork /\ mem[s1].gate[i] = "approved"
  <2>1. db.gate[i] # "approved"
    BY <1>2, Undecided
  <2> QED
    BY <1>5, <2>1 DEF SerialInv, GrantInv
<1> QED
  BY <1>1, <1>2, <1>3, <1>4, <1>5, PlanAssumption DEF ValidPlan

\* The request at work goes on, and commits nothing yet.
LEMMA SerialMove ==
    ASSUME TypeOK, RunInv, OneGate, SerialInv, pc[s1] # "idle", db' = db, OthersStand(s1),
           pc'[s1] \in {"drive", "run", "final", "commit"}, Outcome(s1)' = mem'[s1],
           Exact(mem'[s1]) \/ (pc'[s1] = "commit" /\ mem'[s1].run = "cancelled"),
           SentAsGranted',
           pc'[s1] = "run" /\ at'[s1] \in Gated =>
               mem'[s1].draft \in granted'[at'[s1]] /\ mem'[s1].gate[at'[s1]] = "approved",
           aborts' = 0 => \A i \in Steps : pushed'[i] > 0 => mem'[s1].gate[i] = "approved"
    PROVE  SerialInv'
<1>1. db.run \notin RunTerminal /\ Exact(db)
  BY WorkFacts
<1>2. ~Reading' /\ AtWork'
  BY DEF Reading, AtWork
<1>3. OneAtWork'
  <2>1. \A z \in Session \ {s1} : pc'[z] = "idle"
    BY DEF OthersStand, SerialInv, OneAtWork
  <2> QED
    BY <1>1, <1>2, <2>1 DEF OneAtWork
<1>4. SkipInv'
  BY <1>1 DEF SkipInv
<1>5. GrantInv'
  BY <1>2 DEF GrantInv
<1> QED
  BY <1>3, <1>4, <1>5 DEF SerialInv

\* It goes on by a flush that neither pushes nor decides.
LEMMA SerialFlush ==
    ASSUME TypeOK, RunInv, OneGate, SerialInv, pc[s1] # "idle", db' = db,
           NEW rows \in Rows, NEW also, NEW label \in {"drive", "run", "final", "commit"},
           Flush(s1, rows, also), Goto(s1, label), op' = op, \A z \in Session \ {s1} : at'[z] = at[z],
           UNCHANGED <<outside, aborts>>,
           Exact(rows) \/ (label = "commit" /\ rows.run = "cancelled"),
           label = "run" /\ at'[s1] \in Gated =>
               rows.draft \in granted[at'[s1]] /\ rows.gate[at'[s1]] = "approved",
           AtWork => \A i \in Steps : mem[s1].gate[i] = "approved" => rows.gate[i] = "approved"
    PROVE  SerialInv'
<1>1. /\ s1 \in Session /\ Outcome(s1) = mem[s1]
      /\ aborts = 0 => \A i \in Steps : pushed[i] > 0 => AtWork /\ mem[s1].gate[i] = "approved"
  BY WorkFacts
<1>2. pc'[s1] = label /\ mem'[s1] = rows /\ OthersStand(s1)
  BY <1>1, FlushDoes
<1>3. Outcome(s1)' = rows
  BY <1>1, FlushFaithful
<1>4. granted' = granted /\ pushed' = pushed /\ content' = content /\ aborts' = aborts
  BY DEF outside
<1>5. SentAsGranted'
  BY <1>4 DEF SerialInv, GrantInv, SentAsGranted
<1>6. aborts' = 0 => \A i \in Steps : pushed'[i] > 0 => rows.gate[i] = "approved"
  BY <1>1, <1>4
<1> QED
  BY <1>2, <1>3, <1>4, <1>5, <1>6, SerialMove

LEMMA SerialSubmit ==
    ASSUME TypeOK, RunInv, OneGate, SerialInv, NEW name, NEW i \in Steps, NEW label \in {"read", "ready"},
           Submit(s1, name, i, label), db.run \notin RunTerminal,
           \A j \in Steps : granted[j] \subseteq granted'[j],
           name = "approve" => (IF edit'[s1] # 0 THEN edit'[s1] ELSE db.draft) \in granted'[i]
    PROVE  SerialInv'
<1>1. /\ pc'[s1] = label /\ op'[s1] = name /\ at'[s1] = i /\ mem'[s1] = db /\ db' = db
      /\ pushed' = pushed /\ content' = content /\ aborts' = aborts
      /\ pc[s1] = "idle" /\ \A z \in Session \ {s1} : pc'[z] = pc[z]
  BY SerialAssumption DEF Submit, Goto, TypeOK
<1>2. Reading' /\ ~AtWork' /\ ~AtWork
  BY <1>1 DEF Reading, AtWork
<1>3. OneAtWork'
  BY <1>1, <1>2 DEF OneAtWork, SerialInv
<1>4. SkipInv'
  BY <1>1, <1>2 DEF SkipInv, SerialInv
<1>5. SentAsGranted'
  BY <1>1 DEF SerialInv, GrantInv, SentAsGranted
<1>6. aborts = 0 => \A j \in Steps : pushed[j] > 0 => db.gate[j] = "approved"
  BY <1>2 DEF SerialInv, GrantInv
<1>7. GrantInv'
  BY <1>1, <1>2, <1>5, <1>6 DEF GrantInv
<1> QED
  BY <1>3, <1>4, <1>7 DEF SerialInv

LEMMA SerialArrive ==
    ASSUME TypeOK, RunInv, OneGate, SerialInv, Arrive(s1)
    PROVE  SerialInv'
<1>0. 0 \in Steps
  BY StepsAreNat
<1>1. CASE SubmitCreate(s1)
  <2>1. Submit(s1, "create", 0, "ready") /\ db.run \notin RunTerminal /\ granted' = granted
    BY <1>1 DEF SubmitCreate, RunTerminal
  <2> QED
    BY <1>0, <2>1, SerialSubmit
<1>2. CASE SubmitExecute(s1)
  <2>1. Submit(s1, "execute", 0, "ready") /\ db.run \notin RunTerminal /\ granted' = granted
    BY <1>2 DEF SubmitExecute
  <2> QED
    BY <1>0, <2>1, SerialSubmit
<1>3. ASSUME NEW i \in Steps, NEW edited \in BOOLEAN, SubmitApprove(s1, i, edited) PROVE SerialInv'
  <2>1. Submit(s1, "approve", i, "read") /\ db.gate[i] = "pending"
    BY <1>3 DEF SubmitApprove
  <2>2. db.run \notin RunTerminal /\ db.shown[i] = db.draft
    BY <2>1, PendingIsOpen DEF Open
  <2>3. granted' = [granted EXCEPT ![i] = @ \cup {IF edited THEN drafts + 1 ELSE db.shown[i]}]
    BY <1>3 DEF SubmitApprove
  <2>4. edit'[s1] = IF edited THEN drafts + 1 ELSE 0
    BY <1>3, SerialAssumption DEF SubmitApprove, TypeOK
  <2>5. \A j \in Steps : granted'[j] = IF j = i THEN granted[i] \cup {IF edited THEN drafts + 1 ELSE db.shown[i]}
                                       ELSE granted[j]
    BY <2>3 DEF TypeOK
  <2>6. drafts + 1 # 0
    BY DEF TypeOK
  <2>7. (IF edit'[s1] # 0 THEN edit'[s1] ELSE db.draft) \in granted'[i]
    BY <2>2, <2>4, <2>5, <2>6
  <2>8. \A j \in Steps : granted[j] \subseteq granted'[j]
    BY <2>5
  <2> QED
    BY <2>1, <2>2, <2>7, <2>8, SerialSubmit
<1>4. ASSUME NEW i \in Steps, SubmitReject(s1, i) PROVE SerialInv'
  <2>1. Submit(s1, "reject", i, "read") /\ db.gate[i] = "pending" /\ granted' = granted
    BY <1>4 DEF SubmitReject
  <2> QED
    BY <2>1, PendingIsOpen, SerialSubmit
<1>5. ASSUME NEW i \in Steps, SubmitRedraft(s1, i) PROVE SerialInv'
  <2>1. Submit(s1, "redraft", i, "read") /\ db.gate[i] = "pending" /\ granted' = granted
    BY <1>5 DEF SubmitRedraft
  <2> QED
    BY <2>1, PendingIsOpen, SerialSubmit
<1>6. CASE SubmitCancel(s1)
  <2>1. Submit(s1, "cancel", 0, "read") /\ db.run \notin RunTerminal /\ granted' = granted
    BY <1>6 DEF SubmitCancel
  <2> QED
    BY <1>0, <2>1, SerialSubmit
<1> QED
  BY <1>1, <1>2, <1>3, <1>4, <1>5, <1>6 DEF Arrive

LEMMA SerialReadRest ==
    ASSUME TypeOK, RunInv, OneGate, SerialInv, ReadRest(s1)
    PROVE  SerialInv'
<1>1. /\ pc[s1] = "read" /\ pc'[s1] = "ready" /\ db' = db /\ op' = op /\ at' = at /\ edit' = edit
      /\ \A z \in Session \ {s1} : pc'[z] = pc[z]
      /\ granted' = granted /\ pushed' = pushed /\ content' = content /\ aborts' = aborts
  BY SerialAssumption DEF ReadRest, Goto, TypeOK, outside
<1>2. mem[s1] = db /\ db \in Rows /\ at[s1] \in Steps
  BY <1>1, SerialAssumption DEF SerialInv, OneAtWork, Reading, TypeOK
<1>3. [db EXCEPT !.run = db.run, !.draft = db.draft] = db
  BY <1>2 DEF Rows
<1>4. [db EXCEPT !.gate[at[s1]] = db.gate[at[s1]], !.shown[at[s1]] = db.shown[at[s1]]] = db
  <2>1. PICK rows : rows = [db EXCEPT !.gate[at[s1]] = db.gate[at[s1]], !.shown[at[s1]] = db.shown[at[s1]]]
    OBVIOUS
  <2>2. rows \in Rows
    BY <1>2, <2>1 DEF Rows
  <2>3. /\ rows.run = db.run /\ rows.draft = db.draft
        /\ \A i \in Steps : rows.step[i] = db.step[i] /\ rows.gate[i] = db.gate[i] /\ rows.shown[i] = db.shown[i]
    BY <1>2, <2>1 DEF Rows
  <2> QED
    BY <1>2, <2>1, <2>2, <2>3, SameRows
<1>5. mem'[s1] = db
  BY <1>2, <1>3, <1>4, SerialAssumption DEF ReadRest, TypeOK
<1>6. Reading /\ Reading' /\ ~AtWork /\ ~AtWork'
  BY <1>1 DEF Reading, AtWork
<1>7. OneAtWork'
  BY <1>1, <1>5, <1>6 DEF OneAtWork, SerialInv
<1>8. SkipInv'
  BY <1>1, <1>6 DEF SkipInv, SerialInv
<1>9. GrantInv'
  BY <1>1, <1>6 DEF GrantInv, SerialInv, SentAsGranted
<1> QED
  BY <1>7, <1>8, <1>9 DEF SerialInv

LEMMA SerialCreate ==
    ASSUME TypeOK, RunInv, OneGate, SerialInv, ApplyCreate(s1)
    PROVE  SerialInv'
<1> DEFINE rows == [Fresh EXCEPT !.run = "running"]
<1>1. /\ pc[s1] = "ready" /\ db' = db /\ op' = op /\ at' = at /\ UNCHANGED <<outside, aborts>>
      /\ Flush(s1, rows, Cells) /\ Goto(s1, "drive")
  BY DEF ApplyCreate
<1>2. rows \in Rows /\ \A k \in Steps : rows.step[k] = "pending"
  BY FreshType DEF Fresh, Rows, RunStatus
<1> HIDE DEF rows
<1>3. Exact(rows)
  BY <1>2 DEF Exact
<1>4. ~AtWork
  BY <1>1 DEF AtWork
<1> QED
  BY <1>1, <1>2, <1>3, <1>4, SerialFlush

LEMMA SerialExecute ==
    ASSUME TypeOK, RunInv, OneGate, SerialInv, ApplyExecute(s1)
    PROVE  SerialInv'
<1> DEFINE rows == [db EXCEPT !.run = "running", !.draft = mem[s1].draft]
<1>1. /\ pc[s1] = "ready" /\ op[s1] = "execute" /\ db' = db /\ op' = op /\ at' = at
      /\ UNCHANGED <<outside, aborts>> /\ Goto(s1, "drive")
  BY DEF ApplyExecute
<1>2. mem[s1] = db /\ mem[s1].run # "running"
  BY <1>1, SerialAssumption DEF SerialInv, OneAtWork, Reading, RunInv, SessionInv, Waiting
<1>3. /\ s1 \in Session /\ db \in Rows /\ Exact(db) /\ rows \in Rows
      /\ rows.step = db.step /\ rows.gate = db.gate /\ rows.shown = db.shown /\ rows.draft = db.draft
  BY <1>1, <1>2, WorkFacts DEF Rows, RunStatus
<1>4. /\ lock \in {s1, NoSession} /\ lock' = s1 /\ mem' = [mem EXCEPT ![s1] = rows]
      /\ dirty' = [dirty EXCEPT ![s1] = @ \cup {RunCell}]
  BY <1>2 DEF ApplyExecute
<1> HIDE DEF rows
<1>5. Changed(mem[s1], rows) \subseteq {RunCell}
  BY <1>2, <1>3 DEF Changed
<1>6. dirty[s1] \cup Changed(mem[s1], rows) \cup {RunCell} = dirty[s1] \cup {RunCell}
  BY <1>5
<1>7. Flush(s1, rows, {RunCell})
  BY <1>4, <1>6 DEF Flush
<1>8. Exact(rows)
  BY <1>3, ExactOfSteps
<1>9. ~AtWork
  BY <1>1 DEF AtWork
<1> QED
  BY <1>1, <1>3, <1>7, <1>8, <1>9, SerialFlush

\* What a decision finds: the gate at which the run is parked.
LEMMA DecisionFinds ==
    ASSUME TypeOK, RunInv, OneGate, SerialInv, pc[s1] = "ready", op[s1] \in Deciders
    PROVE  /\ mem[s1] = db /\ at[s1] \in Gated /\ Open(db, at[s1])
           /\ at[s1] \in Steps /\ mem[s1] \in Rows /\ Exact(mem[s1])
           /\ \A d \in Deps[at[s1]] : mem[s1].step[d] = "completed"
<1>1. mem[s1] = db /\ at[s1] \in Gated /\ mem[s1].gate[at[s1]] = "pending"
  BY SerialAssumption DEF SerialInv, OneAtWork, Reading, RunInv, SessionInv, Waiting
<1>2. at[s1] \in Steps /\ mem[s1] \in Rows /\ Exact(db)
  BY WorkFacts
<1>3. Open(db, at[s1])
  BY <1>1, <1>2, PendingIsOpen
<1>4. \A d \in Deps[at[s1]] : db.step[d] = "completed"
  BY <1>2, <1>3 DEF Exact, Open
<1> QED
  BY <1>1, <1>2, <1>3, <1>4

LEMMA SerialApprove ==
    ASSUME TypeOK, RunInv, OneGate, SerialInv, ApplyApprove(s1)
    PROVE  SerialInv'
<1> DEFINE g == at[s1]
           rows == [Decided(mem[s1], at[s1], "approved") EXCEPT
                        !.draft = IF edit[s1] # 0 THEN edit[s1] ELSE @,
                        !.run = "running", !.step[at[s1]] = "running"]
<1>1. /\ pc[s1] = "ready" /\ op[s1] = "approve" /\ db' = db /\ op' = op /\ at' = at
      /\ UNCHANGED <<outside, aborts>> /\ Goto(s1, "run") /\ Flush(s1, rows, {})
  BY DEF ApplyApprove
<1>2. /\ mem[s1] = db /\ g \in Gated /\ Open(db, g) /\ g \in Steps /\ mem[s1] \in Rows
      /\ Exact(mem[s1]) /\ \A d \in Deps[g] : mem[s1].step[d] = "completed"
  BY <1>1, DecisionFinds DEF Deciders
<1>3. edit[s1] \in Nat
  BY SerialAssumption DEF TypeOK
<1>4. /\ rows.draft = IF edit[s1] # 0 THEN edit[s1] ELSE db.draft
      /\ \A k \in Steps : rows.step[k] = IF k = g THEN "running" ELSE mem[s1].step[k]
      /\ \A k \in Steps : rows.gate[k] = IF k = g THEN "approved" ELSE mem[s1].gate[k]
  BY <1>2 DEF Decided, Rows
<1>5. rows \in Rows
  BY <1>2, <1>3 DEF Decided, Rows, RunStatus, StepStatus, GateStatus
<1> HIDE DEF rows
<1>6. Exact(rows)
  <2>1. mem[s1].step[g] = "awaiting_approval"
    BY <1>2 DEF Open
  <2> QED
    BY <1>2, <1>4, <2>1, StepExact DEF StepStatus
<1>7. rows.draft \in granted[at'[s1]] /\ rows.gate[at'[s1]] = "approved"
  <2>1. (IF edit[s1] # 0 THEN edit[s1] ELSE db.draft) \in granted[at[s1]]
    BY <1>1 DEF SerialInv, GrantInv, Reading
  <2> QED
    BY <1>1, <1>2, <1>4, <2>1
<1>8. ~AtWork
  BY <1>1 DEF AtWork
<1> QED
  BY <1>1, <1>5, <1>6, <1>7, <1>8, SerialFlush

LEMMA SerialReject ==
    ASSUME TypeOK, RunInv, OneGate, SerialInv, ApplyReject(s1)
    PROVE  SerialInv'
<1> DEFINE seen == Decided(mem[s1], at[s1], "rejected")
           rows == CascadeSkip([seen EXCEPT !.step[at[s1]] = "rejected"], at[s1])
<1>1. /\ pc[s1] = "ready" /\ op[s1] = "reject" /\ db' = db /\ op' = op /\ at' = at
      /\ UNCHANGED <<outside, aborts>> /\ Goto(s1, "final") /\ Flush(s1, rows, {})
  BY DEF ApplyReject
<1>2. /\ mem[s1] = db /\ Open(db, at[s1]) /\ at[s1] \in Steps /\ mem[s1] \in Rows /\ Exact(mem[s1])
  BY <1>1, DecisionFinds DEF Deciders
<1>3. seen \in Rows /\ seen.step = mem[s1].step
  BY <1>2 DEF Decided, Rows, GateStatus
<1> HIDE DEF seen
<1>4. Exact(seen)
  BY <1>2, <1>3, ExactOfSteps
<1>5. seen.step[at[s1]] \in {"running", "awaiting_approval"}
  BY <1>2, <1>3 DEF Open
<1>6. Exact(rows)
  BY <1>2, <1>3, <1>4, <1>5, CascadeExact
<1>7. rows \in Rows
  <2>1. [seen EXCEPT !.step[at[s1]] = "rejected"] \in Rows
    BY <1>2, <1>3 DEF Rows, StepStatus
  <2> QED
    BY <1>2, <2>1, CascadeSkipType
<1>8. ~AtWork
  BY <1>1 DEF AtWork
<1> HIDE DEF rows
<1> QED
  BY <1>1, <1>6, <1>7, <1>8, SerialFlush

LEMMA SerialRedraft ==
    ASSUME TypeOK, RunInv, OneGate, SerialInv, ApplyRedraft(s1)
    PROVE  SerialInv'
<1> DEFINE rows == [mem[s1] EXCEPT !.draft = drafts + 1, !.shown[at[s1]] = drafts + 1]
<1>1. /\ pc[s1] = "ready" /\ op[s1] = "redraft" /\ db' = db /\ op' = op /\ at' = at
      /\ UNCHANGED <<outside, aborts>> /\ Goto(s1, "commit") /\ Flush(s1, rows, {})
  BY DEF ApplyRedraft
<1>2. at[s1] \in Steps /\ mem[s1] \in Rows /\ Exact(mem[s1]) /\ drafts \in Nat
  BY <1>1, DecisionFinds DEF Deciders, TypeOK
<1>3. rows \in Rows /\ rows.step = mem[s1].step
  <2>1. drafts + 1 \in Nat
    BY <1>2
  <2>2. rows.step = mem[s1].step
    BY <1>2 DEF Rows
  <2> QED
    BY <1>2, <2>1, <2>2 DEF Rows
<1> HIDE DEF rows
<1>4. Exact(rows)
  BY <1>2, <1>3, ExactOfSteps
<1>5. ~AtWork
  BY <1>1 DEF AtWork
<1> QED
  BY <1>1, <1>3, <1>4, <1>5, SerialFlush

LEMMA SerialCancel ==
    ASSUME TypeOK, RunInv, OneGate, SerialInv, ApplyCancel(s1)
    PROVE  SerialInv'
<1> DEFINE rows == CancelledRows(mem[s1])
<1>1. /\ pc[s1] = "ready" /\ db' = db /\ op' = op /\ at' = at
      /\ UNCHANGED <<outside, aborts>> /\ Goto(s1, "commit") /\ Flush(s1, rows, {})
  BY DEF ApplyCancel
<1>2. mem[s1] \in Rows
  BY <1>1, WorkFacts
<1>3. rows \in Rows /\ rows.run = "cancelled"
  BY <1>2, CancelledType DEF CancelledRows, Rows
<1> HIDE DEF rows
<1>4. ~AtWork
  BY <1>1 DEF AtWork
<1> QED
  BY <1>1, <1>3, <1>4, SerialFlush

LEMMA SerialNothingLeft ==
    ASSUME TypeOK, RunInv, OneGate, SerialInv, DriveNothingLeft(s1)
    PROVE  SerialInv'
<1>1. /\ pc[s1] = "drive" /\ db' = db /\ mem' = mem /\ dirty' = dirty /\ pc'[s1] = "final"
      /\ granted' = granted /\ pushed' = pushed /\ content' = content /\ aborts' = aborts
      /\ OthersStand(s1)
  BY SerialAssumption DEF DriveNothingLeft, Goto, outside, OthersStand, TypeOK
<1>2. /\ Outcome(s1) = mem[s1] /\ Exact(mem[s1])
      /\ aborts = 0 => \A i \in Steps : pushed[i] > 0 => AtWork /\ mem[s1].gate[i] = "approved"
  BY <1>1, WorkFacts
<1>3. Outcome(s1)' = mem'[s1]
  BY <1>1, <1>2 DEF Outcome
<1>4. SentAsGranted'
  BY <1>1 DEF SerialInv, GrantInv, SentAsGranted
<1>5. Exact(mem'[s1])
  BY <1>1, <1>2
<1> QED
  BY <1>1, <1>2, <1>3, <1>4, <1>5, SerialMove

LEMMA SerialPark ==
    ASSUME TypeOK, RunInv, OneGate, SerialInv, NEW g \in Steps, DrivePark(s1, g)
    PROVE  SerialInv'
<1> DEFINE rows == Parked(mem[s1], g)
<1>1. /\ pc[s1] = "drive" /\ db' = db /\ op' = op /\ at' = at /\ g \in Gated
      /\ UNCHANGED <<outside, aborts>> /\ Goto(s1, "commit") /\ Flush(s1, rows, {})
      /\ g \in Runnable(mem[s1])
  BY DEF DrivePark, IsNext
<1>2. /\ s1 \in Session /\ mem[s1] \in Rows /\ Exact(mem[s1])
      /\ mem[s1].step[g] = "pending" /\ \A d \in Deps[g] : mem[s1].step[d] = "completed"
  BY <1>1, WorkFacts DEF Runnable
<1>3. \A i \in Steps : mem[s1].gate[i] = "none"
  <2>1. Driving(s1)
    BY <1>1, <1>2, DriverHolds
  <2>2. ~Passing(s1) /\ ~Deciding(s1)
    BY <1>1, <1>2, PassingFindsNothing DEF Deciding
  <2> QED
    BY <2>1, <2>2 DEF Driving, Creating
<1>4. rows \in Rows /\ \A k \in Steps : rows.step[k] = IF k = g THEN "awaiting_approval" ELSE mem[s1].step[k]
  <2>1. rows \in Rows
    BY <1>2, ParkedType
  <2>2. \A k \in Steps : rows.step[k] = IF k = g THEN "awaiting_approval" ELSE mem[s1].step[k]
    BY <1>2 DEF Parked, Rows
  <2> QED
    BY <2>1, <2>2
<1> HIDE DEF rows
<1>5. Exact(rows)
  BY <1>2, <1>4, StepExact DEF StepStatus
<1> QED
  BY <1>1, <1>3, <1>4, <1>5, SerialFlush

LEMMA SerialStart ==
    ASSUME TypeOK, RunInv, OneGate, SerialInv, NEW i \in Steps, DriveStart(s1, i)
    PROVE  SerialInv'
<1> DEFINE rows == [mem[s1] EXCEPT !.step[i] = "running"]
<1>1. /\ pc[s1] = "drive" /\ db' = db /\ op' = op /\ at' = [at EXCEPT ![s1] = i] /\ i \notin Gated
      /\ UNCHANGED <<outside, aborts>> /\ Goto(s1, "run") /\ Flush(s1, rows, {})
      /\ i \in Runnable(mem[s1])
  BY DEF DriveStart, IsNext
<1>2. /\ s1 \in Session /\ mem[s1] \in Rows /\ Exact(mem[s1])
      /\ mem[s1].step[i] = "pending" /\ \A d \in Deps[i] : mem[s1].step[d] = "completed"
  BY <1>1, WorkFacts DEF Runnable
<1>3. at'[s1] = i /\ \A z \in Session \ {s1} : at'[z] = at[z]
  BY <1>1, <1>2 DEF TypeOK
<1>4. /\ rows \in Rows /\ rows.gate = mem[s1].gate
      /\ \A k \in Steps : rows.step[k] = IF k = i THEN "running" ELSE mem[s1].step[k]
  BY <1>2 DEF Rows, StepStatus
<1> HIDE DEF rows
<1>5. Exact(rows)
  BY <1>2, <1>4, StepExact DEF StepStatus
<1> QED
  BY <1>1, <1>3, <1>4, <1>5, SerialFlush

-----------------------------------------------------------------------------

\* An attempt sends what was granted, at a gate that is approved.
LEMMA SerialRecord ==
    ASSUME TypeOK, RunInv, OneGate, SerialInv, pc[s1] = "run", NEW o, o \in Outcomes(at[s1], mem[s1]),
           Record(at[s1], o, mem[s1].draft), granted' = granted
    PROVE  /\ SentAsGranted'
           /\ aborts = 0 => \A i \in Steps : pushed'[i] > 0 => mem[s1].gate[i] = "approved"
<1>1. /\ s1 \in Session /\ at[s1] \in Steps
      /\ aborts = 0 => \A i \in Steps : pushed[i] > 0 => AtWork /\ mem[s1].gate[i] = "approved"
  BY WorkFacts
<1>2. SentAsGranted
  BY DEF SerialInv, GrantInv
<1>3. CASE o \in {"pushed", "pushed_undelivered"}
  <2>1. at[s1] \in Gated
    BY <1>3 DEF Outcomes
  <2>2. mem[s1].draft \in granted[at[s1]] /\ mem[s1].gate[at[s1]] = "approved"
    BY <2>1 DEF SerialInv, GrantInv
  <2>3. /\ \A i \in Steps : i # at[s1] => pushed'[i] = pushed[i]
        /\ \A i \in Steps : content'[i] = IF i = at[s1] THEN content[i] \cup {mem[s1].draft} ELSE content[i]
    BY <1>3 DEF Record, TypeOK
  <2>4. SentAsGranted'
    <3>1. \A i \in Steps : content[i] \subseteq granted[i]
      BY <1>2 DEF SentAsGranted
    <3>2. ASSUME NEW i \in Steps PROVE content'[i] \subseteq granted[i]
      <4>1. CASE i = at[s1]
        <5>1. content'[i] = content[i] \cup {mem[s1].draft} /\ mem[s1].draft \in granted[i]
          BY <2>2, <2>3, <4>1
        <5> QED
          BY <3>1, <5>1
      <4>2. CASE i # at[s1]
        BY <2>3, <3>1, <4>2
      <4> QED
        BY <4>1, <4>2
    <3> QED
      BY <3>2 DEF SentAsGranted
  <2> QED
    BY <1>1, <2>2, <2>3, <2>4
<1>4. CASE o \notin {"pushed", "pushed_undelivered"}
  <2>1. pushed' = pushed /\ content' = content
    BY <1>4 DEF Record
  <2> QED
    BY <1>1, <1>2, <2>1 DEF SentAsGranted
<1> QED
  BY <1>3, <1>4

\* What the step under way rests on.
LEMMA AttemptFinds ==
    ASSUME TypeOK, RunInv, OneGate, SerialInv, pc[s1] = "run"
    PROVE  /\ s1 \in Session /\ mem[s1] \in Rows /\ at[s1] \in Steps /\ Exact(mem[s1])
           /\ mem[s1].step[at[s1]] = "running" /\ Outcome(s1) = mem[s1]
           /\ \A d \in Deps[at[s1]] : mem[s1].step[d] = "completed"
<1>1. /\ s1 \in Session /\ mem[s1] \in Rows /\ at[s1] \in Steps /\ Exact(mem[s1])
      /\ Outcome(s1) = mem[s1]
  BY WorkFacts
<1>2. mem[s1].step[at[s1]] = "running"
  BY <1>1, DriverHolds DEF Driving
<1>3. \A d \in Deps[at[s1]] : mem[s1].step[d] = "completed"
  BY <1>1, <1>2 DEF Exact
<1> QED
  BY <1>1, <1>2, <1>3

LEMMA SerialSucceeds ==
    ASSUME TypeOK, RunInv, OneGate, SerialInv, NEW o, AttemptSucceeds(s1, o)
    PROVE  SerialInv'
<1> DEFINE rows == [mem[s1] EXCEPT !.step[at[s1]] = "completed",
                                   !.draft = IF at[s1] = Composer THEN drafts + 1 ELSE @]
<1>1. /\ pc[s1] = "run" /\ o \in Outcomes(at[s1], mem[s1]) /\ Record(at[s1], o, mem[s1].draft)
      /\ db' = db /\ op' = op /\ at' = at /\ granted' = granted /\ aborts' = aborts
      /\ Goto(s1, "drive") /\ Flush(s1, rows, {DraftCell})
  BY DEF AttemptSucceeds
<1>2. /\ s1 \in Session /\ mem[s1] \in Rows /\ at[s1] \in Steps /\ Exact(mem[s1])
      /\ mem[s1].step[at[s1]] = "running" /\ Outcome(s1) = mem[s1]
      /\ \A d \in Deps[at[s1]] : mem[s1].step[d] = "completed"
  BY <1>1, AttemptFinds
<1>3. /\ rows \in Rows /\ rows.gate = mem[s1].gate
      /\ \A k \in Steps : rows.step[k] = IF k = at[s1] THEN "completed" ELSE mem[s1].step[k]
  <2>1. (IF at[s1] = Composer THEN drafts + 1 ELSE mem[s1].draft) \in Nat
    BY <1>2 DEF Rows, TypeOK
  <2> QED
    BY <1>2, <2>1 DEF Rows, StepStatus
<1> HIDE DEF rows
<1>4. pc'[s1] = "drive" /\ mem'[s1] = rows /\ OthersStand(s1)
  BY <1>1, <1>2, FlushDoes
<1>5. Outcome(s1)' = rows
  BY <1>1, <1>2, <1>3, FlushFaithful
<1>6. Exact(rows)
  BY <1>2, <1>3, StepExact DEF StepStatus
<1>7. /\ SentAsGranted'
      /\ aborts = 0 => \A i \in Steps : pushed'[i] > 0 => mem[s1].gate[i] = "approved"
  BY <1>1, SerialRecord
<1> QED
  BY <1>1, <1>3, <1>4, <1>5, <1>6, <1>7, SerialMove

LEMMA SerialRetries ==
    ASSUME TypeOK, RunInv, OneGate, SerialInv, NEW o, AttemptRetries(s1, o)
    PROVE  SerialInv'
<1>1. /\ pc[s1] = "run" /\ o \in Outcomes(at[s1], mem[s1]) /\ Record(at[s1], o, mem[s1].draft)
      /\ db' = db /\ pc' = pc /\ op' = op /\ at' = at /\ mem' = mem /\ dirty' = dirty
      /\ granted' = granted /\ aborts' = aborts
  BY DEF AttemptRetries
<1>2. Exact(mem[s1]) /\ Outcome(s1) = mem[s1]
  BY <1>1, AttemptFinds
<1>3. /\ SentAsGranted'
      /\ aborts = 0 => \A i \in Steps : pushed'[i] > 0 => mem[s1].gate[i] = "approved"
  BY <1>1, SerialRecord
<1>4. OthersStand(s1)
  BY <1>1 DEF OthersStand
<1>5. Outcome(s1)' = mem'[s1]
  BY <1>1, <1>2 DEF Outcome
<1>6. at'[s1] \in Gated => mem'[s1].draft \in granted'[at'[s1]] /\ mem'[s1].gate[at'[s1]] = "approved"
  BY <1>1 DEF SerialInv, GrantInv
<1>7. Exact(mem'[s1])
  BY <1>1, <1>2
<1> QED
  BY <1>1, <1>3, <1>4, <1>5, <1>6, <1>7, SerialMove

LEMMA SerialFails ==
    ASSUME TypeOK, RunInv, OneGate, SerialInv, NEW o, AttemptFails(s1, o)
    PROVE  SerialInv'
<1> DEFINE rows == CascadeSkip([mem[s1] EXCEPT !.step[at[s1]] = "failed"], at[s1])
<1>1. /\ pc[s1] = "run" /\ o \in Outcomes(at[s1], mem[s1]) /\ Record(at[s1], o, mem[s1].draft)
      /\ db' = db /\ op' = op /\ at' = at /\ granted' = granted /\ aborts' = aborts
      /\ Goto(s1, "final") /\ Flush(s1, rows, {})
  BY DEF AttemptFails
<1>2. /\ s1 \in Session /\ mem[s1] \in Rows /\ at[s1] \in Steps /\ Exact(mem[s1])
      /\ mem[s1].step[at[s1]] = "running" /\ Outcome(s1) = mem[s1]
  BY <1>1, AttemptFinds
<1>3. rows \in Rows /\ rows.gate = mem[s1].gate
  <2>1. [mem[s1] EXCEPT !.step[at[s1]] = "failed"] \in Rows
    BY <1>2 DEF Rows, StepStatus
  <2>2. rows \in Rows
    BY <1>2, <2>1, CascadeSkipType
  <2>3. rows.gate = mem[s1].gate
    BY <1>2 DEF CascadeSkip, Rows
  <2> QED
    BY <2>2, <2>3
<1>4. Exact(rows)
  BY <1>2, CascadeExact
<1> HIDE DEF rows
<1>5. pc'[s1] = "final" /\ mem'[s1] = rows /\ OthersStand(s1)
  BY <1>1, <1>2, FlushDoes
<1>6. Outcome(s1)' = rows
  BY <1>1, <1>2, <1>3, FlushFaithful
<1>7. /\ SentAsGranted'
      /\ aborts = 0 => \A i \in Steps : pushed'[i] > 0 => mem[s1].gate[i] = "approved"
  BY <1>1, SerialRecord
<1> QED
  BY <1>1, <1>3, <1>4, <1>5, <1>6, <1>7, SerialMove

-----------------------------------------------------------------------------

LEMMA SerialFinalize ==
    ASSUME TypeOK, RunInv, OneGate, SerialInv, Finalize(s1)
    PROVE  SerialInv'
<1> DEFINE rows == Finalized(mem[s1])
<1>1. /\ pc[s1] = "final" /\ db' = db /\ op' = op /\ at' = at /\ UNCHANGED <<outside, aborts>>
      /\ Goto(s1, "commit")
      /\ (rows = mem[s1] /\ lock' = lock /\ mem' = mem /\ dirty' = dirty) \/ Flush(s1, rows, {})
  BY DEF Finalize
<1>2. /\ s1 \in Session /\ mem[s1] \in Rows /\ Exact(mem[s1]) /\ Outcome(s1) = mem[s1]
      /\ aborts = 0 => \A i \in Steps : pushed[i] > 0 => AtWork /\ mem[s1].gate[i] = "approved"
  BY <1>1, WorkFacts
<1>3. rows \in Rows /\ rows.step = mem[s1].step /\ rows.gate = mem[s1].gate
  BY <1>2, FinalizedKeeps, FinalizedType
<1> HIDE DEF rows
<1>4. Exact(rows)
  BY <1>2, <1>3, ExactOfSteps
<1>5. CASE rows = mem[s1] /\ lock' = lock /\ mem' = mem /\ dirty' = dirty
  <2>1. /\ pc'[s1] = "commit" /\ mem'[s1] = mem[s1] /\ OthersStand(s1)
        /\ granted' = granted /\ pushed' = pushed /\ content' = content /\ aborts' = aborts
    BY <1>1, <1>2, <1>5 DEF Goto, OthersStand, outside, TypeOK
  <2>2. Outcome(s1)' = mem'[s1]
    BY <1>1, <1>2, <1>5 DEF Outcome
  <2>3. SentAsGranted'
    BY <2>1 DEF SerialInv, GrantInv, SentAsGranted
  <2>4. Exact(mem'[s1])
    BY <1>2, <2>1
  <2> QED
    BY <1>1, <1>2, <2>1, <2>2, <2>3, <2>4, SerialMove
<1>6. CASE Flush(s1, rows, {})
  BY <1>1, <1>3, <1>4, <1>6, SerialFlush
<1> QED
  BY <1>1, <1>5, <1>6

\* The session at work ends, and leaves the rows as they were or as it had them in hand.
LEMMA SerialReset ==
    ASSUME TypeOK, SerialInv, Reset(s1), granted' = granted, pushed' = pushed, content' = content,
           db'.run = "cancelled" \/ Exact(db'),
           aborts' = 0 => \A i \in Steps : pushed[i] > 0 => db'.gate[i] = "approved"
    PROVE  SerialInv'
<1>1. pc'[s1] = "idle" /\ \A z \in Session \ {s1} : pc'[z] = "idle"
  BY SerialAssumption DEF Reset, Goto, TypeOK, SerialInv, OneAtWork
<1>2. ~Reading' /\ ~AtWork'
  BY <1>1 DEF Reading, AtWork
<1>3. OneAtWork'
  BY <1>1, <1>2 DEF OneAtWork
<1>4. SkipInv'
  BY <1>2 DEF SkipInv
<1>5. SentAsGranted'
  BY DEF SerialInv, GrantInv, SentAsGranted
<1>6. GrantInv'
  BY <1>1, <1>2, <1>5 DEF GrantInv
<1> QED
  BY <1>3, <1>4, <1>6 DEF SerialInv

LEMMA SerialEnds ==
    ASSUME TypeOK, RunInv, OneGate, SerialInv, CreateConflict(s1) \/ Commit(s1) \/ Abort(s1)
    PROVE  SerialInv'
<1>1. CASE CreateConflict(s1)
  <2>1. /\ pc[s1] = "ready" /\ Reset(s1) /\ db' = db /\ granted' = granted /\ pushed' = pushed
        /\ content' = content /\ aborts' = aborts
    BY <1>1 DEF CreateConflict, outside
  <2>2. aborts' = 0 => \A i \in Steps : pushed[i] > 0 => db'.gate[i] = "approved"
    BY <2>1 DEF SerialInv, GrantInv, AtWork
  <2>3. db'.run = "cancelled" \/ Exact(db')
    BY <2>1 DEF SerialInv, SkipInv
  <2> QED
    BY <2>1, <2>2, <2>3, SerialReset
<1>2. CASE Commit(s1)
  <2>1. /\ pc[s1] = "commit" /\ Reset(s1) /\ db' = Outcome(s1) /\ granted' = granted
        /\ pushed' = pushed /\ content' = content /\ aborts' = aborts
    BY <1>2 DEF Commit, Outcome, outside
  <2>2. /\ Outcome(s1) = mem[s1]
        /\ aborts = 0 => \A i \in Steps : pushed[i] > 0 => AtWork /\ mem[s1].gate[i] = "approved"
    BY <2>1, WorkFacts
  <2>3. Exact(mem[s1]) \/ mem[s1].run = "cancelled"
    BY <2>1 DEF SerialInv, SkipInv, AtWork
  <2>4. db' = mem[s1]
    BY <2>1, <2>2
  <2>5. db'.run = "cancelled" \/ Exact(db')
    BY <2>3, <2>4
  <2>6. aborts' = 0 => \A i \in Steps : pushed[i] > 0 => db'.gate[i] = "approved"
    BY <2>1, <2>2, <2>4
  <2> QED
    BY <2>1, <2>5, <2>6, SerialReset
<1>3. CASE Abort(s1)
  <2>1. /\ Reset(s1) /\ db' = db /\ granted' = granted /\ pushed' = pushed
        /\ content' = content /\ aborts' = aborts + 1 /\ aborts \in Nat
    BY <1>3, BoundAssumption DEF Abort, outside, TypeOK
  <2>2. db'.run = "cancelled" \/ Exact(db')
    BY <2>1 DEF SerialInv, SkipInv
  <2>3. aborts' # 0
    BY <2>1
  <2> QED
    BY <2>1, <2>2, <2>3, SerialReset
<1> QED
  BY <1>1, <1>2, <1>3

-----------------------------------------------------------------------------

LEMMA SerialInit == Init => SerialInv
<1> SUFFICES ASSUME Init PROVE SerialInv
  OBVIOUS
<1>1. /\ \A z \in Session : pc[z] = "idle"
      /\ db.run = "absent" /\ \A i \in Steps : db.step[i] = "pending"
      /\ \A i \in Steps : content[i] = {} /\ pushed[i] = 0
  BY DEF Init, Fresh
<1>2. ~Reading /\ ~AtWork
  BY <1>1, SerialAssumption DEF Reading, AtWork
<1>3. OneAtWork
  BY <1>1, <1>2 DEF OneAtWork, RunTerminal
<1>4. SkipInv
  BY <1>1, <1>2 DEF SkipInv, Exact
<1>5. GrantInv
  BY <1>1, <1>2, SerialAssumption DEF GrantInv, SentAsGranted
<1> QED
  BY <1>3, <1>4, <1>5 DEF SerialInv

LEMMA SerialStutters ==
    ASSUME SerialInv, UNCHANGED vars
    PROVE  SerialInv'
<1>1. OneAtWork'
  BY DEF vars, session, outside, SerialInv, OneAtWork, Reading, AtWork, Outcome
<1>2. SkipInv'
  BY DEF vars, session, outside, SerialInv, SkipInv, AtWork
<1>3. GrantInv'
  BY DEF vars, session, outside, SerialInv, GrantInv, SentAsGranted, Reading, AtWork
<1> QED
  BY <1>1, <1>2, <1>3 DEF SerialInv

LEMMA SerialProceed ==
    ASSUME TypeOK, RunInv, OneGate, SerialInv, Proceed(s1)
    PROVE  SerialInv'
<1>1. CASE ReadRest(s1) \/ ApplyCreate(s1) \/ ApplyExecute(s1)
  BY <1>1, SerialReadRest, SerialCreate, SerialExecute
<1>2. CASE ApplyApprove(s1) \/ ApplyReject(s1) \/ ApplyRedraft(s1) \/ ApplyCancel(s1)
  BY <1>2, SerialApprove, SerialReject, SerialRedraft, SerialCancel
<1>3. CASE DriveNothingLeft(s1) \/ \E i \in Steps : DrivePark(s1, i) \/ DriveStart(s1, i)
  BY <1>3, SerialNothingLeft, SerialPark, SerialStart
<1>4. CASE \E o \in {"ok", "pushed", "saved", "error", "pushed_undelivered"} :
              AttemptSucceeds(s1, o) \/ AttemptRetries(s1, o) \/ AttemptFails(s1, o)
  BY <1>4, SerialSucceeds, SerialRetries, SerialFails
<1>5. CASE Finalize(s1) \/ CreateConflict(s1) \/ Commit(s1)
  BY <1>5, SerialFinalize, SerialEnds
<1> QED
  BY <1>1, <1>2, <1>3, <1>4, <1>5 DEF Proceed

LEMMA SerialStep ==
    ASSUME TypeOK, RunInv, OneGate, SerialInv, Arrive(s1) \/ Proceed(s1) \/ Abort(s1)
    PROVE  SerialInv'
BY SerialArrive, SerialProceed, SerialEnds

LEMMA SerialInvTells ==
    ASSUME TypeOK, RunInv, OneGate, SerialInv
    PROVE  SentAsGranted /\ RejectedNeverSent /\ SkippedExactlyDownstream
<1>1. SentAsGranted
  BY DEF SerialInv, GrantInv
<1>2. RejectedNeverSent
  <2> SUFFICES ASSUME aborts = 0, NEW i \in Steps, db.gate[i] = "rejected", pushed[i] # 0
               PROVE  FALSE
    BY DEF RejectedNeverSent
  <2>1. pushed[i] > 0
    BY DEF TypeOK
  <2>2. AtWork
    BY <2>1 DEF SerialInv, GrantInv
  <2>3. db.run \notin RunTerminal
    BY <2>2 DEF AtWork, SerialInv, OneAtWork
  <2> QED
    BY <2>3, Undecided
<1>3. SkippedExactlyDownstream
  <2> SUFFICES ASSUME db.run # "cancelled"
               PROVE  {i \in Steps : db.step[i] = "skipped"} =
                        UNION {Dependents(j) : j \in {k \in Steps :
                                    db.step[k] \in {"failed", "rejected"}}}
    BY DEF SkippedExactlyDownstream
  <2>1. Exact(db)
    BY DEF SerialInv, SkipInv
  <2>2. \A j \in Steps : Dependents(j) \subseteq Steps
    BY DEF Dependents
  <2> QED
    BY <2>1, <2>2 DEF Exact
<1> QED
  BY <1>1, <1>2, <1>3

\* A commit finds the run open, and so nothing decided.
LEMMA SerialKeeps ==
    ASSUME TypeOK, RunInv, OneGate, SerialInv, Arrive(s1) \/ Proceed(s1) \/ Abort(s1)
    PROVE  DecisionIsFinal /\ TerminalIsFinal
<1>1. CASE pc[s1] = "commit"
  <2>1. db.run \notin RunTerminal
    BY <1>1, WorkFacts
  <2>2. \A i \in Steps : db.gate[i] \in {"none", "pending"}
    BY <2>1, Undecided
  <2> QED
    BY <2>1, <2>2 DEF DecisionIsFinal, TerminalIsFinal
<1>2. CASE pc[s1] # "commit"
  <2>1. db' = db
    BY <1>2 DEF Arrive, SubmitCreate, SubmitExecute, SubmitApprove, SubmitReject, SubmitRedraft,
                SubmitCancel, Submit, Proceed, ReadRest, ApplyCreate, CreateConflict, ApplyExecute,
                ApplyApprove, ApplyReject, ApplyRedraft, ApplyCancel, DriveNothingLeft, DrivePark,
                DriveStart, AttemptSucceeds, AttemptRetries, AttemptFails, Finalize, Commit, Abort
  <2> QED
    BY <2>1 DEF DecisionIsFinal, TerminalIsFinal
<1> QED
  BY <1>1, <1>2

\* On a run with one gate, requests that come one at a time: whatever dies between them,
\* what goes out is what was granted, a rejected gate has sent nothing unless a process
\* died, exactly what is downstream of a failure is skipped, what was decided stays
\* decided and what has ended stays as it is.
THEOREM SeriallySafe ==
    ASSUME OneGate
    PROVE  MCSpec => Serially
<1> DEFINE Inv == serial => SerialInv
<1>1. MCInit => Init /\ Inv
  BY SerialInit DEF MCInit
<1>2. [MCNext]_<<vars, serial>> => [Next]_vars
  BY SerialAssumption DEF MCNext, Next
<1>3. TypeOK /\ RunInv /\ Inv /\ [MCNext]_<<vars, serial>> => Inv'
  <2> SUFFICES ASSUME TypeOK, RunInv, [MCNext]_<<vars, serial>>, serial, SerialInv
               PROVE  SerialInv'
    BY DEF MCNext
  <2> QED
    BY SerialStep, SerialStutters DEF MCNext
<1>4. TypeOK /\ RunInv /\ Inv => SerialOutcome
  BY SerialInvTells DEF SerialOutcome
<1>5. TypeOK /\ RunInv /\ Inv /\ [MCNext]_<<vars, serial>> =>
          [serial => DecisionIsFinal /\ TerminalIsFinal]_vars
  BY SerialKeeps DEF MCNext
<1>6. SerialOutcome' /\ [serial => DecisionIsFinal /\ TerminalIsFinal]_vars =>
          [SerialOutcome' /\ (serial => DecisionIsFinal /\ TerminalIsFinal)]_vars
  OBVIOUS
<1> HIDE DEF Inv
<1>7. MCSpec => Spec
  BY <1>1, <1>2, PTL DEF MCSpec, Spec
<1> QED
  BY <1>1, <1>3, <1>4, <1>5, <1>6, <1>7, TypeCorrect, RunInvariant, PTL DEF MCSpec, Serially
=============================================================================

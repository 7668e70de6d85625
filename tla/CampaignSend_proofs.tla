------------------------- MODULE CampaignSend_proofs -------------------------
(***************************************************************************)
(* Theorems about CampaignSend for every set of targets, every draft and   *)
(* any number of sessions.                                                 *)
(***************************************************************************)
EXTENDS CampaignSend, FiniteSetTheorems, TLAPS

-----------------------------------------------------------------------------
(* Type correctness *)

LEMMA CountsType ==
    ASSUME NEW v \in [Target -> TargetStatus]
    PROVE  Counts(v) \in [Reported -> Nat]
<1>1. ASSUME NEW st \in Reported PROVE Cardinality({t \in Target : v[t] = st}) \in Nat
  <2>1. IsFiniteSet({t \in Target : v[t] = st})
    BY TargetAssumption, FS_Subset
  <2>2. QED
    BY <2>1, FS_CardinalityType
<1>2. QED
  BY <1>1 DEF Counts

LEMMA InitType == Init => TypeOK
<1> SUFFICES ASSUME Init PROVE TypeOK
  OBVIOUS
<1>1. target \in [Target -> TargetStatus] /\ draft \in [Target -> Drafts]
  BY DEF Init
<1>2. report \in [Reported -> Nat]
  BY <1>1, CountsType DEF Init
<1>3. requests \in 0 .. MaxRequests /\ aborts \in 0 .. MaxAborts
  BY BoundAssumption DEF Init
<1>4. QED
  BY <1>1, <1>2, <1>3 DEF Init, TypeOK, Status, Label, Operation

LEMMA SubmitType ==
    ASSUME TypeOK, NEW s \in Session, NEW name \in Operation, Submit(s, name)
    PROVE  TypeOK'
<1>1. requests' \in 0 .. MaxRequests
  BY BoundAssumption DEF TypeOK, Submit
<1>2. pc' \in [Session -> Label] /\ op' \in [Session -> Operation]
  BY DEF TypeOK, Submit, Goto, Label
<1>3. QED
  BY <1>1, <1>2 DEF TypeOK, Submit

LEMMA ResolveType ==
    ASSUME TypeOK, NEW s \in Session, NEW t \in Target,
           NEW status \in TargetStatus, Resolve(s, t, status),
           pushed' \in [Target -> Nat]
    PROVE  TypeOK'
<1>1. view' \in [Session -> [Target -> TargetStatus]]
  BY DEF TypeOK, Resolve
<1>2. QED
  BY <1>1 DEF TypeOK, Resolve

LEMMA SendType ==
    ASSUME TypeOK, NEW s \in Session, NEW t \in Target,
           \/ SendHeldBack(s, t) \/ SendDelivers(s, t) \/ SendUndelivered(s, t)
           \/ \E status \in {"skipped", "failed"} : SendRefused(s, t, status)
    PROVE  TypeOK'
<1>1. pushed' \in [Target -> Nat]
  <2>1. Push(t) \/ pushed' = pushed
    BY DEF SendHeldBack, SendDelivers, SendUndelivered, SendRefused
  <2>2. QED
    BY <2>1 DEF TypeOK, Push
<1>2. PICK status \in TargetStatus : Resolve(s, t, status)
  BY DEF SendHeldBack, SendDelivers, SendUndelivered, SendRefused, TargetStatus
<1>3. QED
  BY <1>1, <1>2, ResolveType

LEMMA CommitType ==
    ASSUME TypeOK, NEW s \in Session, Commit(s), op[s] # "none"
    PROVE  TypeOK'
<1>1. camp' \in Status
  BY DEF TypeOK, Commit, StatusAfter, Status, Operation
<1>2. report' \in [Reported -> Nat] /\ target' \in [Target -> TargetStatus]
  BY CountsType DEF TypeOK, Commit
<1>3. enrolled' \in [Target -> Nat]
  BY DEF TypeOK, Commit
<1>4. /\ pc' \in [Session -> Label] /\ op' \in [Session -> Operation]
      /\ joins' \in [Session -> SUBSET Target] /\ view' = view
  BY DEF TypeOK, Commit, Forget, Goto, Label, Operation
<1>5. QED
  BY <1>1, <1>2, <1>3, <1>4 DEF TypeOK, Commit

LEMMA ProceedType ==
    ASSUME TypeOK, NEW s \in Session, Proceed(s), pc[s] = "commit" => op[s] # "none"
    PROVE  TypeOK'
<1>1. CASE TakeRow(s)
  <2>1. pc' \in [Session -> Label] /\ view' \in [Session -> [Target -> TargetStatus]]
    BY <1>1 DEF TypeOK, TakeRow, Goto, Label
  <2>2. QED
    BY <1>1, <2>1 DEF TypeOK, TakeRow
<1>2. CASE SendDone(s)
  <2>1. pc' \in [Session -> Label]
    BY <1>2 DEF TypeOK, SendDone, Goto, Label
  <2>2. QED
    BY <1>2, <2>1 DEF TypeOK, SendDone
<1>3. CASE EnrollDrafted(s)
  <2>1. pc' \in [Session -> Label]
    BY <1>3 DEF TypeOK, EnrollDrafted, Goto, Label
  <2>2. joins' \in [Session -> SUBSET Target]
    BY <1>3 DEF TypeOK, EnrollDrafted, ToSend
  <2>3. [t \in Target |-> IF t \in ToSend(s) THEN "approved" ELSE view[s][t]]
            \in [Target -> TargetStatus]
    BY DEF TypeOK, TargetStatus
  <2>4. view' \in [Session -> [Target -> TargetStatus]]
    BY <1>3, <2>3 DEF TypeOK, EnrollDrafted
  <2>5. QED
    BY <1>3, <2>1, <2>2, <2>4 DEF TypeOK, EnrollDrafted
<1>4. CASE Commit(s)
  BY <1>4, CommitType DEF Commit
<1>5. QED
  BY <1>1, <1>2, <1>3, <1>4, SendType DEF Proceed

LEMMA AbortType ==
    ASSUME TypeOK, NEW s \in Session, Abort(s)
    PROVE  TypeOK'
<1>1. aborts' \in 0 .. MaxAborts
  BY BoundAssumption DEF TypeOK, Abort
<1>2. /\ pc' \in [Session -> Label] /\ op' \in [Session -> Operation]
      /\ joins' \in [Session -> SUBSET Target] /\ view' = view
  BY DEF TypeOK, Abort, Forget, Goto, Label, Operation
<1>3. QED
  BY <1>1, <1>2 DEF TypeOK, Abort

\* A session that is under way knows what it was asked.
Named == \A s \in Session : pc[s] # "idle" => op[s] # "none"

LEMMA TypeStep == TypeOK /\ Named /\ [Next]_vars => TypeOK' /\ Named'
<1> SUFFICES ASSUME TypeOK, Named, [Next]_vars PROVE TypeOK' /\ Named'
  OBVIOUS
<1>1. ASSUME NEW s \in Session, SubmitApprove(s) \/ SubmitCancel(s) \/ SubmitDraft(s)
      PROVE  TypeOK' /\ Named'
  <2>1. PICK name \in Operation \ {"none"} : Submit(s, name)
    BY <1>1 DEF SubmitApprove, SubmitCancel, SubmitDraft, Operation
  <2>2. Named'
    BY <2>1 DEF Named, Submit, Goto, TypeOK
  <2>3. QED
    BY <2>1, <2>2, SubmitType
<1>2. ASSUME NEW s \in Session, Proceed(s) PROVE TypeOK' /\ Named'
  <2>1. TypeOK'
    BY <1>2, ProceedType DEF Named
  <2>2. CASE Commit(s)
    BY <2>1, <2>2 DEF Commit, Forget, Goto, Named, TypeOK
  <2>3. CASE ~Commit(s)
    <3>1. op' = op /\ (pc' = pc \/ (pc[s] # "idle" /\ \E label : Goto(s, label)))
      BY <1>2, <2>3 DEF Proceed, TakeRow, SendHeldBack, SendDelivers, SendUndelivered,
                        SendRefused, Resolve, SendDone, EnrollDrafted
    <3>2. QED
      BY <2>1, <3>1 DEF Named, Goto, TypeOK
  <2>4. QED
    BY <2>2, <2>3
<1>3. ASSUME NEW s \in Session, Abort(s) PROVE TypeOK' /\ Named'
  BY <1>3, AbortType DEF Abort, Forget, Goto, Named, TypeOK
<1>4. ASSUME NEW t \in Target, Touch(t) PROVE TypeOK' /\ Named'
  BY <1>4 DEF Touch, Push, session, TypeOK, Named
<1>5. CASE UNCHANGED vars
  BY <1>5 DEF vars, session, TypeOK, Named
<1>6. QED
  BY <1>1, <1>2, <1>3, <1>4, <1>5 DEF Next

\* The rows of the campaign and of its targets hold the statuses of
\* models/campaign.py, whatever requests and jobs overlap.
THEOREM TypeCorrect == Spec => []TypeOK
<1>1. Init => Named
  BY DEF Init, Named
<1>2. QED
  BY InitType, TypeStep, <1>1, PTL DEF Spec

-----------------------------------------------------------------------------
(* The row lock comes before the list of targets *)

Holding == {"send", "commit"}    \* labels of a session that holds the row

LockInv == \A s \in Session : pc[s] \in Holding => lock = s

LEMMA LockAlone ==
    ASSUME LockInv, NEW s \in Session, NEW z \in Session, z # s, lock \in {s, NoSession}
    PROVE  pc[z] \notin Holding
BY SessionAssumption DEF LockInv

\* What a step of one session does not touch: the place and the copy of any
\* other one.
LEMMA OthersKeep ==
    ASSUME TypeOK, NEW s \in Session, NEW z \in Session \ {s},
           \/ SubmitApprove(s) \/ SubmitCancel(s) \/ SubmitDraft(s)
           \/ Proceed(s) \/ Abort(s)
    PROVE  pc'[z] = pc[z] /\ view'[z] = view[z] /\ joins'[z] = joins[z]
BY DEF TypeOK, SubmitApprove, SubmitCancel, SubmitDraft, Submit, Proceed, TakeRow,
       SendHeldBack, SendDelivers, SendUndelivered, SendRefused, Resolve, SendDone,
       EnrollDrafted, Commit, Abort, Forget, Goto

LEMMA LockStep == TypeOK /\ LockInv /\ [Next]_vars => LockInv'
<1> SUFFICES ASSUME TypeOK, LockInv, [Next]_vars PROVE LockInv'
  OBVIOUS
<1>1. ASSUME NEW s \in Session, SubmitApprove(s) \/ SubmitCancel(s) \/ SubmitDraft(s)
      PROVE  LockInv'
  BY <1>1 DEF SubmitApprove, SubmitCancel, SubmitDraft, Submit, Goto, TypeOK, LockInv, Holding
<1>2. ASSUME NEW s \in Session, TakeRow(s) PROVE LockInv'
  <2>1. \A z \in Session \ {s} : pc[z] \notin Holding /\ pc'[z] = pc[z]
    BY <1>2, LockAlone DEF TakeRow, Goto, TypeOK
  <2>2. QED
    BY <1>2, <2>1 DEF TakeRow, LockInv
<1>3. ASSUME NEW s \in Session, Proceed(s), ~TakeRow(s), ~Commit(s) PROVE LockInv'
  <2>1. pc[s] \in Holding /\ lock' = lock /\ (pc' = pc \/ \E label : Goto(s, label))
    BY <1>3 DEF Proceed, SendHeldBack, SendDelivers, SendUndelivered, SendRefused,
                Resolve, SendDone, EnrollDrafted, Holding
  <2>2. QED
    BY <2>1 DEF LockInv, Goto, TypeOK
<1>4. ASSUME NEW s \in Session, Commit(s) PROVE LockInv'
  <2>1. pc'[s] = "idle" /\ lock = s
    BY <1>4 DEF Commit, Forget, Goto, TypeOK, LockInv, Holding
  <2>2. \A z \in Session \ {s} : pc[z] \notin Holding /\ pc'[z] = pc[z]
    BY <1>4, <2>1, LockAlone DEF Commit, Forget, Goto, TypeOK
  <2>3. QED
    BY <2>1, <2>2 DEF LockInv, Holding
<1>5. ASSUME NEW s \in Session, Abort(s) PROVE LockInv'
  <2>1. pc'[s] = "idle" /\ \A z \in Session \ {s} : pc'[z] = pc[z]
    BY <1>5 DEF Abort, Forget, Goto, TypeOK
  <2>2. lock' = IF lock = s THEN NoSession ELSE lock
    BY <1>5 DEF Abort
  <2>3. QED
    BY <2>1, <2>2 DEF LockInv, Holding
<1>6. CASE (\E t \in Target : Touch(t)) \/ UNCHANGED vars
  BY <1>6 DEF Touch, vars, session, LockInv
<1>7. QED
  BY <1>1, <1>2, <1>3, <1>4, <1>5, <1>6 DEF Next

LEMMA LockInvariant == Spec => []LockInv
<1>1. Init => LockInv
  BY DEF Init, LockInv, Holding
<1>2. QED
  BY <1>1, LockStep, TypeCorrect, PTL DEF Spec

-----------------------------------------------------------------------------
(* No target is enrolled twice *)

\* EnrolledOnce is inductive once we say where the targets that are enrolled,
\* or about to be, stand: in the database, and in the copy of whoever holds
\* the row.
EnrollInv ==
    /\ EnrolledOnce
    /\ \A t \in Target : enrolled[t] > 0 => target[t] # "drafted"
    /\ \A s \in Session : pc[s] \in Holding =>
            \A t \in Target : enrolled[t] > 0 => view[s][t] # "drafted"
    /\ \A s \in Session : \A t \in joins[s] :
            pc[s] = "commit" /\ enrolled[t] = 0 /\ view[s][t] # "drafted"

LEMMA EnrollInit == Init => EnrollInv
BY DEF Init, EnrollInv, EnrolledOnce, Holding

\* A step that enrolls no one and, in the copy of its session, makes no target
\* drafted that was not.
LEMMA EnrollQuiet ==
    ASSUME TypeOK, EnrollInv, NEW s \in Session, UNCHANGED <<enrolled, target>>,
           \A z \in Session \ {s} :
               pc'[z] = pc[z] /\ view'[z] = view[z] /\ joins'[z] = joins[z],
           joins'[s] = {},
           pc'[s] \in Holding =>
               \A t \in Target : enrolled[t] > 0 => view'[s][t] # "drafted"
    PROVE  EnrollInv'
<1>1. EnrolledOnce' /\ \A t \in Target : enrolled'[t] > 0 => target'[t] # "drafted"
  BY DEF EnrollInv, EnrolledOnce
<1>2. ASSUME NEW z \in Session, pc'[z] \in Holding, NEW t \in Target, enrolled'[t] > 0
      PROVE  view'[z][t] # "drafted"
  BY <1>2 DEF EnrollInv
<1>3. ASSUME NEW z \in Session, NEW t \in joins'[z]
      PROVE  pc'[z] = "commit" /\ enrolled'[t] = 0 /\ view'[z][t] # "drafted"
  <2>1. z # s /\ t \in joins[z]
    BY <1>3
  <2>2. QED
    BY <2>1 DEF EnrollInv
<1>4. QED
  BY <1>1, <1>2, <1>3 DEF EnrollInv

LEMMA EnrollTakes ==
    ASSUME TypeOK, LockInv, EnrollInv, NEW s \in Session, EnrollDrafted(s)
    PROVE  EnrollInv'
<1>1. joins'[s] = ToSend(s) /\ pc'[s] = "commit" /\ pc[s] \in Holding
  BY DEF EnrollDrafted, Goto, TypeOK, Holding
<1>2. \A t \in Target :
          view'[s][t] = IF view[s][t] = "drafted" THEN "approved" ELSE view[s][t]
  BY DEF EnrollDrafted, ToSend, TypeOK
<1>3. \A z \in Session \ {s} :
          pc'[z] = pc[z] /\ view'[z] = view[z] /\ joins'[z] = joins[z]
  BY OthersKeep DEF Proceed
<1>4. enrolled' = enrolled /\ target' = target
  BY DEF EnrollDrafted
<1>5. \A t \in ToSend(s) : enrolled[t] = 0 /\ view'[s][t] # "drafted" /\ t \in Target
  BY <1>1, <1>2 DEF EnrollInv, ToSend, TypeOK
<1>6. ASSUME NEW z \in Session, pc'[z] \in Holding, NEW t \in Target, enrolled'[t] > 0
      PROVE  view'[z][t] # "drafted"
  BY <1>2, <1>3, <1>4, <1>6 DEF EnrollInv
<1>7. ASSUME NEW z \in Session, NEW t \in joins'[z]
      PROVE  pc'[z] = "commit" /\ enrolled'[t] = 0 /\ view'[z][t] # "drafted"
  <2>1. CASE z = s
    BY <1>1, <1>4, <1>5, <1>7, <2>1
  <2>2. CASE z # s
    BY <1>3, <1>4, <1>7, <2>2 DEF EnrollInv
  <2>3. QED
    BY <2>1, <2>2
<1>8. QED
  BY <1>4, <1>6, <1>7 DEF EnrollInv, EnrolledOnce

LEMMA EnrollCommits ==
    ASSUME TypeOK, LockInv, EnrollInv, NEW s \in Session, Commit(s)
    PROVE  EnrollInv'
<1>1. /\ pc[s] = "commit" /\ target' = view[s] /\ joins'[s] = {} /\ pc'[s] = "idle"
      /\ enrolled' = [t \in Target |-> enrolled[t] + (IF t \in joins[s] THEN 1 ELSE 0)]
  BY DEF Commit, Forget, Goto, TypeOK
<1>2. \A z \in Session \ {s} : pc'[z] = pc[z] /\ view'[z] = view[z] /\ joins'[z] = joins[z]
  BY OthersKeep DEF Proceed
<1>3. \A z \in Session \ {s} : pc[z] \notin Holding
  BY <1>1, LockAlone DEF LockInv, Holding
<1>4. \A z \in Session : joins'[z] = {}
  BY <1>1, <1>2, <1>3 DEF EnrollInv, Holding
<1>5. \A z \in Session : pc'[z] \notin Holding
  BY <1>1, <1>2, <1>3 DEF Holding
<1>6. ASSUME NEW t \in Target
      PROVE  enrolled'[t] <= 1 /\ (enrolled'[t] > 0 => target'[t] # "drafted")
  <2>1. CASE t \in joins[s]
    BY <1>1, <2>1 DEF EnrollInv
  <2>2. CASE t \notin joins[s]
    <3>1. enrolled'[t] = enrolled[t]
      BY <1>1, <2>2 DEF TypeOK
    <3>2. QED
      BY <1>1, <3>1 DEF EnrollInv, EnrolledOnce, Holding
  <2>3. QED
    BY <2>1, <2>2
<1>7. QED
  BY <1>4, <1>5, <1>6 DEF EnrollInv, EnrolledOnce

LEMMA EnrollProceeds ==
    ASSUME TypeOK, LockInv, EnrollInv, NEW s \in Session, Proceed(s)
    PROVE  EnrollInv'
<1>1. \A z \in Session \ {s} : pc'[z] = pc[z] /\ view'[z] = view[z] /\ joins'[z] = joins[z]
  BY OthersKeep
<1>2. pc[s] # "commit" => joins[s] = {}
  BY DEF EnrollInv
<1>3. CASE TakeRow(s)
  <2>1. joins'[s] = {} /\ view'[s] = target /\ enrolled' = enrolled /\ target' = target
    BY <1>2, <1>3 DEF TakeRow, TypeOK
  <2>2. \A t \in Target : enrolled[t] > 0 => view'[s][t] # "drafted"
    BY <2>1 DEF EnrollInv
  <2>3. QED
    BY <1>1, <2>1, <2>2, EnrollQuiet
<1>4. ASSUME NEW t \in Target, NEW status \in TargetStatus \ {"drafted"},
             Resolve(s, t, status)
      PROVE  EnrollInv'
  <2>1. /\ joins'[s] = {} /\ enrolled' = enrolled /\ target' = target
        /\ pc[s] \in Holding
    BY <1>2, <1>4 DEF Resolve, Holding
  <2>2. \A u \in Target : view'[s][u] = IF u = t THEN status ELSE view[s][u]
    BY <1>4 DEF Resolve, TypeOK
  <2>3. \A u \in Target : enrolled[u] > 0 => view'[s][u] # "drafted"
    BY <2>1, <2>2 DEF EnrollInv
  <2>4. QED
    BY <1>1, <2>1, <2>3, EnrollQuiet
<1>5. CASE SendDone(s)
  <2>1. /\ joins'[s] = {} /\ view' = view /\ enrolled' = enrolled /\ target' = target
        /\ pc[s] \in Holding
    BY <1>2, <1>5 DEF SendDone, Holding
  <2>2. QED
    BY <1>1, <2>1, EnrollQuiet DEF EnrollInv
<1>6. QED
  BY <1>3, <1>4, <1>5, EnrollTakes, EnrollCommits
     DEF Proceed, SendHeldBack, SendDelivers, SendUndelivered, SendRefused, TargetStatus

LEMMA EnrollStep == TypeOK /\ LockInv /\ EnrollInv /\ [Next]_vars => EnrollInv'
<1> SUFFICES ASSUME TypeOK, LockInv, EnrollInv, [Next]_vars PROVE EnrollInv'
  OBVIOUS
<1>1. ASSUME NEW s \in Session, SubmitApprove(s) \/ SubmitCancel(s) \/ SubmitDraft(s)
      PROVE  EnrollInv'
  <2>1. \A z \in Session \ {s} : pc'[z] = pc[z] /\ view'[z] = view[z] /\ joins'[z] = joins[z]
    BY <1>1, OthersKeep
  <2>2. /\ pc[s] = "idle" /\ pc'[s] = "lock" /\ joins' = joins
        /\ enrolled' = enrolled /\ target' = target
    BY <1>1 DEF SubmitApprove, SubmitCancel, SubmitDraft, Submit, Goto, TypeOK
  <2>3. joins'[s] = {} /\ pc'[s] \notin Holding
    BY <2>2 DEF EnrollInv, Holding
  <2>4. QED
    BY <2>1, <2>2, <2>3, EnrollQuiet
<1>2. ASSUME NEW s \in Session, Abort(s) PROVE EnrollInv'
  <2>1. \A z \in Session \ {s} : pc'[z] = pc[z] /\ view'[z] = view[z] /\ joins'[z] = joins[z]
    BY <1>2, OthersKeep
  <2>2. /\ pc'[s] \notin Holding /\ joins'[s] = {}
        /\ enrolled' = enrolled /\ target' = target
    BY <1>2 DEF Abort, Forget, Goto, TypeOK, Holding
  <2>3. QED
    BY <2>1, <2>2, EnrollQuiet
<1>3. CASE (\E t \in Target : Touch(t)) \/ UNCHANGED vars
  BY <1>3 DEF Touch, vars, session, EnrollInv, EnrolledOnce
<1>4. QED
  BY <1>1, <1>2, <1>3, EnrollProceeds DEF Next

\* However many approvals overlap and whatever dies, approving a campaign
\* enrolls each of its targets at most once: the status is written, and the row
\* locked, before the targets are listed.
THEOREM EnrolledOnceSafe == Spec => []EnrolledOnce
<1>1. EnrollInv => EnrolledOnce
  BY DEF EnrollInv
<1>2. QED
  BY <1>1, EnrollInit, EnrollStep, TypeCorrect, LockInvariant, PTL DEF Spec

-----------------------------------------------------------------------------
(* Without crashes, no message leaves twice *)

\* The same for the messages of a campaign that has no cadence.
SentInv ==
    /\ \A t \in Target : pushed[t] <= 1
    /\ \A t \in Target : enrolled[t] = 0
    /\ \A s \in Session : joins[s] = {}
    /\ lock = NoSession => \A t \in Target : pushed[t] > 0 => target[t] # "drafted"
    /\ \A s \in Session : pc[s] \in Holding =>
            \A t \in Target : pushed[t] > 0 => view[s][t] # "drafted"
    /\ lock # NoSession => lock \in Session /\ pc[lock] \in Holding

LEMMA SentInit == Init => SentInv
BY DEF Init, SentInv, Holding

\* A push goes to a target that is drafted in the copy of its session and is
\* not afterwards.
LEMMA SentResolves ==
    ASSUME TypeOK, LockInv, SentInv, NEW s \in Session, NEW t \in Target,
           NEW status \in TargetStatus \ {"drafted"}, Resolve(s, t, status),
           Push(t) \/ pushed' = pushed
    PROVE  SentInv'
<1>1. /\ pc[s] \in Holding /\ view[s][t] = "drafted" /\ t \in Target
      /\ UNCHANGED <<lock, pc, joins, enrolled, target>>
  BY DEF Resolve, ToSend, Holding
<1>2. lock = s /\ s # NoSession
  BY <1>1, SessionAssumption DEF LockInv
<1>3. pushed[t] = 0
  BY <1>1 DEF SentInv, TypeOK
<1>4. \A u \in Target : pushed'[u] = pushed[u] \/ (u = t /\ pushed'[u] = 1)
  BY <1>3 DEF Push, TypeOK
<1>5. \A u \in Target : view'[s][u] = IF u = t THEN status ELSE view[s][u]
  BY DEF Resolve, TypeOK
<1>6. \A u \in Target : pushed'[u] > 0 => view'[s][u] # "drafted"
  BY <1>1, <1>4, <1>5 DEF SentInv
<1>7. \A z \in Session \ {s} : pc'[z] \notin Holding
  BY <1>1, <1>2, LockAlone
<1>8. QED
  BY <1>1, <1>2, <1>4, <1>6, <1>7 DEF SentInv

LEMMA SentCommits ==
    ASSUME TypeOK, LockInv, SentInv, NEW s \in Session, Commit(s)
    PROVE  SentInv'
<1>1. /\ pc[s] \in Holding /\ target' = view[s] /\ lock' = NoSession
      /\ joins'[s] = {} /\ pc'[s] = "idle" /\ pushed' = pushed
  BY DEF Commit, Forget, Goto, TypeOK, Holding
<1>2. \A z \in Session \ {s} : pc'[z] = pc[z] /\ joins'[z] = joins[z] /\ pc[z] \notin Holding
  BY <1>1, OthersKeep, LockAlone DEF Proceed, LockInv
<1>3. \A t \in Target : enrolled'[t] = 0
  BY DEF Commit, SentInv
<1>4. \A z \in Session : pc'[z] \notin Holding
  BY <1>1, <1>2 DEF Holding
<1>5. QED
  BY <1>1, <1>2, <1>3, <1>4 DEF SentInv

LEMMA SentStep ==
    ASSUME TypeOK, LockInv, SentInv, [Next]_vars, cadence = "none", aborts' = 0
    PROVE  SentInv'
<1>1. ASSUME NEW s \in Session, SubmitApprove(s) \/ SubmitCancel(s) \/ SubmitDraft(s)
      PROVE  SentInv'
  <2>1. pc[s] = "idle" /\ pc' = [pc EXCEPT ![s] = "lock"]
        /\ UNCHANGED <<pushed, enrolled, joins, lock, target, view>>
    BY <1>1 DEF SubmitApprove, SubmitCancel, SubmitDraft, Submit, Goto
  <2>2. lock # s
    BY <2>1, SessionAssumption DEF SentInv, Holding
  <2>3. \A z \in Session : pc'[z] \in Holding => pc[z] \in Holding
    BY <2>1 DEF TypeOK, Holding
  <2>4. lock # NoSession => pc'[lock] = pc[lock]
    BY <2>1, <2>2 DEF TypeOK
  <2>5. QED
    BY <2>1, <2>3, <2>4 DEF SentInv
<1>2. ASSUME NEW s \in Session, TakeRow(s) PROVE SentInv'
  <2>1. /\ lock = NoSession /\ lock' = s /\ pc'[s] \in Holding /\ view'[s] = target
        /\ UNCHANGED <<pushed, enrolled, joins, target>>
    BY <1>2 DEF TakeRow, Goto, TypeOK, Holding
  <2>2. \A z \in Session \ {s} : pc'[z] = pc[z] /\ pc[z] \notin Holding
    BY <1>2, <2>1, LockAlone DEF TakeRow, Goto, TypeOK
  <2>3. QED
    BY <2>1, <2>2 DEF SentInv
<1>3. ASSUME NEW s \in Session, SendDone(s) PROVE SentInv'
  <2>1. /\ pc[s] \in Holding /\ pc' = [pc EXCEPT ![s] = "commit"]
        /\ UNCHANGED <<lock, view, pushed, enrolled, joins, target>>
    BY <1>3 DEF SendDone, Goto, Holding
  <2>2. \A z \in Session : pc'[z] \in Holding <=> pc[z] \in Holding
    BY <2>1 DEF TypeOK, Holding
  <2>3. QED
    BY <2>1, <2>2 DEF SentInv
<1>4. ASSUME NEW s \in Session, NEW t \in Target,
             \/ SendHeldBack(s, t) \/ SendDelivers(s, t) \/ SendUndelivered(s, t)
             \/ \E status \in {"skipped", "failed"} : SendRefused(s, t, status)
      PROVE  SentInv'
  <2>1. Push(t) \/ pushed' = pushed
    BY <1>4 DEF SendHeldBack, SendDelivers, SendUndelivered, SendRefused
  <2>2. PICK status \in TargetStatus \ {"drafted"} : Resolve(s, t, status)
    BY <1>4 DEF SendHeldBack, SendDelivers, SendUndelivered, SendRefused, TargetStatus
  <2>3. QED
    BY <2>1, <2>2, SentResolves
<1>5. ASSUME NEW s \in Session, EnrollDrafted(s) \/ Abort(s) PROVE SentInv'
  BY <1>5 DEF EnrollDrafted, Abort, TypeOK
<1>6. ASSUME NEW t \in Target, Touch(t) PROVE SentInv'
  BY <1>6 DEF Touch, SentInv
<1>7. CASE UNCHANGED vars
  BY <1>7 DEF vars, session, SentInv
<1>8. QED
  BY <1>1, <1>2, <1>3, <1>4, <1>5, <1>6, <1>7, SentCommits DEF Next, Proceed

SentUntilDeath == aborts = 0 /\ cadence = "none" => SentInv

LEMMA DeathsCount ==
    TypeOK /\ [Next]_vars => cadence' = cadence /\ (aborts' = 0 => aborts = 0)
<1> SUFFICES ASSUME TypeOK, [Next]_vars
             PROVE  cadence' = cadence /\ (aborts' = 0 => aborts = 0)
  OBVIOUS
<1>1. ASSUME NEW s \in Session, SubmitApprove(s) \/ SubmitCancel(s) \/ SubmitDraft(s)
      PROVE  cadence' = cadence /\ aborts' = aborts
  BY <1>1 DEF SubmitApprove, SubmitCancel, SubmitDraft, Submit
<1>2. ASSUME NEW s \in Session, Proceed(s) PROVE cadence' = cadence /\ aborts' = aborts
  BY <1>2 DEF Proceed, TakeRow, SendHeldBack, SendDelivers, SendUndelivered,
              SendRefused, Resolve, SendDone, EnrollDrafted, Commit
<1>3. ASSUME NEW s \in Session, Abort(s) PROVE cadence' = cadence /\ aborts' # 0
  BY <1>3 DEF Abort, TypeOK
<1>4. CASE (\E t \in Target : Touch(t)) \/ UNCHANGED vars
  BY <1>4 DEF Touch, vars
<1>5. QED
  BY <1>1, <1>2, <1>3, <1>4 DEF Next

\* Approvals that overlap send each target's message at most once, until a
\* process dies between the push and the commit.
THEOREM LeavesOnceSafe == Spec => []LeavesOnce
<1>1. TypeOK /\ LockInv /\ SentUntilDeath /\ [Next]_vars => SentUntilDeath'
  BY SentStep, DeathsCount DEF SentUntilDeath
<1>2. SentUntilDeath => LeavesOnce
  BY DEF SentUntilDeath, SentInv, LeavesOnce
<1>3. Init => SentUntilDeath
  BY SentInit DEF SentUntilDeath
<1>4. QED
  BY <1>1, <1>2, <1>3, TypeCorrect, LockInvariant, PTL DEF Spec

\* Both together: a target is enrolled once, or written to once.
THEOREM OncePerTargetSafe == Spec => []OncePerTarget
  BY EnrolledOnceSafe, LeavesOnceSafe, PTL DEF OncePerTarget

-----------------------------------------------------------------------------
(* What the campaign says of itself *)

Resolved(v) == \A t \in Target : v[t] \in TargetTerminal

\* Without a cadence a target is drafted until it is resolved, in the database
\* and in every copy of it, and an approval commits when its copy is resolved.
TruthInv ==
    /\ report = Counts(target)
    /\ camp = "completed" => Resolved(target)
    /\ cadence = "none" =>
        /\ \A t \in Target : target[t] # "approved"
        /\ \A s \in Session : \A t \in Target : view[s][t] # "approved"
        /\ \A s \in Session : pc[s] = "commit" /\ op[s] = "approve" => Resolved(view[s])

LEMMA TruthInit == Init => TruthInv
<1> SUFFICES ASSUME Init PROVE TruthInv
  OBVIOUS
<1>1. \A t \in Target : target[t] # "approved"
  BY DEF Init, DraftOutcomes
<1>2. QED
  BY <1>1 DEF Init, TruthInv

\* A step of one session that commits nothing and, in its copy, approves
\* nothing.
LEMMA TruthQuiet ==
    ASSUME TruthInv, NEW s \in Session, UNCHANGED <<camp, report, target, cadence>>,
           \A z \in Session \ {s} : pc'[z] = pc[z] /\ op'[z] = op[z] /\ view'[z] = view[z],
           cadence = "none" =>
             /\ \A t \in Target : view'[s][t] # "approved"
             /\ pc'[s] = "commit" /\ op'[s] = "approve" => Resolved(view'[s])
    PROVE  TruthInv'
<1>1. \A z \in Session : cadence = "none" =>
        /\ \A t \in Target : view'[z][t] # "approved"
        /\ pc'[z] = "commit" /\ op'[z] = "approve" => Resolved(view'[z])
  BY DEF TruthInv
<1>2. QED
  BY <1>1 DEF TruthInv, Resolved

LEMMA TruthCommit ==
    ASSUME TypeOK, Named, TruthInv, NEW s \in Session, Commit(s)
    PROVE  TruthInv'
<1>1. /\ pc[s] = "commit" /\ camp' = StatusAfter(op[s]) /\ report' = Counts(view[s])
      /\ target' = view[s] /\ cadence' = cadence /\ view' = view
      /\ pc' = [pc EXCEPT ![s] = "idle"] /\ op' = [op EXCEPT ![s] = "none"]
  BY DEF Commit, Forget, Goto
<1>2. report' = Counts(target')
  BY <1>1
<1>3. op[s] \in {"approve", "cancel", "draft"}
  BY <1>1 DEF Named, TypeOK, Operation
<1>4. camp' = "completed" => op[s] = "approve" /\ cadence = "none"
  BY <1>1, <1>3 DEF StatusAfter
<1>5. camp' = "completed" => Resolved(target')
  BY <1>1, <1>4 DEF TruthInv
<1>6. \A z \in Session : pc'[z] = "commit" => pc[z] = "commit" /\ op'[z] = op[z]
  BY <1>1 DEF TypeOK
<1>7. ASSUME cadence' = "none"
      PROVE  /\ \A t \in Target : target'[t] # "approved"
             /\ \A z \in Session : \A t \in Target : view'[z][t] # "approved"
             /\ \A z \in Session : pc'[z] = "commit" /\ op'[z] = "approve" => Resolved(view'[z])
  BY <1>1, <1>6, <1>7 DEF TruthInv
<1>8. QED
  BY <1>2, <1>5, <1>7 DEF TruthInv, Resolved, Counts

LEMMA TruthProceed ==
    ASSUME TypeOK, Named, TruthInv, NEW s \in Session, Proceed(s)
    PROVE  TruthInv'
<1>1. CASE TakeRow(s)
  <2>1. /\ UNCHANGED <<camp, report, target, cadence, op>> /\ view'[s] = target
        /\ pc'[s] = "commit" => op[s] # "approve"
        /\ \A z \in Session \ {s} : pc'[z] = pc[z] /\ view'[z] = view[z]
    BY <1>1 DEF TakeRow, Goto, TypeOK
  <2>2. QED
    BY <2>1, TruthQuiet DEF TruthInv
<1>2. ASSUME NEW t \in Target, NEW status \in {"skipped", "sent", "failed"}, Resolve(s, t, status)
      PROVE  TruthInv'
  <2>1. /\ UNCHANGED <<camp, report, target, cadence, pc, op>> /\ pc[s] = "send"
        /\ \A z \in Session \ {s} : view'[z] = view[z]
        /\ \A u \in Target : view'[s][u] = IF u = t THEN status ELSE view[s][u]
    BY <1>2 DEF Resolve, TypeOK
  <2>2. QED
    BY <2>1, TruthQuiet DEF TruthInv
<1>3. CASE SendDone(s)
  <2>1. /\ UNCHANGED <<camp, report, target, cadence, op, view>>
        /\ ToSend(s) = {} /\ cadence = "none"
        /\ \A z \in Session \ {s} : pc'[z] = pc[z]
    BY <1>3 DEF SendDone, Goto, TypeOK
  <2>2. \A t \in Target : view[s][t] # "approved" /\ view[s][t] # "drafted"
    BY <2>1 DEF TruthInv, ToSend
  <2>3. Resolved(view'[s])
    BY <2>1, <2>2 DEF Resolved, TypeOK, TargetStatus, TargetTerminal
  <2>4. QED
    BY <2>1, <2>2, <2>3, TruthQuiet
<1>4. CASE EnrollDrafted(s)
  <2>1. /\ UNCHANGED <<camp, report, target, cadence, op>> /\ cadence # "none"
        /\ \A z \in Session \ {s} : pc'[z] = pc[z] /\ view'[z] = view[z]
    BY <1>4 DEF EnrollDrafted, Goto, TypeOK
  <2>2. QED
    BY <2>1, TruthQuiet
<1>5. QED
  BY <1>1, <1>2, <1>3, <1>4, TruthCommit
     DEF Proceed, SendHeldBack, SendDelivers, SendUndelivered, SendRefused

LEMMA TruthStep == TypeOK /\ Named /\ TruthInv /\ [Next]_vars => TruthInv'
<1> SUFFICES ASSUME TypeOK, Named, TruthInv, [Next]_vars PROVE TruthInv'
  OBVIOUS
<1>1. ASSUME NEW s \in Session, SubmitApprove(s) \/ SubmitCancel(s) \/ SubmitDraft(s)
      PROVE  TruthInv'
  <2>1. /\ UNCHANGED <<camp, report, target, cadence, view>> /\ pc'[s] = "lock"
        /\ \A z \in Session \ {s} : pc'[z] = pc[z] /\ op'[z] = op[z]
    BY <1>1 DEF SubmitApprove, SubmitCancel, SubmitDraft, Submit, Goto, TypeOK
  <2>2. QED
    BY <2>1, TruthQuiet DEF TruthInv
<1>2. ASSUME NEW s \in Session, Abort(s) PROVE TruthInv'
  <2>1. /\ UNCHANGED <<camp, report, target, cadence, view>> /\ pc'[s] = "idle"
        /\ \A z \in Session \ {s} : pc'[z] = pc[z] /\ op'[z] = op[z]
    BY <1>2 DEF Abort, Forget, Goto, TypeOK
  <2>2. QED
    BY <2>1, TruthQuiet DEF TruthInv
<1>3. CASE (\E t \in Target : Touch(t)) \/ UNCHANGED vars
  <2>1. UNCHANGED <<camp, report, target, cadence, pc, op, view>>
    BY <1>3 DEF Touch, vars, session
  <2>2. QED
    BY <2>1 DEF TruthInv, Resolved, Counts
<1>4. QED
  BY <1>1, <1>2, <1>3, TruthProceed DEF Next

\* The report that a transaction builds from its own copy of the targets counts
\* the targets that are committed with it, and a campaign that says it is
\* completed has no target left, whatever overlaps and whatever dies.
THEOREM SaysTheTruthSafe == Spec => []SaysTheTruth
<1>1. Init => Named
  BY DEF Init, Named
<1>2. TruthInv => SaysTheTruth
  BY DEF TruthInv, SaysTheTruth, ReportAgrees, CompletedIsTerminal, Resolved
<1>3. QED
  BY <1>1, <1>2, InitType, TypeStep, TruthInit, TruthStep, PTL DEF Spec

-----------------------------------------------------------------------------
(* What is over stays over *)

\* Only the approval of a campaign that has a cadence enrolls.
JoinsInv == cadence = "none" =>
    /\ \A t \in Target : enrolled[t] = 0
    /\ \A s \in Session : joins[s] = {}

LEMMA JoinsStep == TypeOK /\ JoinsInv /\ [Next]_vars => JoinsInv'
<1> SUFFICES ASSUME TypeOK, JoinsInv, [Next]_vars, cadence = "none" PROVE JoinsInv'
  BY DeathsCount DEF JoinsInv
<1>1. ASSUME UNCHANGED enrolled, \A s \in Session : joins'[s] = joins[s] \/ joins'[s] = {}
      PROVE  JoinsInv'
  BY <1>1 DEF JoinsInv
<1>2. ASSUME NEW s \in Session, SubmitApprove(s) \/ SubmitCancel(s) \/ SubmitDraft(s)
      PROVE  JoinsInv'
  BY <1>1, <1>2 DEF SubmitApprove, SubmitCancel, SubmitDraft, Submit
<1>3. ASSUME NEW s \in Session, Abort(s) PROVE JoinsInv'
  BY <1>1, <1>3 DEF Abort, Forget, TypeOK
<1>4. ASSUME NEW s \in Session, Commit(s) PROVE JoinsInv'
  <2>1. \A t \in Target : enrolled'[t] = 0
    BY <1>4 DEF Commit, JoinsInv
  <2>2. \A z \in Session : joins'[z] = {}
    BY <1>4 DEF Commit, Forget, JoinsInv, TypeOK
  <2>3. QED
    BY <2>1, <2>2 DEF JoinsInv
<1>5. ASSUME NEW s \in Session, Proceed(s), ~Commit(s) PROVE JoinsInv'
  <2>1. UNCHANGED <<enrolled, joins>>
    BY <1>5 DEF Proceed, TakeRow, SendHeldBack, SendDelivers, SendUndelivered, SendRefused,
                Resolve, SendDone, EnrollDrafted
  <2>2. QED
    BY <1>1, <2>1
<1>6. CASE (\E t \in Target : Touch(t)) \/ UNCHANGED vars
  BY <1>1, <1>6 DEF Touch, vars, session
<1>7. QED
  BY <1>2, <1>3, <1>4, <1>5, <1>6 DEF Next

\* The campaign has ended in st, and nobody is at work on it.
Over(st, t) ==
    /\ camp = st /\ (cadence # "none" \/ pushed[t] = 0)
    /\ \A s \in Session : pc[s] = "idle"

LEMMA OverStays ==
    ASSUME NEW st \in Terminal, NEW t \in Target
    PROVE  TypeOK /\ JoinsInv /\ Over(st, t) /\ [Next]_vars => Over(st, t)'
<1> SUFFICES ASSUME TypeOK, JoinsInv, Over(st, t), [Next]_vars PROVE Over(st, t)'
  OBVIOUS
<1>1. ASSUME NEW s \in Session
      PROVE  /\ ~SubmitApprove(s) /\ ~SubmitCancel(s) /\ ~SubmitDraft(s)
             /\ ~Proceed(s) /\ ~Abort(s)
  BY DEF Over, Terminal, SubmitApprove, SubmitCancel, SubmitDraft, Proceed, TakeRow,
         SendHeldBack, SendDelivers, SendUndelivered, SendRefused, Resolve, SendDone,
         EnrollDrafted, Commit, Abort
<1>2. CASE UNCHANGED vars
  BY <1>2 DEF vars, session, Over
<1>3. ASSUME NEW u \in Target, Touch(u) PROVE Over(st, t)'
  <2>1. UNCHANGED <<camp, cadence, pc>>
    BY <1>3 DEF Touch, session
  <2>2. cadence = "none" => enrolled[u] = 0
    BY DEF JoinsInv
  <2>3. cadence # "none"
    BY <1>3, <2>2 DEF Touch
  <2>4. QED
    BY <2>1, <2>3 DEF Over
<1>4. QED
  BY <1>1, <1>2, <1>3 DEF Next

\* A campaign that is over is never taken up again once those who read it
\* before are done, and whom it had not written to it never writes to.
THEOREM OverForGood == Spec => RestsForGood
<1>1. Init => JoinsInv
  BY DEF Init, JoinsInv
<1>2. Spec => []JoinsInv
  BY <1>1, JoinsStep, TypeCorrect, PTL DEF Spec
<1>3. ASSUME NEW st \in Terminal, NEW t \in Target
      PROVE  Spec => [](Over(st, t) => [](camp = st /\ (cadence # "none" \/ pushed[t] = 0)))
  <2>1. TypeOK /\ JoinsInv /\ Over(st, t) /\ [Next]_vars => Over(st, t)'
    BY OverStays
  <2>2. Over(st, t) => camp = st /\ (cadence # "none" \/ pushed[t] = 0)
    BY DEF Over
  <2>3. QED
    BY <1>2, <2>1, <2>2, TypeCorrect, PTL DEF Spec
<1>4. ASSUME NEW st \in Terminal, NEW t \in Target
      PROVE  Spec => [](/\ camp = st /\ (cadence # "none" \/ pushed[t] = 0)
                        /\ \A s \in Session : pc[s] = "idle"
                        => [](camp = st /\ (cadence # "none" \/ pushed[t] = 0)))
  BY <1>3 DEF Over
<1>5. QED
  BY <1>4 DEF RestsForGood
=============================================================================

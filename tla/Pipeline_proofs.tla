--------------------------- MODULE Pipeline_proofs ---------------------------
(***************************************************************************)
(* What holds of the accounts of a tenant - the pipeline of one account's  *)
(* signals, the digests, and the book of accounts with their people - for  *)
(* every set of transactions, signals, spellings, people and jobs, and     *)
(* every bound of the model.                                               *)
(*                                                                         *)
(* Each component has an inductive invariant of its own.  A behaviour of   *)
(* MCPipeline is a behaviour of each component (PartOnItsOwn), because a   *)
(* step of one leaves the others alone, so the theorems of the last        *)
(* section hold of the whole.                                              *)
(***************************************************************************)
EXTENDS MCPipeline, FiniteSetTheorems, TLAPS

\* Whichever component is at work, a step of the whole is a step of each component or
\* leaves it as it is.
LEMMA PartOnItsOwn ==
    [MCNext]_<<part, vars, accounts, digest>> =>
        [Next]_vars /\ [Book!Next]_Book!vars /\ [Daily!Next]_Daily!vars
<1> SUFFICES ASSUME [MCNext]_<<part, vars, accounts, digest>>
             PROVE  /\ Next \/ UNCHANGED vars
                    /\ Book!Next \/ UNCHANGED accounts
                    /\ Daily!Next \/ UNCHANGED digest
  BY DEF accounts, digest, Book!vars, Book!rows, Book!session, Book!history, Daily!vars, Daily!job
<1> QED
  BY DEF MCNext

-----------------------------------------------------------------------------
(* The pipeline of an account.
   One open task is not inductive: a transaction has decided before it commits.
   PipelineInv says that, until two of them overlap, what one has decided still stands -
   no task is open and none cools down when a task is to be made - and that nobody else
   has decided anything; and the same of a call that is about to be queued. *)

Decision ==
    {NoDecision} \cup {Touch(t, s) : t \in DOMAIN tasks, s \in Signal}
                 \cup {Create(s) : s \in Signal}

Task == [status : {"open", "done"}, signal : Signal, cooling : BOOLEAN]

PipelineTyped ==
    /\ reported \subseteq Signal /\ ingested \subseteq Signal
    /\ tasks \in Seq(Task)
    /\ calls \in Nat
    /\ pc \in [Session -> Label]
    /\ new \in [Session -> SUBSET Signal]
    /\ DOMAIN decision = Session
    /\ \A w \in Session : decision[w] \in Decision
    /\ overlapped \in BOOLEAN

Creates(w) == decision[w].what = "create"

\* What a transaction decided when it looked at the inbox is still right, and nobody
\* else is about to change the inbox.
DecisionStands ==
    \A w \in Session :
        /\ Creates(w) => OpenTasks = {} /\ ~CoolingDown
        /\ Creates(w) => \A v \in Session \ {w} : decision[v].what = "nothing"

\* Who has found no open call is the only one to have looked.
CallStands ==
    /\ calls <= 1
    /\ \A w \in Session : pc[w] = "call" => calls = 0 /\ \A v \in Session : pc[v] = "call" => v = w

\* The account has one open task at most.
OneAtMost == \A t, u \in OpenTasks : t = u

PipelineInv ==
    /\ PipelineTyped
    /\ PlaysWithSignals
    /\ ~overlapped => DecisionStands /\ CallStands /\ OneAtMost

\* What an inbox is after a decision: one more task, or the same with the same statuses.
LEMMA InboxKept ==
    ASSUME tasks \in Seq(Task), NEW d \in Decision
    PROVE  /\ InboxAfter(d) \in Seq(Task)
           /\ d.what = "nothing" => InboxAfter(d) = tasks
           /\ d.what = "create" => /\ Len(InboxAfter(d)) = Len(tasks) + 1
                                   /\ InboxAfter(d)[Len(tasks) + 1].status = "open"
                                   /\ \A t \in DOMAIN tasks : InboxAfter(d)[t] = tasks[t]
           /\ d.what # "create" => /\ Len(InboxAfter(d)) = Len(tasks)
                                   /\ \A t \in DOMAIN tasks : InboxAfter(d)[t].status = tasks[t].status
<1>0. /\ tasks \in Seq(Task) /\ DOMAIN tasks = 1 .. Len(tasks) /\ Len(tasks) \in Nat
      /\ \A t \in DOMAIN tasks : tasks[t] \in Task
  OBVIOUS
<1>1. ASSUME d = NoDecision
      PROVE  /\ d.what = "nothing" /\ InboxAfter(d) = tasks
             /\ InboxAfter(d) \in Seq(Task) /\ Len(InboxAfter(d)) = Len(tasks)
             /\ \A u \in DOMAIN tasks : InboxAfter(d)[u].status = tasks[u].status
  <2>1. InboxAfter(d) = tasks /\ d.what = "nothing"
    BY <1>1 DEF NoDecision, InboxAfter
  <2> QED
    BY <1>0, <2>1
<1>2. ASSUME NEW t \in DOMAIN tasks, NEW s \in Signal, d = Touch(t, s)
      PROVE  /\ d.what = "touch" /\ InboxAfter(d) \in Seq(Task) /\ Len(InboxAfter(d)) = Len(tasks)
             /\ \A u \in DOMAIN tasks : InboxAfter(d)[u].status = tasks[u].status
  <2>1. d.what = "touch" /\ d.task = t /\ d.signal = s
    BY <1>2 DEF Touch
  <2> DEFINE changed == [tasks[t] EXCEPT !.signal = s, !.cooling = tasks[t].status = "done"]
  <2>2. InboxAfter(d) = [tasks EXCEPT ![t].signal = s, ![t].cooling = tasks[t].status = "done"]
    BY <2>1, Zenon DEF InboxAfter
  <2>3. InboxAfter(d) = [tasks EXCEPT ![t] = changed]
    BY <2>2
  <2>4. changed \in Task /\ changed.status = tasks[t].status
    BY <1>0, <1>2 DEF Task
  <2> HIDE DEF changed
  <2>5. InboxAfter(d) \in Seq(Task) /\ Len(InboxAfter(d)) = Len(tasks)
    BY <1>0, <2>3, <2>4
  <2>6. \A u \in DOMAIN tasks : InboxAfter(d)[u].status = tasks[u].status
    BY <1>0, <2>3, <2>4
  <2> QED
    BY <2>1, <2>5, <2>6
<1>3. ASSUME NEW s \in Signal, d = Create(s)
      PROVE  /\ d.what = "create" /\ InboxAfter(d) \in Seq(Task)
             /\ Len(InboxAfter(d)) = Len(tasks) + 1
             /\ InboxAfter(d)[Len(tasks) + 1].status = "open"
             /\ \A t \in DOMAIN tasks : InboxAfter(d)[t] = tasks[t]
  <2>1. d.what = "create" /\ d.signal = s
    BY <1>3 DEF Create
  <2> DEFINE made == [status |-> "open", signal |-> s, cooling |-> FALSE]
  <2>2. InboxAfter(d) = Append(tasks, made)
    BY <2>1, Zenon DEF InboxAfter
  <2>3. made \in Task /\ made.status = "open"
    BY DEF Task
  <2> HIDE DEF made
  <2> QED
    BY <1>0, <2>1, <2>2, <2>3
<1>4. d = NoDecision \/ (\E t \in DOMAIN tasks, s \in Signal : d = Touch(t, s))
                    \/ (\E s \in Signal : d = Create(s))
  BY DEF Decision
<1>5. CASE d = NoDecision
  <2>1. d.what = "nothing"
    BY <1>5 DEF NoDecision
  <2> QED
    BY <1>1, <1>5, <2>1
<1>6. CASE \E t \in DOMAIN tasks, s \in Signal : d = Touch(t, s)
  BY <1>2, <1>6
<1>7. CASE \E s \in Signal : d = Create(s)
  BY <1>3, <1>7
<1> QED
  BY <1>4, <1>5, <1>6, <1>7

\* The end of a transaction.
LEMMA TransactionCloses ==
    ASSUME PipelineTyped, NEW w \in Session, Close(w)
    PROVE  /\ pc' \in [Session -> Label] /\ new' \in [Session -> SUBSET Signal]
           /\ DOMAIN decision' = Session
           /\ pc'[w] = "idle" /\ decision'[w] = NoDecision
           /\ \A v \in Session \ {w} :
                 pc'[v] = pc[v] /\ new'[v] = new[v] /\ decision'[v] = decision[v]
  BY DEF PipelineTyped, Close, Goto, Label

\* Decisions stay about tasks that are there.
LEMMA DecisionsTyped ==
    ASSUME PipelineTyped, tasks' \in Seq(Task), Len(tasks') >= Len(tasks),
           \A w \in Session : decision'[w] \in {decision[w], NoDecision}
    PROVE  \A w \in Session : decision'[w] \in Decision'
<1>1. DOMAIN tasks \subseteq DOMAIN tasks'
  BY DEF PipelineTyped
<1> SUFFICES ASSUME NEW w \in Session PROVE decision'[w] \in Decision'
  OBVIOUS
<1>2. decision[w] \in Decision
  BY DEF PipelineTyped
<1> QED
  BY <1>1, <1>2 DEF Decision

\* What the requests of reps do to a task.
LEMMA TaskChange ==
    ASSUME PipelineTyped, NEW t \in DOMAIN tasks, CompleteTask(t) \/ ReopenTask(t) \/ CoolDownEnds(t)
    PROVE  /\ tasks' \in Seq(Task) /\ Len(tasks') = Len(tasks)
           /\ \A u \in DOMAIN tasks \ {t} : tasks'[u] = tasks[u]
           /\ CompleteTask(t) => tasks[t].status = "open" /\ tasks'[t].status = "done"
           /\ CoolDownEnds(t) => tasks'[t].status = tasks[t].status /\ ~tasks'[t].cooling
<1>0. /\ tasks \in Seq(Task) /\ DOMAIN tasks = 1 .. Len(tasks) /\ Len(tasks) \in Nat
      /\ tasks[t] \in Task
  BY DEF PipelineTyped
<1> DEFINE done == [tasks[t] EXCEPT !.status = "done", !.cooling = TRUE]
           open == [tasks[t] EXCEPT !.status = "open", !.cooling = FALSE]
           quiet == [tasks[t] EXCEPT !.cooling = FALSE]
<1>1. /\ CompleteTask(t) => tasks' = [tasks EXCEPT ![t] = done]
      /\ ReopenTask(t) => tasks' = [tasks EXCEPT ![t] = open]
      /\ CoolDownEnds(t) => tasks' = [tasks EXCEPT ![t] = quiet]
  BY DEF CompleteTask, ReopenTask, CoolDownEnds
<1>2. {done, open, quiet} \subseteq Task /\ done.status = "done"
      /\ quiet.status = tasks[t].status /\ ~quiet.cooling
  BY <1>0 DEF Task
<1>3. CompleteTask(t) => tasks[t].status = "open"
  BY DEF CompleteTask, OpenTasks
<1> HIDE DEF done, open, quiet
<1>4. ASSUME NEW task \in Task, tasks' = [tasks EXCEPT ![t] = task]
      PROVE  /\ tasks' \in Seq(Task) /\ Len(tasks') = Len(tasks)
             /\ \A u \in DOMAIN tasks \ {t} : tasks'[u] = tasks[u]
             /\ tasks'[t] = task
  BY <1>0, <1>4
<1>5. CASE CompleteTask(t)
  BY <1>1, <1>2, <1>3, <1>4, <1>5 DEF CoolDownEnds
<1>6. CASE ReopenTask(t)
  BY <1>1, <1>2, <1>3, <1>4, <1>6 DEF CompleteTask, ReopenTask
<1>7. CASE CoolDownEnds(t)
  BY <1>1, <1>2, <1>3, <1>4, <1>7
<1> QED
  BY <1>5, <1>6, <1>7

\* A transaction that goes on, or ends, without a word about the inbox or the calls.
Quiet(w) ==
    /\ UNCHANGED <<tasks, calls, overlapped>>
    /\ \A v \in Session : decision'[v] \in {decision[v], NoDecision}
    /\ pc'[w] # "call"
    /\ \A v \in Session \ {w} : pc'[v] = pc[v]

\* No step puts anything of another kind where it does not belong.
LEMMA PipelineTypeStep ==
    ASSUME PipelineTyped, Next
    PROVE  PipelineTyped'
<1> USE DEF events, work, session
<1>1. ASSUME NEW w \in Session, \/ IngestFails(w) \/ Screen(w) \/ PlaysFail(w) \/ Fail(w)
                                \/ IngestOnly(w)
      PROVE  PipelineTyped'
  <2>1. Close(w) /\ UNCHANGED <<reported, tasks, calls, overlapped>>
    BY <1>1 DEF IngestFails, Screen, PlaysFail, Fail, IngestOnly
  <2>2. ingested' \subseteq Signal
    BY <1>1 DEF IngestFails, Screen, PlaysFail, Fail, IngestOnly, PipelineTyped
  <2>3. \A v \in Session : decision'[v] \in Decision'
    BY <2>1, TransactionCloses, DecisionsTyped DEF PipelineTyped
  <2> QED
    BY <2>1, <2>2, <2>3, TransactionCloses DEF PipelineTyped
<1>2. ASSUME NEW w \in Session, \/ \E label \in {"fetched", "ingest"} : Fetch(w, label)
                                \/ Ingest(w) \/ Score(w) \/ LookForCall(w)
      PROVE  PipelineTyped'
  <2>1. UNCHANGED <<reported, ingested, tasks, calls, decision>> /\ overlapped' \in BOOLEAN
    BY <1>2 DEF Fetch, Ingest, Score, LookForCall, PipelineTyped
  <2>2. pc' \in [Session -> Label] /\ new' \in [Session -> SUBSET Signal]
    BY <1>2 DEF Fetch, Ingest, Score, LookForCall, PipelineTyped, Goto, Label
  <2>3. \A v \in Session : decision'[v] \in Decision'
    BY <2>1, DecisionsTyped DEF PipelineTyped
  <2> QED
    BY <2>1, <2>2, <2>3 DEF PipelineTyped
<1>3. ASSUME NEW w \in Session, GiveTask(w)
      PROVE  PipelineTyped'
  <2>1. PICK d \in Decide(new[w] \cap Strong) : decision' = [decision EXCEPT ![w] = d]
    BY <1>3 DEF GiveTask
  <2>2. new[w] \cap Strong \subseteq Signal
    BY DEF PipelineTyped
  <2>3. d \in Decision
    BY <2>1, <2>2 DEF Decide, Decision, OpenTasks
  <2>4. /\ UNCHANGED <<reported, ingested, tasks, calls, new>> /\ overlapped' \in BOOLEAN
        /\ Goto(w, "plays")
    BY <1>3 DEF GiveTask, PipelineTyped
  <2>5. \A v \in Session : decision'[v] \in Decision
    BY <2>1, <2>3 DEF PipelineTyped
  <2>6. Decision' = Decision
    BY <2>4 DEF Decision
  <2> QED
    BY <2>1, <2>4, <2>5, <2>6 DEF PipelineTyped, Goto, Label
<1>4. ASSUME NEW w \in Session, PlaysAndCommit(w)
      PROVE  PipelineTyped'
  <2>1. Close(w) /\ UNCHANGED <<reported, calls, overlapped>> /\ tasks' = InboxAfter(decision[w])
        /\ ingested' = ingested \cup new[w]
    BY <1>4 DEF PlaysAndCommit
  <2>2. tasks' \in Seq(Task) /\ Len(tasks') >= Len(tasks)
    BY <2>1, InboxKept DEF PipelineTyped
  <2>3. \A v \in Session : decision'[v] \in Decision'
    BY <2>1, <2>2, TransactionCloses, DecisionsTyped DEF PipelineTyped
  <2> QED
    BY <2>1, <2>2, <2>3, TransactionCloses DEF PipelineTyped
<1>5. ASSUME NEW w \in Session, InsertCall(w)
      PROVE  PipelineTyped'
  <2>1. Close(w) /\ UNCHANGED <<reported, ingested, tasks, overlapped>> /\ calls' = calls + 1
    BY <1>5 DEF InsertCall
  <2>2. \A v \in Session : decision'[v] \in Decision'
    BY <2>1, TransactionCloses, DecisionsTyped DEF PipelineTyped
  <2> QED
    BY <2>1, <2>2, TransactionCloses DEF PipelineTyped
<1>6. ASSUME NEW t \in DOMAIN tasks, CompleteTask(t) \/ ReopenTask(t) \/ CoolDownEnds(t)
      PROVE  PipelineTyped'
  <2>1. UNCHANGED <<reported, ingested, calls, pc, new, decision>> /\ overlapped' \in BOOLEAN
    BY <1>6 DEF CompleteTask, ReopenTask, CoolDownEnds, PipelineTyped
  <2>2. tasks' \in Seq(Task) /\ Len(tasks') = Len(tasks)
    BY <1>6, TaskChange
  <2>3. \A v \in Session : decision'[v] \in Decision'
    BY <2>1, <2>2, DecisionsTyped DEF PipelineTyped
  <2> QED
    BY <2>1, <2>2, <2>3 DEF PipelineTyped
<1>7. ASSUME NEW s \in Signal, Report(s) \/ IngestedElsewhere(s)
      PROVE  PipelineTyped'
  <2>1. /\ UNCHANGED <<ingested, tasks, calls, pc, new, decision, overlapped>>
        /\ reported' \subseteq Signal
    BY <1>7 DEF Report, IngestedElsewhere, PipelineTyped
  <2>2. \A v \in Session : decision'[v] \in Decision'
    BY <2>1, DecisionsTyped DEF PipelineTyped
  <2> QED
    BY <2>1, <2>2 DEF PipelineTyped
<1>8. ASSUME CloseCall
      PROVE  PipelineTyped'
  <2>1. /\ UNCHANGED <<reported, ingested, tasks, pc, new, decision, overlapped>> /\ calls > 0
        /\ calls' = calls - 1
    BY <1>8 DEF CloseCall
  <2>2. \A v \in Session : decision'[v] \in Decision'
    BY <2>1, DecisionsTyped DEF PipelineTyped
  <2> QED
    BY <2>1, <2>2 DEF PipelineTyped
<1> QED
  BY <1>1, <1>2, <1>3, <1>4, <1>5, <1>6, <1>7, <1>8 DEF Next, Step, Refresh

\* A quiet step leaves every decision that stands standing.
LEMMA QuietStep ==
    ASSUME PipelineTyped, DecisionStands, CallStands, OneAtMost, NEW w \in Session, Quiet(w),
           pc' \in [Session -> Label]
    PROVE  DecisionStands' /\ CallStands' /\ OneAtMost'
<1>1. OpenTasks' = OpenTasks /\ CoolingDown' = CoolingDown /\ calls' = calls
  BY DEF Quiet, OpenTasks, CoolingDown
<1>2. \A v \in Session : decision'[v] = decision[v] \/ decision'[v].what = "nothing"
  BY DEF Quiet, NoDecision
<1>3. DecisionStands'
  BY <1>1, <1>2 DEF DecisionStands, Creates
<1>4. CallStands'
  BY <1>1 DEF CallStands, Quiet
<1> QED
  BY <1>1, <1>3, <1>4 DEF OneAtMost

\* Until two of them overlap, decisions stand: the step of a rep or of another transaction
\* that would make one stale is one that the decision has ruled out.
LEMMA StandsStep ==
    ASSUME PipelineInv, PipelineTyped', Next, ~overlapped'
    PROVE  DecisionStands' /\ CallStands' /\ OneAtMost'
<1> USE DEF events, work, session
<1>0. PipelineTyped
  BY DEF PipelineInv
<1>a. ~overlapped
  BY <1>0 DEF Next, Step, Refresh, Fetch, Ingest, IngestFails, Screen, Score, GiveTask,
     PlaysAndCommit,
        PlaysFail, Fail, IngestOnly, CompleteTask, ReopenTask, CoolDownEnds, Report, IngestedElsewhere, LookForCall,
        InsertCall, CloseCall, PipelineTyped
<1>b. DecisionStands /\ CallStands /\ OneAtMost
  BY <1>a DEF PipelineInv
<1>c. tasks' = tasks => OpenTasks' = OpenTasks /\ CoolingDown' = CoolingDown
  BY DEF OpenTasks, CoolingDown
<1>d. /\ tasks \in Seq(Task) /\ DOMAIN tasks = 1 .. Len(tasks) /\ Len(tasks) \in Nat
      /\ \A t \in DOMAIN tasks : tasks[t] \in Task
  BY <1>0 DEF PipelineTyped
<1>1. ASSUME NEW w \in Session, \/ IngestFails(w) \/ Screen(w) \/ PlaysFail(w) \/ Fail(w)
                                \/ IngestOnly(w)
      PROVE  Quiet(w)
  <2>1. Close(w) /\ UNCHANGED <<tasks, calls, overlapped>>
    BY <1>1 DEF IngestFails, Screen, PlaysFail, Fail, IngestOnly
  <2> QED
    BY <1>0, <2>1, TransactionCloses DEF Quiet
<1>2. ASSUME NEW w \in Session, \/ \E label \in {"fetched", "ingest"} : Fetch(w, label)
                                \/ Ingest(w) \/ Score(w)
      PROVE  Quiet(w)
  BY <1>0, <1>2 DEF Fetch, Ingest, Score, Goto, Quiet, PipelineTyped
<1>3. ASSUME NEW w \in Session, GiveTask(w)
      PROVE  DecisionStands' /\ CallStands' /\ OneAtMost'
  <2>1. PICK d \in Decide(new[w] \cap Strong) :
           /\ decision' = [decision EXCEPT ![w] = d]
           /\ overlapped' = (overlapped \/ (d.what = "create" /\ Deciders(w) # {}))
    BY <1>3 DEF GiveTask
  <2>2. UNCHANGED <<tasks, calls>> /\ Goto(w, "plays")
    BY <1>3 DEF GiveTask
  <2>3. CallStands' /\ OneAtMost'
    BY <1>0, <1>b, <1>c, <2>2 DEF CallStands, OneAtMost, Goto, PipelineTyped
  <2>4. d.what = "create" => OpenTasks = {} /\ ~CoolingDown
    BY DEF Decide, NoDecision, Touch
  <2>5. d.what = "touch" => OpenTasks # {}
    BY DEF Decide, NoDecision, Create
  <2>6. d.what \in {"nothing", "touch", "create"}
    BY DEF Decide, NoDecision, Create, Touch
  <2>7. d.what = "create" => \A v \in Session \ {w} : decision[v].what = "nothing"
    BY <2>1 DEF Deciders
  <2>8. decision'[w] = d /\ \A v \in Session \ {w} : decision'[v] = decision[v]
    BY <1>0, <2>1 DEF PipelineTyped
  <2>9. ASSUME NEW u \in Session, Creates(u)'
        PROVE  OpenTasks' = {} /\ ~CoolingDown' /\ \A v \in Session \ {u} : decision'[v].what = "nothing"
    <3>1. CASE u = w
      BY <1>c, <2>2, <2>4, <2>7, <2>8, <2>9, <3>1 DEF Creates
    <3>2. CASE u # w
      <4>1. Creates(u)
        BY <2>8, <2>9, <3>2 DEF Creates
      <4>2. OpenTasks = {} /\ ~CoolingDown /\ \A v \in Session \ {u} : decision[v].what = "nothing"
        BY <1>b, <4>1 DEF DecisionStands
      <4>3. d.what # "touch" /\ d.what # "create"
        BY <2>5, <2>7, <3>2, <4>1, <4>2 DEF Creates
      <4> QED
        BY <1>c, <2>2, <2>6, <2>8, <4>2, <4>3
    <3> QED
      BY <3>1, <3>2
  <2> QED
    BY <2>3, <2>9 DEF DecisionStands
<1>4. ASSUME NEW w \in Session, PlaysAndCommit(w)
      PROVE  DecisionStands' /\ CallStands' /\ OneAtMost'
  <2> DEFINE d == decision[w]
  <2>1. Close(w) /\ UNCHANGED calls /\ tasks' = InboxAfter(d)
    BY <1>4 DEF PlaysAndCommit
  <2>2. d \in Decision
    BY <1>0 DEF PipelineTyped
  <2>3. CallStands'
    BY <1>0, <1>b, <2>1, TransactionCloses DEF CallStands
  <2>4. decision'[w].what = "nothing" /\ \A v \in Session \ {w} : decision'[v] = decision[v]
    BY <1>0, <2>1, TransactionCloses DEF NoDecision
  <2>5. DOMAIN tasks' = 1 .. Len(tasks')
    BY DEF PipelineTyped
  <2>6. CASE d.what = "create"
    <3>1. \A v \in Session : decision'[v].what = "nothing"
      BY <1>b, <2>4, <2>6 DEF DecisionStands, Creates
    <3>2. /\ Len(tasks') = Len(tasks) + 1
          /\ \A t \in DOMAIN tasks : tasks'[t] = tasks[t]
      BY <1>d, <2>1, <2>2, <2>6, InboxKept
    <3>3. OpenTasks = {}
      BY <1>b, <2>6 DEF DecisionStands, Creates
    <3>4. OpenTasks' \subseteq {Len(tasks) + 1}
      BY <1>d, <2>5, <3>2, <3>3 DEF OpenTasks
    <3> QED
      BY <2>3, <3>1, <3>4 DEF DecisionStands, Creates, OneAtMost
  <2>7. CASE d.what # "create"
    <3>1. /\ Len(tasks') = Len(tasks)
          /\ \A t \in DOMAIN tasks : tasks'[t].status = tasks[t].status
      BY <1>d, <2>1, <2>2, <2>7, InboxKept
    <3>2. OpenTasks' = OpenTasks
      BY <1>d, <2>5, <3>1 DEF OpenTasks
    <3>3. ASSUME NEW u \in Session, Creates(u)'
          PROVE  OpenTasks' = {} /\ ~CoolingDown' /\ \A v \in Session \ {u} : decision'[v].what = "nothing"
      <4>1. u # w /\ Creates(u)
        BY <2>4, <3>3 DEF Creates
      <4>2. OpenTasks = {} /\ ~CoolingDown /\ \A v \in Session \ {u} : decision[v].what = "nothing"
        BY <1>b, <4>1 DEF DecisionStands
      <4>3. d.what = "nothing"
        BY <4>1, <4>2
      <4>4. tasks' = tasks
        BY <2>1, <4>3, InboxKept, <1>d, <2>2
      <4> QED
        BY <1>c, <2>4, <4>2, <4>4
    <3> QED
      BY <1>b, <2>3, <3>2, <3>3 DEF DecisionStands, OneAtMost
  <2> QED
    BY <2>6, <2>7
<1>5. ASSUME NEW w \in Session, LookForCall(w)
      PROVE  DecisionStands' /\ CallStands' /\ OneAtMost'
  <2>1. /\ UNCHANGED <<tasks, calls, decision>> /\ Goto(w, "call") /\ calls = 0
        /\ \A v \in Session \ {w} : pc[v] # "call"
    BY <1>5 DEF LookForCall
  <2> QED
    BY <1>0, <1>b, <1>c, <2>1 DEF Goto, PipelineTyped, CallStands, DecisionStands, Creates,
       OneAtMost
<1>6. ASSUME NEW w \in Session, InsertCall(w)
      PROVE  DecisionStands' /\ CallStands' /\ OneAtMost'
  <2>1. Close(w) /\ UNCHANGED tasks /\ calls' = calls + 1 /\ pc[w] = "call"
    BY <1>6 DEF InsertCall
  <2>2. /\ pc'[w] = "idle" /\ decision'[w] = NoDecision
        /\ \A v \in Session \ {w} : pc'[v] = pc[v] /\ decision'[v] = decision[v]
    BY <1>0, <2>1, TransactionCloses
  <2>3. CallStands'
    BY <1>0, <1>b, <2>1, <2>2 DEF CallStands, PipelineTyped
  <2>4. \A v \in Session : decision'[v] = decision[v] \/ decision'[v].what = "nothing"
    BY <2>2 DEF NoDecision
  <2>5. DecisionStands'
    BY <1>b, <1>c, <2>1, <2>4 DEF DecisionStands, Creates
  <2> QED
    BY <1>b, <1>c, <2>1, <2>3, <2>5 DEF OneAtMost
<1>7. ASSUME NEW t \in DOMAIN tasks, CompleteTask(t) \/ ReopenTask(t) \/ CoolDownEnds(t)
      PROVE  DecisionStands' /\ CallStands' /\ OneAtMost'
  <2>1. UNCHANGED <<calls, pc, decision>> /\ ~ReopenTask(t)
    BY <1>7 DEF CompleteTask, ReopenTask, CoolDownEnds
  <2>2. /\ Len(tasks') = Len(tasks)
        /\ \A u \in DOMAIN tasks \ {t} : tasks'[u] = tasks[u]
        /\ CompleteTask(t) => tasks[t].status = "open" /\ tasks'[t].status = "done"
        /\ CoolDownEnds(t) => tasks'[t].status = tasks[t].status /\ ~tasks'[t].cooling
    BY <1>0, <1>7, TaskChange
  <2>3. DOMAIN tasks' = DOMAIN tasks
    BY <1>d, <2>2 DEF PipelineTyped
  <2>4. OpenTasks' \subseteq OpenTasks
    BY <1>7, <2>1, <2>2, <2>3 DEF OpenTasks
  <2>5. CallStands' /\ OneAtMost'
    BY <1>b, <2>1, <2>4 DEF CallStands, OneAtMost
  <2>6. CASE CompleteTask(t)
    <3>1. OpenTasks # {}
      BY <2>6 DEF CompleteTask
    <3>2. \A v \in Session : ~Creates(v)'
      BY <1>b, <2>1, <3>1 DEF DecisionStands, Creates
    <3> QED
      BY <2>5, <3>2 DEF DecisionStands
  <2>7. CASE CoolDownEnds(t)
    <3>1. CoolingDown' => CoolingDown
      BY <2>2, <2>3, <2>7 DEF CoolingDown
    <3> QED
      BY <1>b, <2>1, <2>4, <2>5, <3>1 DEF DecisionStands, Creates
  <2> QED
    BY <1>7, <2>1, <2>6, <2>7
<1>8. ASSUME NEW s \in Signal, Report(s) \/ IngestedElsewhere(s)
      PROVE  DecisionStands' /\ CallStands' /\ OneAtMost'
  BY <1>b, <1>c, <1>8 DEF Report, IngestedElsewhere, DecisionStands, Creates, CallStands, OneAtMost
<1>9. ASSUME CloseCall
      PROVE  DecisionStands' /\ CallStands' /\ OneAtMost'
  <2>1. UNCHANGED <<tasks, pc, decision>> /\ calls > 0 /\ calls' = calls - 1
    BY <1>9 DEF CloseCall
  <2> QED
    BY <1>0, <1>b, <1>c, <2>1 DEF PipelineTyped, DecisionStands, Creates, CallStands, OneAtMost
<1>10. ASSUME NEW w \in Session, Quiet(w)
       PROVE  DecisionStands' /\ CallStands' /\ OneAtMost'
  BY <1>0, <1>b, <1>10, QuietStep DEF PipelineTyped
<1> QED
  BY <1>1, <1>2, <1>3, <1>4, <1>5, <1>6, <1>7, <1>8, <1>9, <1>10 DEF Next, Step, Refresh

\* A signal is committed together with the records of its plays, or is none of theirs.
LEMMA RecordsStep ==
    PlaysWithSignals /\ Next => PlaysWithSignals'
  BY DEF PlaysWithSignals, Next, Step, Refresh, Fetch, Ingest, IngestFails, Screen, Score,
     GiveTask, PlaysAndCommit,
        PlaysFail, Fail, IngestOnly, CompleteTask, ReopenTask, CoolDownEnds, Report, IngestedElsewhere, LookForCall,
        InsertCall, CloseCall, events, work, session

\* PipelineInv is inductive, and gives what the run checks.
LEMMA PipelineInit == Init => PipelineInv
<1> SUFFICES ASSUME Init PROVE PipelineInv
  OBVIOUS
<1>1. PipelineTyped
  <2>1. tasks \in Seq(Task)
    BY DEF Init
  <2>2. \A w \in Session : decision[w] \in Decision
    BY DEF Init, Decision
  <2> QED
    BY <2>1, <2>2 DEF Init, PipelineTyped, Label
<1>2. OpenTasks = {} /\ \A w \in Session : ~Creates(w)
  BY DEF Init, OpenTasks, Creates, NoDecision
<1>3. DecisionStands /\ CallStands /\ OneAtMost
  BY <1>2 DEF Init, DecisionStands, CallStands, OneAtMost
<1> QED
  BY <1>1, <1>3 DEF PipelineInv, Init, PlaysWithSignals

LEMMA PipelineStep == PipelineInv /\ [Next]_vars => PipelineInv'
<1> SUFFICES ASSUME PipelineInv, [Next]_vars PROVE PipelineInv'
  OBVIOUS
<1>1. CASE Next
  BY <1>1, PipelineTypeStep, StandsStep, RecordsStep DEF PipelineInv
<1>2. CASE UNCHANGED vars
  BY <1>2 DEF vars, events, work, session, PipelineInv, PipelineTyped, PlaysWithSignals,
     DecisionStands,
        CallStands, OneAtMost, Creates, OpenTasks, CoolingDown, Decision
<1> QED
  BY <1>1, <1>2

LEMMA PipelineGives == PipelineInv => OneUnitOfWork
<1> SUFFICES ASSUME PipelineInv PROVE OneUnitOfWork
  OBVIOUS
<1>1. ASSUME OneAtMost PROVE Cardinality(OpenTasks) <= 1
  <2>1. CASE OpenTasks = {}
    BY <2>1, FS_EmptySet
  <2>2. CASE OpenTasks # {}
    <3>1. PICK t : t \in OpenTasks
      BY <2>2
    <3>2. OpenTasks = {t}
      BY <1>1, <3>1 DEF OneAtMost
    <3>3. Cardinality({t}) = 1
      BY FS_Singleton
    <3> QED
      BY <3>2, <3>3
  <2> QED
    BY <2>1, <2>2
<1> QED
  BY <1>1 DEF PipelineInv, OneUnitOfWork, OneOpenTask, CallStands

\* A step that gives a new task is one that was decided while nothing cooled down.
LEMMA QuietWhileCooling ==
    ASSUME PipelineInv, [Next]_vars, CoolingDown, ~overlapped
    PROVE  Len(tasks') = Len(tasks)
<1>0. PipelineTyped /\ DecisionStands
  BY DEF PipelineInv
<1>1. ASSUME NEW w \in Session, PlaysAndCommit(w)
      PROVE  Len(tasks') = Len(tasks)
  <2>1. tasks' = InboxAfter(decision[w]) /\ decision[w] \in Decision
    BY <1>0, <1>1 DEF PlaysAndCommit, PipelineTyped
  <2>2. decision[w].what # "create"
    BY <1>0 DEF DecisionStands, Creates
  <2> QED
    BY <1>0, <2>1, <2>2, InboxKept DEF PipelineTyped
<1>2. ASSUME NEW t \in DOMAIN tasks, CompleteTask(t) \/ ReopenTask(t) \/ CoolDownEnds(t)
      PROVE  Len(tasks') = Len(tasks)
  BY <1>0, <1>2, TaskChange
<1>3. ASSUME Next, \A w \in Session : ~PlaysAndCommit(w),
             \A t \in DOMAIN tasks : ~(CompleteTask(t) \/ ReopenTask(t) \/ CoolDownEnds(t))
      PROVE  tasks' = tasks
  BY <1>3 DEF Next, Step, Refresh, Fetch, Ingest, IngestFails, Screen, Score, GiveTask,
        PlaysFail, Fail, IngestOnly, Report, IngestedElsewhere, LookForCall, InsertCall, CloseCall, work
<1> QED
  BY <1>1, <1>2, <1>3 DEF vars, work

-----------------------------------------------------------------------------
(* The digest.
   One digest in an interval is not inductive: a job adds its digest after the gate.
   DigestInv says that, until two jobs are past the gate, the last digest is still an
   interval older than the clock of the job that is, and what it has counted is within
   that interval. *)

Sending == [at : Nat, news : SUBSET Nat]

DigestTyped ==
    /\ time \in Nat
    /\ news \subseteq Nat
    /\ digests \in Seq(Sending)
    /\ doing \in [Job -> {"idle", "gate", "count", "add"}]
    /\ start \in [Job -> Nat]
    /\ report \in [Job -> SUBSET Nat]
    /\ doubled \in BOOLEAN

\* Nothing comes from the future, and digests are sent in order.
InOrderOfTime ==
    /\ \A t \in news : t <= time
    /\ \A j \in Job : start[j] <= time
    /\ \A i \in DOMAIN digests :
          /\ digests[i].at <= time
          /\ \A t \in digests[i].news : t <= digests[i].at
          /\ \A k \in DOMAIN digests : i <= k => digests[i].at <= digests[k].at

ReportInWindow ==
    \A j \in Job : \A t \in report[j] : t <= time /\ (doing[j] = "add" => t + Interval >= start[j])

\* Past the gate: nothing was sent within the window, and nobody else is past it.
GateHolds ==
    \A j \in Job : doing[j] \in {"count", "add"} =>
        /\ digests # <<>> => digests[Len(digests)].at + Interval <= start[j]
        /\ \A k \in Job : doing[k] \in {"count", "add"} => k = j

DigestInv ==
    /\ DigestTyped /\ InOrderOfTime /\ ReportInWindow
    /\ ~doubled => GateHolds
    /\ Daily!DigestsAgree

\* A job ends.
LEMMA DigestClose ==
    ASSUME DigestTyped, NEW j \in Job, Daily!Close(j)
    PROVE  /\ doing' \in [Job -> {"idle", "gate", "count", "add"}]
           /\ start' \in [Job -> Nat] /\ report' \in [Job -> SUBSET Nat]
           /\ doing'[j] = "idle" /\ start'[j] = 0 /\ report'[j] = {}
           /\ \A k \in Job \ {j} : doing'[k] = doing[k] /\ start'[k] = start[k] /\ report'[k] = report[k]
  BY DEF DigestTyped, Daily!Close, Daily!Goto

LEMMA SentTyped ==
    ASSUME DigestTyped
    PROVE  /\ DOMAIN digests = 1 .. Len(digests) /\ Len(digests) \in Nat
           /\ \A i \in DOMAIN digests : digests[i].at \in Nat /\ digests[i].news \subseteq Nat
<1>1. DOMAIN digests = 1 .. Len(digests) /\ Len(digests) \in Nat
  BY DEF DigestTyped
<1>2. \A i \in DOMAIN digests : digests[i] \in Sending
  BY DEF DigestTyped
<1> QED
  BY <1>1, <1>2 DEF Sending

\* What a job adds to the digests.
LEMMA DigestSent ==
    ASSUME DigestTyped, NEW j \in Job, Daily!Add(j)
    PROVE  /\ digests' \in Seq(Sending)
           /\ Len(digests') = Len(digests) + 1
           /\ \A i \in DOMAIN digests : digests'[i] = digests[i]
           /\ digests'[Len(digests) + 1].at = time
           /\ digests'[Len(digests) + 1].news = report[j]
<1> DEFINE sent == [at |-> time, news |-> report[j]]
<1>1. sent \in Sending /\ sent.at = time /\ sent.news = report[j]
  BY DEF DigestTyped, Sending
<1>2. digests' = Append(digests, sent)
  BY DEF Daily!Add
<1> HIDE DEF sent
<1> QED
  BY <1>1, <1>2 DEF DigestTyped

\* No step of a job, and no news, disturbs the types.
LEMMA DigestTypeStep ==
    ASSUME DigestTyped, Daily!Next
    PROVE  DigestTyped'
<1> USE DEF Daily!job
<1>1. ASSUME NEW j \in Job, Daily!Begin(j)
      PROVE  DigestTyped'
  BY <1>1 DEF Daily!Begin, DigestTyped, Daily!Goto
<1>2. ASSUME NEW j \in Job, Daily!Gate(j)
      PROVE  DigestTyped'
  <2>1. CASE Daily!Sent(j)
    BY <1>2, <2>1, DigestClose DEF Daily!Gate, DigestTyped
  <2>2. CASE ~Daily!Sent(j)
    BY <1>2, <2>2 DEF Daily!Gate, DigestTyped, Daily!Goto
  <2> QED
    BY <2>1, <2>2
<1>3. ASSUME NEW j \in Job, Daily!Count(j)
      PROVE  DigestTyped'
  <2>1. CASE Daily!Close(j)
    BY <1>3, <2>1, DigestClose DEF Daily!Count, DigestTyped
  <2>2. CASE ~Daily!Close(j)
    BY <1>3, <2>2 DEF Daily!Count, DigestTyped, Daily!Goto
  <2> QED
    BY <2>1, <2>2
<1>4. ASSUME NEW j \in Job, Daily!Add(j)
      PROVE  DigestTyped'
  BY <1>4, DigestClose, DigestSent DEF Daily!Add, DigestTyped
<1>5. ASSUME NEW j \in Job, Daily!Fail(j)
      PROVE  DigestTyped'
  BY <1>5, DigestClose DEF Daily!Fail, DigestTyped
<1>6. ASSUME NEW t \in Daily!Instant, Daily!News(t)
      PROVE  DigestTyped'
  BY <1>6, HorizonAssumption DEF Daily!News, DigestTyped, Daily!Instant
<1>7. ASSUME Daily!Tick
      PROVE  DigestTyped'
  BY <1>7 DEF Daily!Tick, DigestTyped
<1> QED
  BY <1>1, <1>2, <1>3, <1>4, <1>5, <1>6, <1>7 DEF Daily!Next

LEMMA JobStarted ==
    ASSUME DigestTyped, InOrderOfTime, NEW j \in Job, Daily!Close(j), time' = time
    PROVE  \A k \in Job : start'[k] <= time'
<1> SUFFICES ASSUME NEW k \in Job PROVE start'[k] <= time
  OBVIOUS
<1>1. CASE k = j
  <2>1. start'[k] = 0 /\ time \in Nat
    BY <1>1, DigestClose DEF DigestTyped
  <2> QED
    BY <2>1
<1>2. CASE k # j
  <2>1. start'[k] = start[k]
    BY <1>2, DigestClose
  <2> QED
    BY <2>1 DEF InOrderOfTime
<1> QED
  BY <1>1, <1>2

\* Digests follow the clock, and no report is of the future.
LEMMA TimeStep ==
    ASSUME DigestInv, DigestTyped', Daily!Next
    PROVE  InOrderOfTime' /\ ReportInWindow'
<1> USE DEF Daily!job
<1>0. DigestTyped /\ InOrderOfTime /\ ReportInWindow
  BY DEF DigestInv
<1>1. ASSUME NEW j \in Job, Daily!Begin(j)
      PROVE  InOrderOfTime' /\ ReportInWindow'
  BY <1>0, <1>1 DEF Daily!Begin, DigestTyped, Daily!Goto, InOrderOfTime, ReportInWindow
<1>2. ASSUME NEW j \in Job, UNCHANGED <<time, news, digests>>, Daily!Close(j)
      PROVE  InOrderOfTime' /\ ReportInWindow'
  <2>1. \A k \in Job : start'[k] <= time'
    BY <1>0, <1>2, JobStarted
  <2>1a. InOrderOfTime'
    BY <1>0, <1>2, <2>1 DEF InOrderOfTime
  <2>2. ReportInWindow'
    BY <1>0, <1>2, DigestClose DEF ReportInWindow
  <2> QED
    BY <2>1a, <2>2
<1>3. ASSUME NEW j \in Job, Daily!Gate(j), ~Daily!Close(j)
      PROVE  InOrderOfTime' /\ ReportInWindow'
  BY <1>0, <1>3 DEF Daily!Gate, DigestTyped, Daily!Goto, InOrderOfTime, ReportInWindow
<1>4. ASSUME NEW j \in Job, Daily!Count(j), ~Daily!Close(j)
      PROVE  InOrderOfTime' /\ ReportInWindow'
  <2>1. /\ report' = [report EXCEPT ![j] = {t \in news : Daily!InWindow(j, t)}]
        /\ Daily!Goto(j, "add") /\ UNCHANGED <<time, news, digests, start>>
    BY <1>4 DEF Daily!Count
  <2>2. InOrderOfTime'
    BY <1>0, <2>1 DEF InOrderOfTime
  <2>3. ReportInWindow'
    BY <1>0, <2>1 DEF ReportInWindow, InOrderOfTime, Daily!InWindow, Daily!Goto, DigestTyped
  <2> QED
    BY <2>2, <2>3
<1>5. ASSUME NEW j \in Job, Daily!Add(j)
      PROVE  InOrderOfTime' /\ ReportInWindow'
  <2>1. UNCHANGED <<time, news>> /\ Daily!Close(j) /\ doing[j] = "add"
    BY <1>5 DEF Daily!Add
  <2>2. ReportInWindow'
    BY <1>0, <2>1, DigestClose DEF ReportInWindow
  <2>3. /\ \A t \in news' : t <= time'
        /\ \A k \in Job : start'[k] <= time'
    BY <1>0, <2>1, JobStarted DEF InOrderOfTime
  <2> DEFINE n == Len(digests) + 1
  <2>4. /\ DOMAIN digests' = 1 .. n /\ DOMAIN digests = 1 .. n - 1 /\ n \in Nat
        /\ \A i \in 1 .. n - 1 : digests'[i] = digests[i]
        /\ digests'[n].at = time /\ digests'[n].news = report[j]
    BY <1>0, <1>5, DigestSent DEF DigestTyped
  <2>5. \A t \in report[j] : t <= time
    BY <1>0 DEF ReportInWindow
  <2> HIDE DEF n
  <2>6. ASSUME NEW i \in DOMAIN digests'
        PROVE  /\ digests'[i].at <= time'
               /\ \A t \in digests'[i].news : t <= digests'[i].at
    <3>1. CASE i = n
      BY <1>0, <2>1, <2>4, <2>5, <3>1 DEF DigestTyped
    <3>2. CASE i # n
      <4>1. i \in DOMAIN digests /\ digests'[i] = digests[i]
        BY <2>4, <3>2
      <4> QED
        BY <1>0, <2>1, <4>1 DEF InOrderOfTime
    <3> QED
      BY <3>1, <3>2
  <2>7. ASSUME NEW i \in DOMAIN digests', NEW k \in DOMAIN digests', i <= k
        PROVE  digests'[i].at <= digests'[k].at
    <3>1. CASE k = n
      BY <2>1, <2>4, <2>6, <3>1
    <3>2. CASE k # n
      <4>1. i \in DOMAIN digests /\ k \in DOMAIN digests
            /\ digests'[i] = digests[i] /\ digests'[k] = digests[k]
        BY <2>4, <2>7, <3>2
      <4> QED
        BY <1>0, <2>7, <4>1 DEF InOrderOfTime
    <3> QED
      BY <3>1, <3>2
  <2>8. InOrderOfTime'
    BY <2>3, <2>6, <2>7 DEF InOrderOfTime
  <2> QED
    BY <2>2, <2>8
<1>6. ASSUME NEW t \in Daily!Instant, Daily!News(t)
      PROVE  InOrderOfTime' /\ ReportInWindow'
  BY <1>0, <1>6 DEF Daily!News, InOrderOfTime, ReportInWindow
<1>7. ASSUME Daily!Tick
      PROVE  InOrderOfTime' /\ ReportInWindow'
  <2>1. UNCHANGED <<news, digests, doing, start, report>> /\ time' = time + 1
    BY <1>7 DEF Daily!Tick
  <2>2. \A t \in Nat : t <= time => t <= time'
    BY <1>0, <2>1 DEF DigestTyped
  <2>3. \A i \in DOMAIN digests : digests[i].at \in Nat
    BY <1>0, SentTyped
  <2>4. InOrderOfTime'
    BY <1>0, <2>1, <2>2, <2>3 DEF InOrderOfTime, DigestTyped
  <2>5. ReportInWindow'
    BY <1>0, <2>1, <2>2 DEF ReportInWindow, DigestTyped
  <2> QED
    BY <2>4, <2>5
<1> QED
  BY <1>1, <1>2, <1>3, <1>4, <1>5, <1>6, <1>7 DEF Daily!Next, Daily!Gate, Daily!Count, Daily!Fail

\* Until two jobs are past the gate, the one that is has the interval for itself.
LEMMA GateStep ==
    ASSUME DigestInv, DigestTyped', Daily!Next, ~doubled'
    PROVE  ~doubled /\ GateHolds'
<1> USE DEF Daily!job
<1>a. ~doubled
  BY DEF Daily!Next, Daily!Begin, Daily!Gate, Daily!Count, Daily!Add, Daily!Fail, Daily!News,
     Daily!Tick, DigestInv, DigestTyped
<1>0. DigestTyped /\ InOrderOfTime /\ GateHolds
  BY <1>a DEF DigestInv
<1>1. ASSUME NEW j \in Job, Daily!Begin(j)
      PROVE  GateHolds'
  BY <1>0, <1>1 DEF Daily!Begin, DigestTyped, Daily!Goto, GateHolds
<1>2. ASSUME NEW j \in Job, UNCHANGED <<time, news, digests>>, Daily!Close(j)
      PROVE  GateHolds'
  BY <1>0, <1>2, DigestClose DEF GateHolds
<1>3. ASSUME NEW j \in Job, Daily!Gate(j), ~Daily!Close(j)
      PROVE  GateHolds'
  <2>1. /\ UNCHANGED <<digests, start>> /\ Daily!Goto(j, "count") /\ ~Daily!Sent(j)
        /\ \A k \in Job : doing[k] \notin {"count", "add"}
    BY <1>3 DEF Daily!Gate
  <2>2. digests # <<>> => digests[Len(digests)].at \in Nat
    BY <1>0, SentTyped DEF DigestTyped
  <2>3. digests # <<>> => digests[Len(digests)].at + Interval <= start[j]
    <3>1. start[j] \in Nat
      BY <1>0 DEF DigestTyped
    <3>2. digests # <<>> => ~(digests[Len(digests)].at + Interval > start[j])
      BY <2>1 DEF Daily!Sent
    <3> QED
      BY <2>2, <3>1, <3>2, IntervalAssumption
  <2>4. doing'[j] = "count" /\ \A k \in Job \ {j} : doing'[k] = doing[k]
    BY <1>0, <2>1 DEF Daily!Goto, DigestTyped
  <2> QED
    BY <2>1, <2>3, <2>4 DEF GateHolds
<1>4. ASSUME NEW j \in Job, Daily!Count(j), ~Daily!Close(j)
      PROVE  GateHolds'
  BY <1>0, <1>4 DEF Daily!Count, Daily!Goto, DigestTyped, GateHolds
<1>5. ASSUME NEW j \in Job, Daily!Add(j)
      PROVE  GateHolds'
  <2>1. doing[j] = "add" /\ Daily!Close(j)
    BY <1>5 DEF Daily!Add
  <2>2. \A k \in Job : doing'[k] \notin {"count", "add"}
    BY <1>0, <2>1, DigestClose DEF GateHolds
  <2> QED
    BY <2>2 DEF GateHolds
<1>6. ASSUME NEW t \in Daily!Instant, Daily!News(t)
      PROVE  GateHolds'
  BY <1>0, <1>6 DEF Daily!News, GateHolds
<1>7. ASSUME Daily!Tick
      PROVE  GateHolds'
  BY <1>0, <1>7 DEF Daily!Tick, GateHolds
<1> QED
  BY <1>a, <1>1, <1>2, <1>3, <1>4, <1>5, <1>6, <1>7 DEF Daily!Next, Daily!Gate, Daily!Count,
     Daily!Fail

\* So the digest that it adds comes an interval after the last, and counts what came after.
LEMMA DigestsAgreeStep ==
    ASSUME DigestInv, DigestTyped', Daily!Next
    PROVE  Daily!DigestsAgree'
<1> USE DEF Daily!job
<1>1. CASE doubled'
  BY <1>1 DEF Daily!DigestsAgree, Daily!OnePerInterval, Daily!CountedOnce
<1>2. CASE ~doubled'
  <2>0. ~doubled /\ DigestTyped /\ InOrderOfTime /\ ReportInWindow /\ GateHolds
        /\ Daily!OnePerInterval /\ Daily!CountedOnce
    BY <1>2, GateStep DEF DigestInv, Daily!DigestsAgree
  <2>1. CASE digests' = digests
    BY <2>0, <2>1 DEF Daily!DigestsAgree, Daily!OnePerInterval, Daily!CountedOnce
  <2>2. CASE digests' # digests
    <3>1. PICK j \in Job : Daily!Add(j)
      BY <2>2 DEF Daily!Next, Daily!Begin, Daily!Gate, Daily!Count, Daily!Fail, Daily!News,
         Daily!Tick
    <3> DEFINE n == Len(digests) + 1
    <3>2. /\ DOMAIN digests' = 1 .. n /\ DOMAIN digests = 1 .. n - 1 /\ n \in Nat \ {0}
          /\ Len(digests') = n /\ Len(digests) = n - 1
          /\ \A i \in 1 .. n - 1 : digests'[i] = digests[i]
          /\ digests'[n].at = time /\ digests'[n].news = report[j]
      BY <2>0, <3>1, DigestSent DEF DigestTyped
    <3> HIDE DEF n
    <3>3. doing[j] = "add"
      BY <3>1 DEF Daily!Add
    <3>4. n > 1 => digests[n - 1].at + Interval <= start[j]
      BY <2>0, <3>2, <3>3 DEF GateHolds
    <3>5. /\ time \in Nat /\ start[j] \in Nat /\ start[j] <= time /\ Interval \in Nat
          /\ \A i \in DOMAIN digests : digests[i].at \in Nat /\ digests[i].news \subseteq Nat
          /\ report[j] \subseteq Nat
      <4>1. time \in Nat /\ start[j] \in Nat /\ report[j] \subseteq Nat
        BY <2>0 DEF DigestTyped
      <4>2. start[j] <= time
        BY <2>0 DEF InOrderOfTime
      <4> QED
        BY <2>0, <4>1, <4>2, SentTyped, IntervalAssumption
    <3>6. ASSUME NEW i \in 2 .. n
          PROVE  digests'[i].at >= digests'[i - 1].at + Interval
      <4>1. CASE i = n
        <5>1. /\ digests'[i].at = time /\ digests'[i - 1] = digests[n - 1]
              /\ n - 1 \in DOMAIN digests /\ n > 1
          BY <3>2, <4>1
        <5> QED
          BY <3>4, <3>5, <5>1
      <4>2. CASE i # n
        <5>1. /\ i \in 2 .. Len(digests) /\ digests'[i] = digests[i]
              /\ digests'[i - 1] = digests[i - 1]
          BY <3>2, <4>2
        <5> QED
          BY <2>0, <5>1 DEF Daily!OnePerInterval
      <4> QED
        BY <4>1, <4>2
    <3>7. ASSUME NEW i \in DOMAIN digests', NEW k \in DOMAIN digests', i < k,
                 NEW t \in digests'[i].news \cap digests'[k].news
          PROVE  t = digests'[i].at
      <4>1. i \in DOMAIN digests /\ digests'[i] = digests[i]
        BY <3>2, <3>7
      <4>2. CASE k = n
        <5>1. n > 1 /\ n - 1 \in DOMAIN digests /\ i <= n - 1
          BY <3>2, <3>7, <4>2
        <5>2. digests[i].at <= digests[n - 1].at
          BY <2>0, <4>1, <5>1 DEF InOrderOfTime
        <5>3. t <= digests[i].at
          BY <2>0, <3>7, <4>1 DEF InOrderOfTime
        <5>4. t + Interval >= start[j]
          BY <2>0, <3>2, <3>3, <3>7, <4>2 DEF ReportInWindow
        <5>5. t \in Nat /\ digests[i].at \in Nat /\ digests[n - 1].at \in Nat
          BY <3>5, <3>7, <4>1, <5>1
        <5> QED
          BY <3>4, <3>5, <4>1, <5>1, <5>2, <5>3, <5>4, <5>5
      <4>3. CASE k # n
        <5>1. k \in DOMAIN digests /\ digests'[k] = digests[k]
          BY <3>2, <4>3
        <5> QED
          BY <2>0, <3>7, <4>1, <5>1 DEF Daily!CountedOnce
      <4> QED
        BY <4>2, <4>3
    <3> QED
      BY <3>2, <3>6, <3>7 DEF Daily!DigestsAgree, Daily!OnePerInterval, Daily!CountedOnce
  <2> QED
    BY <2>1, <2>2
<1> QED
  BY <1>1, <1>2

\* DigestInv is inductive.
LEMMA DigestInit == Daily!Init => DigestInv
<1> SUFFICES ASSUME Daily!Init PROVE DigestInv
  OBVIOUS
<1>1. digests = <<>> /\ DOMAIN digests = {} /\ Len(digests) = 0
  BY DEF Daily!Init
<1>2. digests \in Seq(Sending)
  BY DEF Daily!Init
<1>3. DigestTyped
  BY <1>2 DEF Daily!Init, DigestTyped
<1>4. InOrderOfTime /\ ReportInWindow /\ GateHolds
  BY <1>1 DEF Daily!Init, InOrderOfTime, ReportInWindow, GateHolds
<1>5. Daily!DigestsAgree
  BY <1>1 DEF Daily!DigestsAgree, Daily!OnePerInterval, Daily!CountedOnce
<1> QED
  BY <1>3, <1>4, <1>5 DEF DigestInv

LEMMA DigestStep == DigestInv /\ [Daily!Next]_Daily!vars => DigestInv'
<1> SUFFICES ASSUME DigestInv, [Daily!Next]_Daily!vars PROVE DigestInv'
  OBVIOUS
<1>0. DigestTyped
  BY DEF DigestInv
<1>1. CASE Daily!Next
  BY <1>0, <1>1, DigestTypeStep, TimeStep, GateStep, DigestsAgreeStep DEF DigestInv
<1>2. CASE UNCHANGED Daily!vars
  BY <1>2 DEF Daily!vars, Daily!job, DigestInv, DigestTyped, InOrderOfTime, ReportInWindow,
     GateHolds, Daily!DigestsAgree,
        Daily!OnePerInterval, Daily!CountedOnce
<1> QED
  BY <1>1, <1>2

-----------------------------------------------------------------------------
(* The book of accounts.
   A transaction writes back what it loaded long before, so the invariant relates what
   each session has loaded and changed to the committed row: both agree on the archive,
   the source and what was imported as long as nobody was overtaken; who has flushed an
   insert is alone with it; and who has screened has seen nobody whom others let in. *)

Row == [source : {"none", "auto_discovery", "manual", "lookalike"}, crm : BOOLEAN, archived : BOOLEAN,
        size : {"unknown", "in", "out"},
        fields : [flag : {"unset", "yes", "no"}, reason : BOOLEAN,
                  description : {"blank", "imported", "found"}]]

BookTyped ==
    /\ book \in [Domain -> Row]
    /\ people \in [Domain -> SUBSET Person]
    /\ lock \in [Domain -> Session \cup {Nobody}]
    /\ at \in [Session -> {"idle", "flush", "fetch", "screen", "people", "search", "commit"}]
    /\ DOMAIN op = Session
    /\ on \in [Session -> Domain]
    /\ base \in [Session -> Row] /\ mem \in [Session -> Row]
    /\ seen \in [Session -> SUBSET Person] /\ found \in [Session -> SUBSET Person]

Mirrors(row) == row.archived <=> row.fields.flag = "yes"
Imported(row) == row.fields.description = "imported"

\* The committed rows.
RowsAgree ==
    /\ \A d \in Domain : ~Book!Exists(book[d]) => ~book[d].archived /\ ~book[d].crm
    /\ Book!MirrorAgrees
    /\ Book!NobodyTwice

\* A session that is not at work has nothing; what it has locked is what it works on.
AtWork(s) ==
    /\ at[s] = "idle" => base[s] = Book!Absent /\ mem[s] = Book!Absent /\ found[s] = {}
    /\ \A d \in Domain : lock[d] = s => at[s] # "idle" /\ on[s] = d

\* What a session has changed of the row that it has loaded.
ChangesAgree(s) ==
    at[s] # "idle" =>
        /\ Book!Exists(mem[s])
        /\ \/ base[s] = Book!Absent /\ mem[s].source # "auto_discovery"
           \/ Book!Exists(base[s]) /\ mem[s].source = base[s].source /\ Book!Exists(book[on[s]])
        /\ Imported(base[s]) => Imported(mem[s])
        /\ on[s] \notin overtaken =>
              /\ Mirrors(base[s]) /\ Mirrors(mem[s])
              /\ Book!Exists(base[s]) => base[s].source = book[on[s]].source

\* Who has flushed an insert is alone with it.
InsertsAlone(s) ==
    Book!Inserts(s) /\ (at[s] # "flush" \/ lock[on[s]] = s) => lock[on[s]] = s /\ ~Book!Exists(book[on[s]])

\* Who adds a look-alike has it in hand unarchived, and screens it only if it is new.
AddsVisible(s) ==
    at[s] # "idle" /\ op[s] = "add" =>
        /\ ~mem[s].archived
        /\ Book!Inserts(s) => mem[s].source = "lookalike"
        /\ at[s] \in {"fetch", "screen"} => Book!Inserts(s)

\* Who has screened had every reason to: nobody has been let in since.
ScreensInBand(s) ==
    Book!Screened(s) =>
        /\ at[s] = "commit" /\ mem[s].source = "auto_discovery" /\ mem[s].size = "out"
        /\ on[s] \notin overtaken => people[on[s]] = {}

\* Whom a search has found was not there when it looked.
FindsNew(s) ==
    /\ found[s] # {} => at[s] = "commit"
    /\ op[s] \in {"ensure", "discover"} /\ at[s] = "search" => seen[s] = {}
    /\ op[s] # "contact" => found[s] \cap seen[s] = {}

Sound(s) ==
    /\ AtWork(s) /\ ChangesAgree(s) /\ InsertsAlone(s)
    /\ AddsVisible(s) /\ ScreensInBand(s) /\ FindsNew(s)

BookInv == BookTyped /\ RowsAgree /\ \A s \in Session : Sound(s)

\* What becomes of the columns of a row that is made, archived, taken back, enriched or
\* imported.
LEMMA AbsentRow ==
    /\ Book!Absent \in Row /\ Book!Absent.source = "none" /\ ~Book!Absent.archived
    /\ ~Book!Absent.fields.reason
    /\ Book!Absent.fields.flag = "unset" /\ Book!Absent.fields.description = "blank"
  BY DEF Book!Absent, Row

LEMMA NewRow ==
    ASSUME NEW source \in {"auto_discovery", "manual", "lookalike"}
    PROVE  /\ Book!New(source) \in Row /\ Book!New(source).source = source
           /\ ~Book!New(source).archived
           /\ Book!New(source).fields = Book!Absent.fields
  BY DEF Book!New, Book!Absent, Row

LEMMA ArchivedRow ==
    ASSUME NEW row \in Row, NEW screened \in BOOLEAN
    PROVE  /\ Book!Archived(row, screened) \in Row
           /\ Book!Archived(row, screened).archived
           /\ Book!Archived(row, screened).fields.flag = "yes"
           /\ Book!Archived(row, screened).fields.reason <=> row.fields.reason \/ screened
           /\ Book!Archived(row, screened).fields.description = row.fields.description
           /\ Book!Archived(row, screened).source = row.source
           /\ Book!Archived(row, screened).size = row.size
  BY DEF Book!Archived, Row

LEMMA UnarchivedRow ==
    ASSUME NEW row \in Row
    PROVE  /\ Book!Unarchived(row) \in Row
           /\ ~Book!Unarchived(row).archived /\ Book!Unarchived(row).fields.flag = "no"
           /\ ~Book!Unarchived(row).fields.reason
           /\ Book!Unarchived(row).fields.description = row.fields.description
           /\ Book!Unarchived(row).source = row.source
  BY DEF Book!Unarchived, Row

LEMMA AppliedRow ==
    ASSUME NEW row \in Row, NEW size \in {"unknown", "in", "out"}, NEW described \in BOOLEAN
    PROVE  /\ Book!Apply(row, size, described) \in Row
           /\ Book!Apply(row, size, described).archived = row.archived
           /\ Book!Apply(row, size, described).fields.flag = row.fields.flag
           /\ Book!Apply(row, size, described).fields.reason = row.fields.reason
           /\ Book!Apply(row, size, described).source = row.source
           /\ Imported(row) => Imported(Book!Apply(row, size, described))
  BY DEF Book!Apply, Row, Imported

LEMMA ImportedRow ==
    ASSUME NEW row \in Row
    PROVE  LET import == [row EXCEPT !.fields.description = "imported"]
           IN  /\ import \in Row /\ Imported(import) /\ import.source = row.source
               /\ import.archived = row.archived /\ import.fields.flag = row.fields.flag
               /\ import.fields.reason = row.fields.reason
  BY DEF Row, Imported

\* A step of s that writes no row: the others' work is as it was.
Local(s) ==
    /\ UNCHANGED <<book, people, overtaken, twice>>
    /\ \A v \in Session \ {s} :
          /\ at'[v] = at[v] /\ op'[v] = op[v] /\ on'[v] = on[v] /\ base'[v] = base[v]
          /\ mem'[v] = mem[v] /\ seen'[v] = seen[v] /\ found'[v] = found[v]
          /\ \A d \in Domain : lock'[d] = v <=> lock[d] = v

\* So only the rows and the session itself are to be looked at.
LEMMA LocalStep ==
    ASSUME BookInv, BookTyped', NEW s \in Session, Local(s), Sound(s)'
    PROVE  BookInv'
<1>1. RowsAgree'
  BY DEF BookInv, Local, RowsAgree, Book!MirrorAgrees, Book!NobodyTwice
<1>2. ASSUME NEW v \in Session \ {s}
      PROVE  Sound(v)'
  <2>1. /\ at'[v] = at[v] /\ op'[v] = op[v] /\ on'[v] = on[v] /\ base'[v] = base[v]
        /\ mem'[v] = mem[v] /\ seen'[v] = seen[v] /\ found'[v] = found[v]
        /\ \A d \in Domain : lock'[d] = v <=> lock[d] = v
        /\ UNCHANGED <<book, people, overtaken>>
    BY DEF Local
  <2>2. Sound(v) /\ on[v] \in Domain
    BY DEF BookInv, BookTyped
  <2>3. Book!Inserts(v)' = Book!Inserts(v) /\ Book!Screened(v)' = Book!Screened(v)
    BY <2>1 DEF Book!Inserts, Book!Screened
  <2>4. AtWork(v)' /\ ChangesAgree(v)'
    BY <2>1, <2>2 DEF Sound, AtWork, ChangesAgree
  <2>5. InsertsAlone(v)'
    BY <2>1, <2>2, <2>3 DEF Sound, InsertsAlone
  <2>6. AddsVisible(v)' /\ ScreensInBand(v)' /\ FindsNew(v)'
    BY <2>1, <2>2, <2>3 DEF Sound, AddsVisible, ScreensInBand, FindsNew
  <2> QED
    BY <2>4, <2>5, <2>6 DEF Sound
<1> QED
  BY <1>1, <1>2 DEF BookInv

\* A request begins, with a row that it has loaded and perhaps changed.
Begun(s) ==
    /\ at[s] = "idle"
    /\ UNCHANGED <<book, people, lock, seen, overtaken, twice>>
    /\ at' = [at EXCEPT ![s] = at'[s]] /\ op' = [op EXCEPT ![s] = op'[s]]
    /\ on' = [on EXCEPT ![s] = on'[s]]
    /\ base' = [base EXCEPT ![s] = base'[s]] /\ mem' = [mem EXCEPT ![s] = mem'[s]]
    /\ found' = [found EXCEPT ![s] = found'[s]]

\* What it has loaded is the committed row, or it inserts; what it changes agrees with that.
LoadedWell(s) ==
    /\ on'[s] \in Domain
    /\ \/ base'[s] = Book!Absent /\ mem'[s].source # "auto_discovery"
       \/ (base'[s] = book[on'[s]] /\ Book!Exists(base'[s]) /\ mem'[s].source = base'[s].source)
    /\ mem'[s] \in Row /\ Book!Exists(mem'[s])
    /\ Imported(base'[s]) => Imported(mem'[s])
    /\ Mirrors(base'[s]) => Mirrors(mem'[s])
    /\ mem'[s].fields.reason => base'[s].fields.reason

BegunWell(s) ==
    /\ at'[s] \in {"flush", "fetch", "people", "commit"}
    /\ base'[s] = Book!Absent => at'[s] = "flush"
    /\ op'[s] = "add" => /\ ~mem'[s].archived /\ at'[s] \in {"flush", "commit"}
                         /\ base'[s] = Book!Absent => mem'[s].source = "lookalike"
    /\ found'[s] = {} \/ (at'[s] = "commit" /\ op'[s] = "contact" /\ found'[s] \subseteq Person)

\* A request that loads and changes a row well begins well.
LEMMA BeginStep ==
    ASSUME BookInv, NEW s \in Session, Begun(s), LoadedWell(s), BegunWell(s)
    PROVE  BookInv'
<1>0. BookTyped /\ RowsAgree /\ Sound(s) /\ Book!Absent \in Row
  BY AbsentRow DEF BookInv
<1>1. base'[s] \in Row
  BY <1>0 DEF LoadedWell, BookTyped
<1>2. BookTyped'
  <2>1. /\ at' \in [Session -> {"idle", "flush", "fetch", "screen", "people", "search", "commit"}]
        /\ DOMAIN op' = Session /\ on' \in [Session -> Domain]
    BY <1>0 DEF Begun, BegunWell, LoadedWell, BookTyped
  <2>2. base' \in [Session -> Row] /\ mem' \in [Session -> Row]
    BY <1>0, <1>1 DEF Begun, LoadedWell, BookTyped
  <2>3. found' \in [Session -> SUBSET Person]
    BY <1>0 DEF Begun, BegunWell, BookTyped
  <2> QED
    BY <1>0, <2>1, <2>2, <2>3 DEF Begun, BookTyped
<1>3. Local(s)
  BY <1>0 DEF Begun, Local, BookTyped
<1>4. AtWork(s)'
  BY <1>0 DEF Begun, BegunWell, Sound, AtWork
<1>5. ChangesAgree(s)'
  <2>1. on'[s] \notin overtaken' => Mirrors(base'[s])
    BY <1>0, AbsentRow DEF LoadedWell, Begun, RowsAgree, Book!MirrorAgrees, Mirrors
  <2>2. Book!Exists(base'[s]) => base'[s].source = book[on'[s]].source /\ Book!Exists(book[on'[s]])
    BY AbsentRow DEF LoadedWell, Book!Exists
  <2>3. UNCHANGED <<book, overtaken>>
    BY DEF Begun
  <2> QED
    BY <2>1, <2>2, <2>3 DEF LoadedWell, ChangesAgree
<1>6. InsertsAlone(s)'
  <2>1. Book!Inserts(s)' => base'[s] = Book!Absent
    BY DEF Book!Inserts, LoadedWell
  <2>2. \A d \in Domain : lock'[d] # s
    BY <1>0 DEF Begun, Sound, AtWork
  <2> QED
    BY <2>1, <2>2 DEF InsertsAlone, BegunWell, LoadedWell
<1>7. AddsVisible(s)'
  <2>1. Book!Inserts(s)' => base'[s] = Book!Absent
    BY DEF Book!Inserts, LoadedWell
  <2> QED
    BY <2>1 DEF AddsVisible, BegunWell
<1>8. ScreensInBand(s)'
  BY DEF ScreensInBand, Book!Screened, LoadedWell
<1>9. FindsNew(s)'
  BY DEF FindsNew, BegunWell
<1> QED
  BY <1>2, <1>3, <1>4, <1>5, <1>6, <1>7, <1>8, <1>9, LocalStep DEF Sound

\* Every request does.
LEMMA BeginsStep ==
    ASSUME BookInv, NEW s \in Session, NEW d \in Domain,
           \/ Book!Archive(s, d) \/ Book!Create(s, d) \/ Book!AddLookalike(s, d) \/ Book!Import(s, d)
           \/ Book!StartWeb(s, d) \/ Book!StartPeople(s, d) \/ Book!AddContact(s, d)
           \/ \E size \in {"unknown", "in"} : Book!CrmAccounts(s, size)
    PROVE  BookInv'
<1>0. /\ BookTyped /\ book[d] \in Row /\ book[CrmDomain] \in Row
      /\ at[s] = "idle" => found[s] = {}
  BY SpellingAssumption DEF BookInv, BookTyped, Sound, AtWork
<1>1. ASSUME found' = found, at[s] = "idle"
      PROVE  found' = [found EXCEPT ![s] = found'[s]] /\ found'[s] = {}
  BY <1>0, <1>1 DEF BookTyped
<1>2. ASSUME NEW row \in Row, Book!Exists(row) PROVE row # Book!Absent
  BY <1>2, AbsentRow DEF Book!Exists
<1>3. CASE Book!Archive(s, d)
  <2>1. Book!Archived(book[d], FALSE) \in Row /\ Book!Unarchived(book[d]) \in Row
    BY <1>0, ArchivedRow, UnarchivedRow
  <2>2. /\ Begun(s) /\ on'[s] = d /\ base'[s] = book[d] /\ Book!Exists(book[d]) /\ at'[s] = "flush"
        /\ op'[s] \in {"archive", "unarchive"} /\ found'[s] = {}
        /\ mem'[s] \in {Book!Archived(book[d], FALSE), Book!Unarchived(book[d])}
    BY <1>0, <1>1, <1>3 DEF Book!Archive, Book!Submit, Begun, BookTyped, Book!Goto, Book!rows,
       Book!history
  <2>3. LoadedWell(s)
    <3>1. CASE mem'[s] = Book!Archived(book[d], FALSE)
      <4>1. LET row == Book!Archived(book[d], FALSE)
            IN  /\ row \in Row /\ row.archived /\ row.fields.flag = "yes"
                /\ row.fields.reason <=> book[d].fields.reason
                /\ row.fields.description = book[d].fields.description
                /\ row.source = book[d].source
        BY <1>0, ArchivedRow
      <4> QED
        BY <1>0, <2>2, <3>1, <4>1 DEF LoadedWell, Book!Exists, Imported, Mirrors
    <3>2. CASE mem'[s] = Book!Unarchived(book[d])
      BY <1>0, <2>1, <2>2, <3>2, UnarchivedRow DEF LoadedWell, Book!Exists, Imported, Mirrors
    <3> QED
      BY <2>2, <3>1, <3>2
  <2>4. BegunWell(s)
    BY <1>0, <1>2, <2>2 DEF BegunWell
  <2> QED
    BY <2>2, <2>3, <2>4, BeginStep
<1>4. CASE Book!Create(s, d)
  <2>1. /\ Begun(s) /\ on'[s] = d /\ base'[s] = Book!Absent /\ mem'[s] = Book!New("manual")
        /\ at'[s] = "flush"
        /\ op'[s] = "create" /\ found'[s] = {}
    BY <1>0, <1>1, <1>4 DEF Book!Create, Book!Submit, Begun, BookTyped, Book!Goto, Book!rows,
       Book!history
  <2>2. LoadedWell(s)
    BY <2>1, AbsentRow, NewRow DEF LoadedWell, Book!Exists, Imported, Mirrors
  <2>3. BegunWell(s)
    BY <2>1 DEF BegunWell
  <2> QED
    BY <2>1, <2>2, <2>3, BeginStep
<1>5. CASE Book!AddLookalike(s, d)
  <2>1. /\ Begun(s) /\ on'[s] = d /\ op'[s] = "add" /\ found'[s] = {}
        /\ \/ /\ Book!Exists(book[d]) /\ base'[s] = book[d]
              /\ \/ mem'[s] = Book!Unarchived(book[d]) /\ at'[s] = "flush"
                 \/ mem'[s] = book[d] /\ at'[s] = "commit" /\ ~book[d].archived
           \/ base'[s] = Book!Absent /\ mem'[s] = Book!New("lookalike") /\ at'[s] = "flush"
    BY <1>0, <1>1, <1>5 DEF Book!AddLookalike, Book!Submit, Begun, BookTyped, Book!Goto,
       Book!rows, Book!history
  <2>2. LoadedWell(s)
    BY <1>0, <2>1, AbsentRow, NewRow, UnarchivedRow DEF LoadedWell, Book!Exists, Imported, Mirrors
  <2>3. BegunWell(s)
    BY <1>0, <1>2, <2>1, NewRow, UnarchivedRow DEF BegunWell
  <2> QED
    BY <2>1, <2>2, <2>3, BeginStep
<1>6. CASE Book!Import(s, d)
  <2> DEFINE import == [book[d] EXCEPT !.fields.description = "imported"]
  <2>1. /\ Begun(s) /\ on'[s] = d /\ op'[s] = "import" /\ found'[s] = {} /\ at'[s] = "flush"
        /\ Book!Exists(book[d]) /\ base'[s] = book[d] /\ mem'[s] = import
    BY <1>0, <1>1, <1>6 DEF Book!Import, Book!Submit, Begun, BookTyped, Book!Goto, Book!rows,
       Book!history
  <2>2. /\ import \in Row /\ Imported(import) /\ import.source = book[d].source
        /\ import.archived = book[d].archived /\ import.fields.flag = book[d].fields.flag
        /\ import.fields.reason = book[d].fields.reason
    BY <1>0, ImportedRow
  <2> HIDE DEF import
  <2>3. LoadedWell(s)
    BY <1>0, <2>1, <2>2 DEF LoadedWell, Book!Exists, Mirrors
  <2>4. BegunWell(s)
    BY <1>0, <1>2, <2>1 DEF BegunWell
  <2> QED
    BY <2>1, <2>3, <2>4, BeginStep
<1>7. CASE Book!StartWeb(s, d) \/ Book!StartPeople(s, d)
  <2>1. /\ Begun(s) /\ on'[s] = d /\ op'[s] # "add" /\ found'[s] = {}
        /\ at'[s] \in {"fetch", "people"}
        /\ Book!Exists(book[d]) /\ base'[s] = book[d] /\ mem'[s] = book[d]
    BY <1>0, <1>1, <1>7 DEF Book!StartWeb, Book!StartPeople, Book!Submit, Begun, BookTyped,
       Book!Goto, Book!rows, Book!history
  <2>2. LoadedWell(s)
    BY <1>0, <2>1 DEF LoadedWell
  <2>3. BegunWell(s)
    BY <1>0, <1>2, <2>1 DEF BegunWell
  <2> QED
    BY <2>1, <2>2, <2>3, BeginStep
<1>8. CASE Book!AddContact(s, d)
  <2>1. PICK p \in Person \ Persona : found' = [found EXCEPT ![s] = {p}]
    BY <1>8 DEF Book!AddContact
  <2>2. /\ Begun(s) /\ on'[s] = d /\ op'[s] = "contact" /\ at'[s] = "commit"
        /\ Book!Exists(book[d]) /\ base'[s] = book[d] /\ mem'[s] = book[d] /\ found'[s] = {p}
    BY <1>0, <1>8, <2>1 DEF Book!AddContact, Book!Submit, Begun, BookTyped, Book!Goto, Book!rows,
       Book!history
  <2>3. LoadedWell(s)
    BY <1>0, <2>2 DEF LoadedWell
  <2>4. BegunWell(s)
    BY <1>0, <1>2, <2>2 DEF BegunWell
  <2> QED
    BY <2>2, <2>3, <2>4, BeginStep
<1>9. ASSUME NEW size \in {"unknown", "in"}, Book!CrmAccounts(s, size)
      PROVE  BookInv'
  <2> DEFINE loaded == IF book[CrmDomain].crm THEN book[CrmDomain] ELSE Book!Absent
             known == [Book!New("manual") EXCEPT !.crm = TRUE]
             row == IF book[CrmDomain].crm THEN book[CrmDomain] ELSE known
             synced == [row EXCEPT !.size = IF size = "unknown" THEN @ ELSE size]
  <2>1. /\ Begun(s) /\ on'[s] = CrmDomain /\ op'[s] = "crm" /\ at'[s] = "flush" /\ found'[s] = {}
        /\ base'[s] = loaded /\ mem'[s] = synced
    BY <1>0, <1>1, <1>9, SpellingAssumption DEF Book!CrmAccounts, Book!Submit, Begun, BookTyped,
       Book!Goto, Book!rows, Book!history
  <2>2. /\ known \in Row /\ known.source = "manual" /\ ~known.archived
        /\ known.fields = Book!Absent.fields
    BY DEF Book!New, Book!Absent, Row
  <2> HIDE DEF known
  <2>3. row \in Row
    BY <1>0, <2>2
  <2>4. /\ synced \in Row /\ synced.source = row.source /\ synced.archived = row.archived
        /\ synced.fields = row.fields
    <3> HIDE DEF row
    <3> QED
      BY <2>3 DEF Row
  <2> HIDE DEF synced
  <2>5. CASE book[CrmDomain].crm /\ Book!Exists(book[CrmDomain])
    <3>1. LoadedWell(s)
      BY <1>0, <2>1, <2>4, <2>5, SpellingAssumption DEF LoadedWell, Book!Exists, Imported, Mirrors
    <3> QED
      BY <1>0, <1>2, <2>1, <2>5, <3>1, BeginStep DEF BegunWell
  <2>6. CASE ~book[CrmDomain].crm
    <3>1. LoadedWell(s)
      BY <1>0, <2>1, <2>2, <2>4, <2>6, AbsentRow, SpellingAssumption DEF LoadedWell, Book!Exists,
         Imported, Mirrors
    <3> QED
      BY <2>1, <3>1, BeginStep DEF BegunWell
  <2>7. book[CrmDomain].crm => Book!Exists(book[CrmDomain])
    BY SpellingAssumption DEF BookInv, RowsAgree
  <2> QED
    BY <2>5, <2>6, <2>7
<1> QED
  BY <1>3, <1>4, <1>5, <1>6, <1>7, <1>8, <1>9

\* A step of s that changes its label alone, and whom it has seen and found, among the
\* labels where it looks for people.
LEMMA PeopleSound ==
    ASSUME BookInv, NEW s \in Session, at[s] \in {"people", "search"},
           at'[s] \in {"search", "commit"},
           UNCHANGED <<book, people, lock, op, on, base, mem, overtaken, twice>>, FindsNew(s)'
    PROVE  Sound(s)'
<1>0. Sound(s)
  BY DEF BookInv
<1>1. Book!Inserts(s)' = Book!Inserts(s) /\ Book!Screened(s)' = Book!Screened(s)
  BY DEF Book!Inserts, Book!Screened
<1>2. AtWork(s)' /\ ChangesAgree(s)'
  BY <1>0 DEF Sound, AtWork, ChangesAgree
<1>3. InsertsAlone(s)' /\ AddsVisible(s)' /\ ScreensInBand(s)'
  BY <1>0, <1>1 DEF Sound, InsertsAlone, AddsVisible, ScreensInBand
<1> QED
  BY <1>2, <1>3 DEF Sound

\* Whoever flushes an insert is alone with it, and a look-alike that was added is screened.
LEMMA FlushStep ==
    ASSUME BookInv, NEW s \in Session, Book!Flush(s)
    PROVE  BookInv'
<1>0. BookTyped /\ Sound(s) /\ on[s] \in Domain
  BY DEF BookInv, BookTyped
<1> DEFINE label == CASE op[s] = "add" /\ Book!Inserts(s) /\ lock[on[s]] # s -> "fetch"
                      [] op[s] = "add" /\ Book!Inserts(s) /\ lock[on[s]] = s -> "screen"
                      [] op[s] \in {"refresh", "pipeline"} -> "screen"
                      [] OTHER -> "commit"
<1>1. /\ at[s] = "flush" /\ Book!Free(s)
      /\ Book!Inserts(s) => ~Book!Exists(book[on[s]])
      /\ lock' = [lock EXCEPT ![on[s]] = s] /\ at' = [at EXCEPT ![s] = label]
      /\ UNCHANGED <<book, people, op, on, base, mem, seen, found, overtaken, twice>>
  BY DEF Book!Flush, Book!Goto, Book!rows, Book!history
<1>2. /\ label \in {"fetch", "screen", "commit"}
      /\ (op[s] = "add" /\ label # "commit" => Book!Inserts(s))
  <2>1. CASE op[s] = "add" /\ Book!Inserts(s) /\ lock[on[s]] # s
    <3>1. label = "fetch"
      BY <2>1, Zenon
    <3> QED
      BY <2>1, <3>1
  <2>2. CASE op[s] = "add" /\ Book!Inserts(s) /\ lock[on[s]] = s
    <3>1. label = "screen"
      BY <2>2, Zenon
    <3> QED
      BY <2>2, <3>1
  <2>3. CASE op[s] = "add" /\ ~Book!Inserts(s)
    <3>1. op[s] \notin {"refresh", "pipeline"}
      BY <2>3
    <3>2. label = "commit"
      BY <2>3, <3>1, Zenon
    <3> QED
      BY <3>2
  <2>4. CASE op[s] # "add" /\ op[s] \in {"refresh", "pipeline"}
    <3>1. label = "screen"
      BY <2>4, Zenon
    <3> QED
      BY <2>4, <3>1
  <2>5. CASE op[s] # "add" /\ op[s] \notin {"refresh", "pipeline"}
    <3>1. label = "commit"
      BY <2>5, Zenon
    <3> QED
      BY <3>1
  <2> QED
    BY <2>1, <2>2, <2>3, <2>4, <2>5
<1> HIDE DEF label
<1>3. at'[s] = label /\ lock'[on[s]] = s
  BY <1>0, <1>1 DEF BookTyped
<1>4. BookTyped'
  BY <1>0, <1>1, <1>2 DEF BookTyped
<1>5. Local(s)
  BY <1>0, <1>1, NobodyAssumption DEF Local, Book!Free, BookTyped
<1>6. Book!Inserts(s)' = Book!Inserts(s) /\ Book!Screened(s)' = Book!Screened(s)
  BY <1>1 DEF Book!Inserts, Book!Screened
<1>7. AtWork(s)'
  BY <1>0, <1>1, <1>2, <1>3 DEF Sound, AtWork, BookTyped
<1>8. ChangesAgree(s)'
  BY <1>0, <1>1 DEF Sound, ChangesAgree
<1>9. InsertsAlone(s)'
  BY <1>1, <1>3, <1>6 DEF InsertsAlone
<1>10. AddsVisible(s)'
  BY <1>0, <1>1, <1>2, <1>3, <1>6 DEF Sound, AddsVisible
<1>11. ScreensInBand(s)'
  BY <1>0, <1>1, <1>6 DEF Sound, ScreensInBand
<1>12. FindsNew(s)'
  BY <1>0, <1>1, <1>2, <1>3 DEF Sound, FindsNew
<1> QED
  BY <1>4, <1>5, <1>7, <1>8, <1>9, <1>10, <1>11, <1>12, LocalStep DEF Sound

\* The enricher fills what is blank and touches nothing else.
LEMMA FetchStep ==
    ASSUME BookInv, NEW s \in Session, Book!Fetch(s)
    PROVE  BookInv'
<1>0. BookTyped /\ Sound(s) /\ on[s] \in Domain /\ mem[s] \in Row /\ base[s] \in Row
  BY DEF BookInv, BookTyped
<1>1. PICK size \in {"unknown", "in", "out"}, described \in BOOLEAN :
         LET row == Book!Apply(mem[s], size, described)
         IN  /\ mem' = [mem EXCEPT ![s] = row]
             /\ Book!Goto(s, IF row # mem[s] THEN "flush"
                        ELSE IF op[s] = "enrich" THEN "commit" ELSE "screen")
  BY DEF Book!Fetch
<1> DEFINE row == Book!Apply(mem[s], size, described)
<1>2. /\ row \in Row /\ row.archived = mem[s].archived /\ row.fields.flag = mem[s].fields.flag
      /\ row.fields.reason = mem[s].fields.reason /\ row.source = mem[s].source
      /\ Imported(mem[s]) => Imported(row)
  <2>1. mem[s] \in Row
    BY <1>0
  <2> QED
    BY <2>1, AppliedRow, Zenon
<1>3. /\ mem' = [mem EXCEPT ![s] = row]
      /\ Book!Goto(s, IF row # mem[s] THEN "flush" ELSE IF op[s] = "enrich" THEN "commit" ELSE "screen")
      /\ UNCHANGED <<book, people, lock, op, on, base, seen, found, overtaken, twice>>
      /\ at[s] = "fetch"
  BY <1>1 DEF Book!Fetch, Book!rows, Book!history
<1> HIDE DEF row
<1>4. mem'[s] = row /\ at'[s] \in {"flush", "commit", "screen"}
      /\ (op[s] = "add" => at'[s] # "commit")
  BY <1>0, <1>3 DEF BookTyped, Book!Goto
<1>5. BookTyped'
  BY <1>0, <1>2, <1>3 DEF BookTyped, Book!Goto
<1>6. Local(s)
  BY <1>0, <1>3 DEF Local, BookTyped, Book!Goto
<1>7. Book!Inserts(s)' = Book!Inserts(s) /\ Book!Screened(s)' = Book!Screened(s)
  BY <1>2, <1>3, <1>4 DEF Book!Inserts, Book!Screened, Book!Exists
<1>8. AtWork(s)'
  BY <1>0, <1>3, <1>4 DEF Sound, AtWork
<1>9. ChangesAgree(s)'
  BY <1>0, <1>2, <1>3, <1>4 DEF Sound, ChangesAgree, Mirrors, Book!Exists
<1>10. InsertsAlone(s)'
  BY <1>0, <1>3, <1>4, <1>7 DEF Sound, InsertsAlone
<1>11. AddsVisible(s)'
  BY <1>0, <1>2, <1>3, <1>4, <1>7 DEF Sound, AddsVisible
<1>12. ScreensInBand(s)'
  BY <1>0, <1>3, <1>7 DEF Sound, ScreensInBand
<1>13. FindsNew(s)'
  BY <1>0, <1>3, <1>4 DEF Sound, FindsNew
<1> QED
  BY <1>5, <1>6, <1>8, <1>9, <1>10, <1>11, <1>12, <1>13, LocalStep DEF Sound

\* A screen archives what is out of the band and has nobody.
LEMMA ScreenStep ==
    ASSUME BookInv, NEW s \in Session, Book!Screen(s)
    PROVE  BookInv'
<1>0. BookTyped /\ Sound(s) /\ on[s] \in Domain /\ mem[s] \in Row /\ base[s] \in Row
  BY DEF BookInv, BookTyped
<1>1. CASE Book!OutOfBand(s)
  <2> DEFINE row == Book!Archived(mem[s], TRUE)
  <2>1. /\ at[s] = "screen" /\ Book!Free(s) /\ lock' = [lock EXCEPT ![on[s]] = s]
        /\ mem' = [mem EXCEPT ![s] = row] /\ Book!Goto(s, "commit")
        /\ UNCHANGED <<book, people, op, on, base, seen, found, overtaken, twice>>
    BY <1>1 DEF Book!Screen, Book!rows, Book!history
  <2>2. /\ row \in Row /\ row.archived /\ row.fields.flag = "yes" /\ row.fields.reason
        /\ row.fields.description = mem[s].fields.description
        /\ row.source = mem[s].source /\ row.size = mem[s].size
    BY <1>0, ArchivedRow
  <2> HIDE DEF row
  <2>3. mem'[s] = row /\ at'[s] = "commit" /\ lock'[on[s]] = s
    BY <1>0, <2>1 DEF BookTyped, Book!Goto
  <2>4. BookTyped'
    BY <1>0, <2>1, <2>2 DEF BookTyped, Book!Goto
  <2>5. Local(s)
    BY <1>0, <2>1, NobodyAssumption DEF Local, BookTyped, Book!Goto, Book!Free
  <2>6. Book!Inserts(s)' = Book!Inserts(s)
    BY <2>1, <2>2, <2>3 DEF Book!Inserts, Book!Exists
  <2>7. AtWork(s)'
    BY <1>0, <2>1, <2>3 DEF Sound, AtWork, BookTyped
  <2>8. ChangesAgree(s)'
    BY <1>0, <2>1, <2>2, <2>3 DEF Sound, ChangesAgree, Mirrors, Book!Exists, Imported
  <2>9. InsertsAlone(s)'
    BY <1>0, <2>1, <2>3, <2>6 DEF Sound, InsertsAlone
  <2>10. op[s] # "add"
    BY <1>0, <1>1, <2>1 DEF Sound, AddsVisible, Book!OutOfBand
  <2>11. AddsVisible(s)'
    BY <2>1, <2>10 DEF AddsVisible
  <2>12. ScreensInBand(s)'
    BY <1>0, <1>1, <2>1, <2>2, <2>3 DEF Sound, ScreensInBand, Book!OutOfBand
  <2>13. FindsNew(s)'
    BY <1>0, <2>1, <2>3 DEF Sound, FindsNew
  <2> QED
    BY <2>4, <2>5, <2>7, <2>8, <2>9, <2>11, <2>12, <2>13, LocalStep DEF Sound
<1>2. CASE ~Book!OutOfBand(s)
  <2>1. /\ at[s] = "screen" /\ Book!Goto(s, Book!AfterScreen(s))
        /\ UNCHANGED <<book, people, lock, op, on, base, mem, seen, found, overtaken, twice>>
    BY <1>2 DEF Book!Screen, Book!rows, Book!history
  <2>2. at'[s] \in {"people", "commit"}
    BY <1>0, <2>1 DEF BookTyped, Book!Goto, Book!AfterScreen
  <2>3. BookTyped' /\ Local(s)
    BY <1>0, <2>1 DEF BookTyped, Book!Goto, Book!AfterScreen, Local
  <2>4. Book!Inserts(s)' = Book!Inserts(s) /\ Book!Screened(s)' = Book!Screened(s)
    BY <2>1 DEF Book!Inserts, Book!Screened
  <2>5. AtWork(s)' /\ ChangesAgree(s)'
    BY <1>0, <2>1, <2>2 DEF Sound, AtWork, ChangesAgree
  <2>6. InsertsAlone(s)' /\ AddsVisible(s)'
    BY <1>0, <2>1, <2>2, <2>4 DEF Sound, InsertsAlone, AddsVisible
  <2>7. ScreensInBand(s)' /\ FindsNew(s)'
    BY <1>0, <2>1, <2>2, <2>4 DEF Sound, ScreensInBand, FindsNew
  <2> QED
    BY <2>3, <2>5, <2>6, <2>7, LocalStep DEF Sound
<1> QED
  BY <1>1, <1>2

\* Searches look before they find.
LEMMA PeopleStep ==
    ASSUME BookInv, NEW s \in Session, Book!LookUpPeople(s) \/ Book!SearchPeople(s)
    PROVE  BookInv'
<1>0. BookTyped /\ Sound(s) /\ on[s] \in Domain /\ people[on[s]] \subseteq Person
  BY DEF BookInv, BookTyped
<1>1. /\ at[s] \in {"people", "search"}
      /\ UNCHANGED <<book, people, lock, op, on, base, mem, overtaken, twice>>
  BY DEF Book!LookUpPeople, Book!SearchPeople, Book!rows, Book!history
<1>2. CASE Book!LookUpPeople(s)
  <2>1. /\ at[s] = "people" /\ found' = found /\ seen' = [seen EXCEPT ![s] = people[on[s]]]
        /\ Book!Goto(s, IF op[s] \in {"ensure", "discover"} /\ people[on[s]] # {} THEN "commit" ELSE "search")
    BY <1>2 DEF Book!LookUpPeople
  <2>2. seen'[s] = people[on[s]] /\ at'[s] \in {"commit", "search"} /\ found[s] = {}
        /\ (at'[s] = "search" /\ op[s] \in {"ensure", "discover"} => seen'[s] = {})
    BY <1>0, <2>1 DEF BookTyped, Book!Goto, Sound, FindsNew
  <2>3. BookTyped' /\ Local(s)
    BY <1>0, <1>1, <2>1 DEF BookTyped, Book!Goto, Local
  <2>4. FindsNew(s)'
    BY <1>1, <2>1, <2>2 DEF FindsNew
  <2> QED
    BY <1>0, <1>1, <2>2, <2>3, <2>4, PeopleSound, LocalStep
<1>3. CASE Book!SearchPeople(s)
  <2>a. PICK given \in SUBSET Person :
           \E chosen \in Book!Chosen(s, given) : found' = [found EXCEPT ![s] = chosen]
    BY <1>3 DEF Book!SearchPeople
  <2>1. PICK chosen \in Book!Chosen(s, given) : found' = [found EXCEPT ![s] = chosen]
    BY <2>a
  <2>2. at[s] = "search" /\ seen' = seen /\ Book!Goto(s, "commit")
    BY <1>3 DEF Book!SearchPeople
  <2>3. chosen \subseteq Person /\ (op[s] \notin {"ensure", "discover"} => chosen \cap seen[s] = {})
    <3>1. CASE op[s] = "ensure"
      <4>1. Book!Chosen(s, given) = Book!EnsureContact(given)
        BY <3>1, Zenon DEF Book!Chosen
      <4> QED
        BY <3>1, <4>1 DEF Book!EnsureContact
    <3>2. CASE op[s] = "discover"
      <4>1. Book!Chosen(s, given) = Book!DiscoverContacts(given)
        BY <3>2, Zenon DEF Book!Chosen
      <4> QED
        BY <3>2, <4>1 DEF Book!DiscoverContacts
    <3>3. CASE op[s] # "ensure" /\ op[s] # "discover"
      <4>1. Book!Chosen(s, given) = Book!SourceContacts(s, given)
        BY <3>3, Zenon DEF Book!Chosen
      <4> QED
        BY <4>1 DEF Book!SourceContacts
    <3> QED
      BY <3>1, <3>2, <3>3
  <2>4. found'[s] = chosen /\ at'[s] = "commit"
    BY <1>0, <2>1, <2>2 DEF BookTyped, Book!Goto
  <2>5. BookTyped' /\ Local(s)
    BY <1>0, <1>1, <2>1, <2>2, <2>3 DEF BookTyped, Book!Goto, Local
  <2>6. FindsNew(s)'
    BY <1>0, <1>1, <2>2, <2>3, <2>4 DEF Sound, FindsNew
  <2> QED
    BY <1>0, <1>1, <2>4, <2>5, <2>6, PeopleSound, LocalStep
<1> QED
  BY <1>2, <1>3

\* The end of a session's transaction.
LEMMA SessionCloses ==
    ASSUME BookTyped, NEW s \in Session, Book!Close(s)
    PROVE  /\ at'[s] = "idle" /\ op'[s] = "none" /\ on'[s] = CrmDomain
           /\ base'[s] = Book!Absent /\ mem'[s] = Book!Absent /\ seen'[s] = {} /\ found'[s] = {}
           /\ \A d \in Domain : lock'[d] # s
           /\ \A v \in Session \ {s} :
                 /\ at'[v] = at[v] /\ op'[v] = op[v] /\ on'[v] = on[v] /\ base'[v] = base[v]
                 /\ mem'[v] = mem[v] /\ seen'[v] = seen[v] /\ found'[v] = found[v]
                 /\ \A d \in Domain : lock'[d] = v <=> lock[d] = v
  BY NobodyAssumption DEF BookTyped, Book!Close, Book!Goto

LEMMA ClosedWell ==
    ASSUME BookTyped, NEW s \in Session, Book!Close(s), book' \in [Domain -> Row],
           people' \in [Domain -> SUBSET Person]
    PROVE  BookTyped' /\ Sound(s)'
<1>1. BookTyped'
  <2>1. /\ DOMAIN op' = Session /\ on' \in [Session -> Domain]
        /\ at' \in [Session -> {"idle", "flush", "fetch", "screen", "people", "search", "commit"}]
        /\ lock' \in [Domain -> Session \cup {Nobody}]
    BY SpellingAssumption DEF BookTyped, Book!Close, Book!Goto
  <2>2. base' \in [Session -> Row] /\ mem' \in [Session -> Row]
    BY AbsentRow DEF BookTyped, Book!Close
  <2>3. seen' \in [Session -> SUBSET Person] /\ found' \in [Session -> SUBSET Person]
    BY DEF BookTyped, Book!Close
  <2> QED
    BY <2>1, <2>2, <2>3 DEF BookTyped
<1>2. Sound(s)'
  BY SessionCloses, AbsentRow DEF Sound, AtWork, ChangesAgree, InsertsAlone, Book!Inserts,
     Book!Exists, AddsVisible,
        ScreensInBand, Book!Screened, FindsNew
<1> QED
  BY <1>1, <1>2

\* What fails leaves the rows as they are.
LEMMA EndStep ==
    ASSUME BookInv, NEW s \in Session, Book!InsertConflict(s) \/ Book!Fail(s)
    PROVE  BookInv'
<1>1. Book!Close(s) /\ UNCHANGED <<book, people, overtaken, twice>> /\ BookTyped
  BY DEF Book!InsertConflict, Book!Fail, Book!rows, Book!history, BookInv
<1>2. BookTyped' /\ Sound(s)'
  BY <1>1, ClosedWell DEF BookTyped
<1>3. Local(s)
  BY <1>1, SessionCloses DEF Local
<1> QED
  BY <1>2, <1>3, LocalStep

\* The columns that have changed are written.
LEMMA DirtyColumns ==
    ASSUME BookTyped, NEW s \in Session
    PROVE  /\ "source" \in Book!Dirty(s) <=> mem[s].source # base[s].source
           /\ "size" \in Book!Dirty(s) <=> mem[s].size # base[s].size
           /\ "fields" \in Book!Dirty(s) <=> mem[s].fields # base[s].fields
           /\ "archived" \notin Book!Dirty(s) => mem[s].archived = base[s].archived
<1>1. mem[s] \in Row
  BY DEF BookTyped
<1>2. {"source", "size", "fields", "archived"} \subseteq DOMAIN mem[s]
  BY <1>1 DEF Row
<1> QED
  BY <1>2 DEF Book!Dirty

\* A commit writes its account and no other.
LEMMA CommitOf ==
    ASSUME BookTyped, NEW s \in Session, Book!Commit(s)
    PROVE  /\ Book!Close(s) /\ at[s] = "commit"
           /\ book' \in [Domain -> Row] /\ people' \in [Domain -> SUBSET Person]
           /\ \A v \in Domain \ {on[s]} : book'[v] = book[v] /\ people'[v] = people[v]
           /\ people'[on[s]] = people[on[s]] \cup found[s]
           /\ overtaken' = IF Book!Overtakes(s) THEN overtaken \cup {on[s]} ELSE overtaken
           /\ twice' = IF op[s] # "contact" /\ found[s] \cap people[on[s]] # {}
                       THEN twice \cup {on[s]} ELSE twice
<1>1. book' = [book EXCEPT ![on[s]] = [c \in DOMAIN book[on[s]] |->
                                          IF c \in Book!Dirty(s) THEN mem[s][c] ELSE book[on[s]][c]]]
  BY DEF Book!Commit, BookTyped
<1>2. [c \in DOMAIN book[on[s]] |-> IF c \in Book!Dirty(s) THEN mem[s][c] ELSE book[on[s]][c]] \in Row
  <2>1. book[on[s]] \in Row /\ mem[s] \in Row
    BY DEF BookTyped
  <2> QED
    BY <2>1 DEF Row
<1>3. book' \in [Domain -> Row] /\ \A v \in Domain \ {on[s]} : book'[v] = book[v]
  BY <1>1, <1>2 DEF BookTyped
<1>4. people' = [people EXCEPT ![on[s]] = people[on[s]] \cup found[s]]
  BY DEF Book!Commit, BookTyped
<1> QED
  BY <1>3, <1>4 DEF Book!Commit, BookTyped

\* The columns that a commit writes.
LEMMA CommitRow ==
    ASSUME BookTyped, NEW s \in Session, Book!Commit(s)
    PROVE  LET old == book[on[s]]
               row == book'[on[s]]
           IN  /\ row.source = IF mem[s].source # base[s].source THEN mem[s].source ELSE old.source
               /\ row.size = IF mem[s].size # base[s].size THEN mem[s].size ELSE old.size
               /\ row.fields = IF mem[s].fields # base[s].fields THEN mem[s].fields ELSE old.fields
               /\ row.archived = IF "archived" \in Book!Dirty(s) THEN mem[s].archived ELSE old.archived
<1> DEFINE row == [c \in DOMAIN book[on[s]] |-> IF c \in Book!Dirty(s) THEN mem[s][c] ELSE book[on[s]][c]]
<1>1. book' = [book EXCEPT ![on[s]] = row] /\ on[s] \in Domain /\ DOMAIN book = Domain
  BY DEF Book!Commit, BookTyped
<1>2. book'[on[s]] = row
  BY <1>1
<1>3. /\ row.source = IF "source" \in Book!Dirty(s) THEN mem[s].source ELSE book[on[s]].source
      /\ row.archived = IF "archived" \in Book!Dirty(s) THEN mem[s].archived ELSE book[on[s]].archived
      /\ row.size = IF "size" \in Book!Dirty(s) THEN mem[s].size ELSE book[on[s]].size
      /\ row.fields = IF "fields" \in Book!Dirty(s) THEN mem[s].fields ELSE book[on[s]].fields
  <2>1. book[on[s]] \in Row /\ mem[s] \in Row
    BY DEF BookTyped
  <2> QED
    BY <2>1 DEF Row
<1> HIDE DEF row
<1> QED
  BY <1>2, <1>3, DirtyColumns

\* What a commit that overtakes nobody has found as it was when it looked.
LEMMA CommitInTime ==
    ASSUME BookTyped, NEW s \in Session, Book!Commit(s), on[s] \notin overtaken'
    PROVE  /\ on[s] \notin overtaken
           /\ mem[s].source # base[s].source => book[on[s]].source = base[s].source
           /\ mem[s].size # base[s].size => book[on[s]].size = base[s].size
           /\ mem[s].fields # base[s].fields => book[on[s]].fields = base[s].fields
           /\ "archived" \in Book!Dirty(s) => book[on[s]].archived = base[s].archived
           /\ Book!Screened(s) => book[on[s]].size = base[s].size
           /\ found[s] # {} /\ op[s] # "contact" => people[on[s]] = seen[s]
           /\ found[s] # {} => \A t \in Session : on[t] = on[s] => ~Book!Screened(t)
<1>1. ~Book!Overtakes(s) /\ on[s] \notin overtaken
  BY CommitOf
<1>2. \A c \in Book!Dirty(s) : book[on[s]][c] = base[s][c]
  BY <1>1 DEF Book!Overtakes
<1>3. /\ "source" \in Book!Dirty(s) => book[on[s]].source = base[s].source
      /\ "size" \in Book!Dirty(s) => book[on[s]].size = base[s].size
      /\ "fields" \in Book!Dirty(s) => book[on[s]].fields = base[s].fields
      /\ "archived" \in Book!Dirty(s) => book[on[s]].archived = base[s].archived
  BY <1>2
<1> QED
  BY <1>1, <1>3, DirtyColumns DEF Book!Overtakes

\* Whoever commits, others that work on the account find it as they must.
LEMMA CommitSparesOthers ==
    ASSUME BookInv, NEW s \in Session, Book!Commit(s), NEW v \in Session \ {s}
    PROVE  Sound(v)'
<1>0. BookTyped /\ Sound(s) /\ Sound(v) /\ on[v] \in Domain /\ on[s] \in Domain
      /\ at[s] = "commit" /\ Book!Close(s)
  BY CommitOf DEF BookInv, BookTyped
<1>1. /\ at'[v] = at[v] /\ op'[v] = op[v] /\ on'[v] = on[v] /\ base'[v] = base[v]
      /\ mem'[v] = mem[v] /\ seen'[v] = seen[v] /\ found'[v] = found[v]
      /\ \A d \in Domain : lock'[d] = v <=> lock[d] = v
  BY <1>0, SessionCloses
<1>2. Book!Inserts(v)' = Book!Inserts(v) /\ Book!Screened(v)' = Book!Screened(v)
  BY <1>1 DEF Book!Inserts, Book!Screened
<1>3. overtaken \subseteq overtaken'
  BY <1>0, CommitOf
<1>4. AtWork(v)' /\ AddsVisible(v)' /\ FindsNew(v)'
  BY <1>0, <1>1, <1>2 DEF Sound, AtWork, AddsVisible, FindsNew
<1>5. CASE on[v] # on[s]
  <2>1. book'[on[v]] = book[on[v]] /\ people'[on[v]] = people[on[v]]
    BY <1>0, <1>5, CommitOf
  <2>2. ChangesAgree(v)'
    BY <1>0, <1>1, <1>3, <2>1 DEF Sound, ChangesAgree
  <2>3. InsertsAlone(v)' /\ ScreensInBand(v)'
    BY <1>0, <1>1, <1>2, <1>3, <2>1 DEF Sound, InsertsAlone, ScreensInBand
  <2> QED
    BY <1>4, <2>2, <2>3 DEF Sound
<1>6. CASE on[v] = on[s]
  <2>1. base[s] = Book!Absent => Book!Inserts(s)
    BY <1>0, AbsentRow DEF Sound, ChangesAgree, Book!Inserts, Book!Exists
  <2>2. base[s] # Book!Absent => mem[s].source = base[s].source /\ Book!Exists(book[on[s]])
    BY <1>0 DEF Sound, ChangesAgree
  <2>3. Book!Exists(book[on[s]]) => Book!Exists(book'[on[s]])
    BY <1>0, CommitRow, CommitOf DEF Sound, ChangesAgree, Book!Exists
  <2>4. ChangesAgree(v)'
    <3>1. at[v] # "idle" /\ base[v] # Book!Absent => Book!Exists(book'[on[v]])
      BY <1>0, <1>6, <2>3 DEF Sound, ChangesAgree
    <3>2. ASSUME at[v] # "idle", on[v] \notin overtaken', Book!Exists(base[v])
          PROVE  base[v].source = book'[on[v]].source
      <4>1. base[v].source = book[on[v]].source /\ Book!Exists(book[on[v]])
        BY <1>0, <1>3, <3>2, AbsentRow DEF Sound, ChangesAgree, Book!Exists
      <4>2. mem[s].source = base[s].source
        BY <1>0, <1>6, <2>1, <2>2, <3>2, <4>1, CommitInTime, AbsentRow DEF Book!Exists
      <4> QED
        BY <1>0, <1>6, <4>1, <4>2, CommitRow
    <3>3. at[v] # "idle" =>
             \/ base[v] = Book!Absent /\ mem[v].source # "auto_discovery"
             \/ Book!Exists(base[v]) /\ mem[v].source = base[v].source /\ base[v] # Book!Absent
      BY <1>0, AbsentRow DEF Sound, ChangesAgree, Book!Exists
    <3>4. at[v] # "idle" =>
             /\ Book!Exists(mem[v])
             /\ Imported(base[v]) => Imported(mem[v])
             /\ on[v] \notin overtaken' => Mirrors(base[v]) /\ Mirrors(mem[v])
      BY <1>0, <1>3 DEF Sound, ChangesAgree
    <3> QED
      BY <1>1, <3>1, <3>2, <3>3, <3>4 DEF ChangesAgree
  <2>5. InsertsAlone(v)'
    <3>1. SUFFICES ASSUME Book!Inserts(v), at[v] # "flush" \/ lock[on[v]] = v PROVE FALSE
      BY <1>0, <1>1, <1>2 DEF InsertsAlone
    <3>2. lock[on[s]] = v /\ ~Book!Exists(book[on[s]])
      BY <1>0, <1>6, <3>1 DEF Sound, InsertsAlone
    <3>3. Book!Inserts(s)
      BY <2>1, <2>2, <3>2
    <3> QED
      BY <1>0, <3>2, <3>3 DEF Sound, InsertsAlone
  <2>6. ScreensInBand(v)'
    <3>1. SUFFICES ASSUME Book!Screened(v), on[v] \notin overtaken' PROVE people'[on[v]] = {}
      BY <1>0, <1>1, <1>2 DEF Sound, ScreensInBand
    <3>2. people[on[v]] = {}
      BY <1>0, <1>3, <3>1 DEF Sound, ScreensInBand
    <3>3. found[s] = {}
      BY <1>0, <1>6, <3>1, CommitInTime
    <3> QED
      BY <1>0, <1>6, <3>2, <3>3, CommitOf
  <2> QED
    BY <1>4, <2>4, <2>5, <2>6 DEF Sound
<1> QED
  BY <1>5, <1>6

\* Unless it has overtaken somebody, a commit leaves the rows in order.
LEMMA CommitRows ==
    ASSUME BookInv, NEW s \in Session, Book!Commit(s)
    PROVE  RowsAgree'
<1>0. BookTyped /\ Sound(s) /\ RowsAgree /\ on[s] \in Domain /\ at[s] = "commit"
      /\ mem[s] \in Row /\ base[s] \in Row /\ book[on[s]] \in Row
  BY CommitOf DEF BookInv, BookTyped
<1>1. \A d \in Domain \ {on[s]} : book'[d] = book[d]
  BY <1>0, CommitOf
<1>2. overtaken \subseteq overtaken'
  BY <1>0, CommitOf
<1>3. Book!Exists(book'[on[s]])
  <2>1. CASE base[s] = Book!Absent
    BY <1>0, <2>1, AbsentRow, CommitRow DEF Sound, ChangesAgree, Book!Exists
  <2>2. CASE base[s] # Book!Absent
    BY <1>0, <2>2, CommitRow DEF Sound, ChangesAgree, Book!Exists
  <2> QED
    BY <2>1, <2>2
<1>4. ASSUME on[s] \notin overtaken'
      PROVE  Mirrors(book'[on[s]])
  <2> DEFINE d == on[s]
  <2>1. Mirrors(book[d]) /\ Mirrors(base[s]) /\ Mirrors(mem[s])
    BY <1>0, <1>2, <1>4 DEF RowsAgree, Book!MirrorAgrees, Mirrors, Sound, ChangesAgree
  <2>2. "archived" \in Book!Dirty(s) => book[d].archived = base[s].archived
    BY <1>0, <1>4, CommitInTime
  <2>3. mem[s].fields # base[s].fields => book[d].fields = base[s].fields
    BY <1>0, <1>4, CommitInTime
  <2>4. "archived" \notin Book!Dirty(s) => mem[s].archived = base[s].archived
    BY <1>0, DirtyColumns
  <2>5. CASE "archived" \in Book!Dirty(s) /\ mem[s].fields # base[s].fields
    <3>1. book'[d].archived = mem[s].archived /\ book'[d].fields = mem[s].fields
      BY <1>0, <2>5, CommitRow
    <3> QED
      BY <2>1, <3>1 DEF Mirrors
  <2>6. CASE "archived" \in Book!Dirty(s) /\ mem[s].fields = base[s].fields
    <3>1. book'[d].archived = mem[s].archived /\ book'[d].fields = book[d].fields
      BY <1>0, <2>6, CommitRow
    <3> QED
      BY <2>1, <2>2, <2>6, <3>1 DEF Mirrors
  <2>7. CASE "archived" \notin Book!Dirty(s) /\ mem[s].fields # base[s].fields
    <3>1. book'[d].archived = book[d].archived /\ book'[d].fields = mem[s].fields
      BY <1>0, <2>7, CommitRow
    <3> QED
      BY <2>1, <2>3, <2>4, <2>7, <3>1 DEF Mirrors
  <2>8. CASE "archived" \notin Book!Dirty(s) /\ mem[s].fields = base[s].fields
    <3>1. book'[d].archived = book[d].archived /\ book'[d].fields = book[d].fields
      BY <1>0, <2>8, CommitRow
    <3> QED
      BY <2>1, <3>1 DEF Mirrors
  <2> QED
    BY <2>5, <2>6, <2>7, <2>8
<1>5. Book!MirrorAgrees'
  BY <1>0, <1>1, <1>2, <1>4 DEF RowsAgree, Book!MirrorAgrees, Mirrors
<1>6. Book!NobodyTwice'
  <2>1. ASSUME op[s] # "contact", found[s] \cap people[on[s]] # {}
        PROVE  on[s] \in overtaken'
    BY <1>0, <2>1, CommitInTime DEF Sound, FindsNew
  <2> QED
    BY <1>0, <1>2, <2>1, CommitOf DEF RowsAgree, Book!NobodyTwice
<1> QED
  BY <1>0, <1>1, <1>3, <1>5, <1>6 DEF RowsAgree

LEMMA CommitStep ==
    ASSUME BookInv, NEW s \in Session, Book!Commit(s)
    PROVE  BookInv'
<1>1. BookTyped' /\ Sound(s)'
  BY CommitOf, ClosedWell DEF BookInv
<1> QED
  BY <1>1, CommitRows, CommitSparesOthers DEF BookInv

\* BookInv is inductive.
LEMMA BookStep == BookInv /\ [Book!Next]_Book!vars => BookInv'
<1> SUFFICES ASSUME BookInv, [Book!Next]_Book!vars PROVE BookInv'
  OBVIOUS
<1>1. CASE Book!Next
  BY <1>1, BeginsStep, FlushStep, FetchStep, ScreenStep, PeopleStep, EndStep, CommitStep,
     SpellingAssumption DEF Book!Next
<1>2. CASE UNCHANGED Book!vars
  <2>1. UNCHANGED <<book, people, lock, at, op, on, base, mem, seen, found, overtaken, twice>>
    BY <1>2 DEF Book!vars, Book!rows, Book!session, Book!history
  <2>2. BookTyped' /\ RowsAgree'
    BY <2>1 DEF BookInv, BookTyped, RowsAgree, Book!MirrorAgrees, Book!NobodyTwice
  <2>3. ASSUME NEW s \in Session PROVE Sound(s)'
    BY <2>1 DEF BookInv, Sound, AtWork, ChangesAgree, InsertsAlone, Book!Inserts, Book!Exists,
       AddsVisible,
       ScreensInBand, Book!Screened, FindsNew
  <2> QED
    BY <2>2, <2>3 DEF BookInv
<1> QED
  BY <1>1, <1>2

LEMMA BookInit == Book!Init => BookInv
<1> SUFFICES ASSUME Book!Init PROVE BookInv
  OBVIOUS
<1>1. \A d \in Domain : book[d] = Book!Absent \/ book[d] = Book!New("auto_discovery")
  BY DEF Book!Init
<1>2. BookTyped
  BY <1>1, SpellingAssumption, AbsentRow, NewRow DEF Book!Init, BookTyped
<1>3. RowsAgree
  <2>1. ~Book!Absent.crm
    BY DEF Book!Absent
  <2> QED
    BY <1>1, <2>1, AbsentRow, NewRow DEF Book!Init, RowsAgree, Book!MirrorAgrees,
       Book!NobodyTwice, Book!Exists
<1>4. ASSUME NEW s \in Session PROVE Sound(s)
  BY AbsentRow, NobodyAssumption DEF Book!Init, Sound, AtWork, ChangesAgree, InsertsAlone,
     Book!Inserts, Book!Exists,
     AddsVisible, ScreensInBand, Book!Screened, FindsNew
<1> QED
  BY <1>2, <1>3, <1>4 DEF BookInv

\* Rows and contacts change when somebody commits, and at no other time.
LEMMA RowsChangeByCommit ==
    ASSUME [Book!Next]_Book!vars, \A s \in Session : ~Book!Commit(s)
    PROVE  UNCHANGED <<book, people>>
<1> USE DEF Book!rows
<1>1. CASE UNCHANGED Book!vars
  BY <1>1 DEF Book!vars
<1>2. ASSUME NEW s \in Session, NEW d \in Domain,
             \/ Book!Archive(s, d) \/ Book!Create(s, d) \/ Book!AddLookalike(s, d) \/ Book!Import(s, d)
             \/ Book!StartWeb(s, d) \/ Book!StartPeople(s, d) \/ Book!AddContact(s, d)
      PROVE  UNCHANGED <<book, people>>
  BY <1>2 DEF Book!Archive, Book!Create, Book!AddLookalike, Book!Import, Book!StartWeb,
     Book!StartPeople, Book!AddContact, Book!Submit
<1>3. ASSUME NEW s \in Session, NEW size \in {"unknown", "in"}, Book!CrmAccounts(s, size)
      PROVE  UNCHANGED <<book, people>>
  BY <1>3 DEF Book!CrmAccounts, Book!Submit
<1>4. ASSUME NEW s \in Session, \/ Book!Flush(s) \/ Book!InsertConflict(s) \/ Book!Fetch(s) \/ Book!Screen(s)
                                \/ Book!LookUpPeople(s) \/ Book!SearchPeople(s) \/ Book!Fail(s)
      PROVE  UNCHANGED <<book, people>>
  BY <1>4 DEF Book!Flush, Book!InsertConflict, Book!Fetch, Book!Screen, Book!LookUpPeople,
     Book!SearchPeople, Book!Fail
<1> QED
  BY <1>1, <1>2, <1>3, <1>4 DEF Book!Next

\* The three promises of a commit that overtakes nobody.
LEMMA CommitKeepsImport ==
    ASSUME BookInv, NEW s \in Session, Book!Commit(s), NEW d \in Domain, d \notin overtaken',
           Imported(book[d])
    PROVE  Imported(book'[d])
<1>0. BookTyped /\ Sound(s) /\ on[s] \in Domain /\ at[s] = "commit"
  BY CommitOf DEF BookInv, BookTyped
<1>1. CASE d # on[s]
  BY <1>0, <1>1, CommitOf
<1>2. CASE d = on[s]
  <2>1. CASE mem[s].fields # base[s].fields
    <3>1. Imported(base[s])
      BY <1>0, <1>2, <2>1, CommitInTime DEF Imported
    <3>2. Imported(mem[s])
      BY <1>0, <3>1 DEF Sound, ChangesAgree
    <3> QED
      BY <1>0, <1>2, <2>1, <3>2, CommitRow DEF Imported
  <2>2. CASE mem[s].fields = base[s].fields
    BY <1>0, <1>2, <2>2, CommitRow DEF Imported
  <2> QED
    BY <2>1, <2>2
<1> QED
  BY <1>1, <1>2

LEMMA CommitScreens ==
    ASSUME BookInv, NEW s \in Session, Book!Commit(s), NEW d \in Domain, d \notin overtaken',
           book'[d].fields.reason, ~book[d].fields.reason
    PROVE  book[d].source = "auto_discovery" /\ book'[d].size = "out" /\ people'[d] = {}
<1>0. BookTyped /\ Sound(s) /\ on[s] \in Domain /\ at[s] = "commit"
  BY CommitOf DEF BookInv, BookTyped
<1>1. d = on[s]
  BY <1>0, CommitOf
<1>2. mem[s].fields # base[s].fields
  BY <1>0, <1>1, CommitRow
<1>3. book'[d].fields = mem[s].fields /\ book[d].fields = base[s].fields
  BY <1>0, <1>1, <1>2, CommitRow, CommitInTime
<1>4. Book!Screened(s)
  BY <1>3 DEF Book!Screened
<1>5. mem[s].source = "auto_discovery" /\ mem[s].size = "out" /\ people[d] = {}
  BY <1>0, <1>1, <1>4, CommitInTime DEF Sound, ScreensInBand
<1>6. found[s] = {}
  BY <1>0, <1>1, <1>4, CommitInTime
<1>7. book[d].source = "auto_discovery"
  <2>1. ~Book!Inserts(s)
    BY <1>0, <1>5 DEF Sound, ChangesAgree, Book!Inserts
  <2>2. Book!Exists(base[s]) /\ base[s].source = book[d].source /\ mem[s].source = base[s].source
    <3>1. Book!Exists(base[s]) /\ mem[s].source = base[s].source
      BY <1>0, <2>1, AbsentRow DEF Sound, ChangesAgree, Book!Inserts, Book!Exists
    <3>2. on[s] \notin overtaken
      BY <1>0, <1>1, CommitInTime
    <3> QED
      BY <1>0, <1>1, <3>1, <3>2 DEF Sound, ChangesAgree
  <2> QED
    BY <1>5, <2>2
<1>8. book'[d].size = "out"
  <2>1. book[d].size = base[s].size
    BY <1>0, <1>1, <1>4, CommitInTime
  <2> QED
    BY <1>0, <1>1, <1>5, <2>1, CommitRow
<1> QED
  BY <1>0, <1>1, <1>5, <1>6, <1>7, <1>8, CommitOf

LEMMA CommitAddShows ==
    ASSUME BookInv, NEW s \in Session, Book!Commit(s), op[s] = "add",
           Book!Inserts(s) \/ book[on[s]] = base[s]
    PROVE  Book!Exists(book'[on[s]]) /\ ~book'[on[s]].archived
<1>0. BookTyped /\ Sound(s) /\ RowsAgree /\ on[s] \in Domain /\ at[s] = "commit"
  BY CommitOf DEF BookInv, BookTyped
<1>1. ~mem[s].archived /\ Book!Exists(mem[s])
  BY <1>0 DEF Sound, AddsVisible, ChangesAgree
<1>2. CASE Book!Inserts(s)
  <2>1. base[s] = Book!Absent /\ ~Book!Exists(book[on[s]])
    BY <1>0, <1>2 DEF Sound, ChangesAgree, InsertsAlone, Book!Inserts
  <2>2. ~book[on[s]].archived
    BY <1>0, <2>1 DEF RowsAgree
  <2> QED
    BY <1>0, <1>1, <2>1, <2>2, AbsentRow, CommitRow DEF Book!Exists
<1>3. CASE ~Book!Inserts(s) /\ book[on[s]] = base[s]
  <2>1. Book!Exists(base[s]) /\ mem[s].source = base[s].source
    BY <1>0, <1>1, <1>3, AbsentRow DEF Sound, ChangesAgree, Book!Inserts, Book!Exists
  <2>2. ~book'[on[s]].archived
    <3>1. CASE "archived" \in Book!Dirty(s)
      BY <1>0, <1>1, <3>1, CommitRow
    <3>2. CASE "archived" \notin Book!Dirty(s)
      BY <1>0, <1>1, <1>3, <3>2, CommitRow, DirtyColumns
    <3> QED
      BY <3>1, <3>2
  <2> QED
    BY <1>0, <1>3, <2>1, <2>2, CommitRow DEF Book!Exists
<1> QED
  BY <1>2, <1>3

\* Every step leaves the book in order.
LEMMA BookOrder == BookInv /\ [Book!Next]_Book!vars => Book!InOrder
<1> SUFFICES ASSUME BookInv, [Book!Next]_Book!vars PROVE Book!InOrder
  OBVIOUS
<1>1. Book!MirrorAgrees' /\ Book!NobodyTwice'
  BY BookStep DEF BookInv, RowsAgree
<1>2. Book!AddShows
  BY CommitAddShows DEF Book!AddShows
<1>3. Book!ImportStays
  <2>1. CASE \E s \in Session : Book!Commit(s)
    BY <2>1, CommitKeepsImport DEF Book!ImportStays, Imported
  <2>2. CASE \A s \in Session : ~Book!Commit(s)
    BY <2>2, RowsChangeByCommit DEF Book!ImportStays
  <2> QED
    BY <2>1, <2>2
<1>4. Book!ScreenSparesTheChosen
  <2>1. CASE \E s \in Session : Book!Commit(s)
    BY <2>1, CommitScreens DEF Book!ScreenSparesTheChosen
  <2>2. CASE \A s \in Session : ~Book!Commit(s)
    BY <2>2, RowsChangeByCommit DEF Book!ScreenSparesTheChosen
  <2> QED
    BY <2>1, <2>2
<1> QED
  BY <1>1, <1>2, <1>3, <1>4 DEF Book!InOrder

-----------------------------------------------------------------------------
(* The whole *)

\* The account, not the headline, is the unit of work (create_from_signal, enqueue):
\* however many transactions refresh the account and reps complete its tasks, it has one
\* open task and one open call until two transactions overlap or a rep reopens a task, and
\* every signal is in the database with the records of its plays.
THEOREM AccountIsUnitOfWork == MCSpec => []OneUnitOfWork
<1>1. MCInit => PipelineInv
  BY PipelineInit DEF MCInit
<1>2. PipelineInv /\ [MCNext]_<<part, vars, accounts, digest>> => PipelineInv'
  BY PartOnItsOwn, PipelineStep
<1> QED
  BY <1>1, <1>2, PipelineGives, PTL DEF MCSpec

\* What a rep has completed stays quiet (the cool-down of create_from_signal): no step makes
\* a task of the account while one cools down, until two transactions overlap.
THEOREM CompletedStaysQuiet == MCSpec => NoRealert
<1>1. MCInit => PipelineInv
  BY PipelineInit DEF MCInit
<1>2. PipelineInv /\ [MCNext]_<<part, vars, accounts, digest>> => PipelineInv'
  BY PartOnItsOwn, PipelineStep
<1>3. PipelineInv /\ [MCNext]_<<part, vars, accounts, digest>> =>
          [CoolingDown /\ ~overlapped => Len(tasks') = Len(tasks)]_vars
  BY PartOnItsOwn, QuietWhileCooling
<1> QED
  BY <1>1, <1>2, <1>3, PTL DEF MCSpec, NoRealert

\* The gate of the digest holds (handle_send_daily_digests): however many jobs run, whenever
\* they start and whatever they count, two digests are an interval apart and no news is
\* in both, until two jobs have passed the gate of one interval.
THEOREM DigestsDoNotRepeat == MCSpec => []DigestsAgree
<1>1. MCInit => DigestInv
  BY DigestInit DEF MCInit
<1>2. DigestInv /\ [MCNext]_<<part, vars, accounts, digest>> => DigestInv'
  BY PartOnItsOwn, DigestStep
<1>3. DigestInv => DigestsAgree
  BY DEF DigestInv, DigestsAgree
<1> QED
  BY <1>1, <1>2, <1>3, PTL DEF MCSpec

\* The book of accounts holds together (Account.set_archived, rescreen_discovered_account,
\* source_account_contacts, the imports): whatever requests and jobs load, fetch, screen and
\* write back, every step leaves both columns of the archive, the contacts, what was
\* imported and what was added from the look-alikes in order, until one overtakes another.
THEOREM BookStaysInOrder == MCSpec => BookHolds
<1>1. MCInit => BookInv
  BY BookInit DEF MCInit
<1>2. BookInv /\ [MCNext]_<<part, vars, accounts, digest>> => BookInv'
  BY PartOnItsOwn, BookStep
<1>3. BookInv /\ [MCNext]_<<part, vars, accounts, digest>> => [Book!InOrder]_accounts
  BY PartOnItsOwn, BookOrder
<1> QED
  BY <1>1, <1>2, <1>3, PTL DEF MCSpec, BookHolds
=============================================================================

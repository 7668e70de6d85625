-------------------------- MODULE Requests_proofs --------------------------
(***************************************************************************)
(* What holds of Idempotency for every set of requests, either store, any  *)
(* time to live and any number of deaths; of ChatIntake for any number of  *)
(* sessions, requests at work, texts, readings, and every bound.           *)
(*                                                                         *)
(* KeyInv: "the work is done once" is not inductive, for a second request  *)
(* might be running its handler.  A request that got the claim is alone    *)
(* and the store holds its claim; once a request has committed work that   *)
(* is answered, the entry is there for good and nobody else has the claim; *)
(* a response handed out is the stored one.                                *)
(*                                                                         *)
(* ChatInv: "a log alternates" is not inductive, for a reply takes the     *)
(* number after its message's, whatever was committed meanwhile.  Whoever  *)
(* has inserted a message has the next number and is the only one at work  *)
(* in its session (NumberInv); its row is the one that is committed unless *)
(* it started from a superseded one (RowInv); what it will commit is what  *)
(* its text was read as (TalkInv).                                         *)
(***************************************************************************)
EXTENDS ChatIntake, MCIdempotency, TLAPS

-----------------------------------------------------------------------------
(* The idempotency key *)

\* The request got the claim and has not given its last word.
Owner(r) == at[r] \in {"handler", "complete", "release", "delete"}

OwnerAlone ==
    \A r \in Request : Owner(r) =>
        /\ entry.kind = "claim"
        /\ \A q \in Request : Owner(q) => q = r

\* Work is committed by a handler, and its answer is JSON when it is stored.
WorkIsPast ==
    \A r \in Request :
        /\ worked[r] => at[r] \notin {"claim", "lookup", "handler"}
        /\ cacheable[r] => at[r] \in {"complete", "done"}

WorkIsHeld ==
    \A r \in Request : Key!Answerable(r) =>
        /\ entry.kind # "absent"
        /\ \A q \in Request : Owner(q) => q = r
        /\ \A q \in Request : Key!Answerable(q) => q = r

AnswerIsStored ==
    \A r \in Request : answer[r].kind = "response" =>
        entry.kind = "response" /\ answer[r].of = entry.of

KeyInv ==
    /\ WorkIsPast
    /\ ~forgotten => OwnerAlone /\ WorkIsHeld /\ AnswerIsStored

-----------------------------------------------------------------------------
(* Type correctness *)

LEMMA ShapesOfEntries ==
    /\ Key!Absent \in Key!Entries
    /\ Key!Claimed \in Key!Entries
    /\ \A r \in Request : Key!Response(r) \in Key!Entries
    /\ \A r \in Request : [kind |-> "response", of |-> r] \in Key!Answers
    /\ \A kind \in {"none", "conflict", "error"} : [kind |-> kind, of |-> NoRequest] \in Key!Answers
BY BoundAssumption DEF Key!Absent, Key!Claimed, Key!Response, Key!Entries, Key!Answers

LEMMA TypeInit == Key!Init => Key!TypeOK
<1> SUFFICES ASSUME Key!Init PROVE Key!TypeOK
  OBVIOUS
<1>1. answer \in [Request -> Key!Answers]
  BY ShapesOfEntries DEF Key!Init
<1>2. worked \in [Request -> BOOLEAN] /\ cacheable \in [Request -> BOOLEAN]
  BY Zenon DEF Key!Init
<1>3. entry \in Key!Entries /\ deaths \in 0 .. MaxDeaths
  BY ShapesOfEntries, BoundAssumption DEF Key!Init
<1>4. at \in [Request -> {"claim", "lookup", "handler", "complete", "release",
                         "delete", "done"}]
  BY DEF Key!Init
<1>5. QED
  BY <1>1, <1>2, <1>3, <1>4 DEF Key!Init, Key!TypeOK

LEMMA TypeRequest ==
    ASSUME Key!TypeOK, NEW r \in Request, Key!Claim(r) \/ Key!Proceed(r) \/ Key!Die(r)
    PROVE  Key!TypeOK'
<1>1. CASE Key!Claim(r)
  BY <1>1, ShapesOfEntries DEF Key!TypeOK, Key!Claim, Key!Goto
<1>2. CASE Key!Lookup(r)
  <2>1. entry.kind = "response" => [kind |-> "response", of |-> entry.of] \in Key!Answers
    BY ShapesOfEntries DEF Key!TypeOK, Key!Entries
  <2>2. answer' \in [Request -> Key!Answers]
    BY <1>2, <2>1, ShapesOfEntries DEF Key!TypeOK, Key!Lookup, Key!Reply
  <2>3. QED
    BY <1>2, <2>2 DEF Key!TypeOK, Key!Lookup, Key!Goto
<1>3. CASE \E committed \in BOOLEAN :
             Key!HandlerReturns(r, committed) \/ Key!HandlerReturnsOther(r, committed)
  BY <1>3 DEF Key!TypeOK, Key!HandlerReturns, Key!HandlerReturnsOther, Key!Goto
<1>4. CASE Key!HandlerRaises(r)
  BY <1>4 DEF Key!TypeOK, Key!HandlerRaises, Key!Goto
<1>5. CASE Key!Complete(r)
  BY <1>5, ShapesOfEntries DEF Key!TypeOK, Key!Complete, Key!Goto, Key!Reply
<1>6. CASE Key!Release(r) \/ Key!ReleaseLooks(r) \/ Key!ReleaseDeletes(r)
  BY <1>6, ShapesOfEntries DEF Key!TypeOK, Key!Release, Key!ReleaseLooks, Key!ReleaseDeletes, Key!Goto, Key!Reply
<1>7. CASE Key!Die(r)
  <2>1. PICK committed \in BOOLEAN :
          worked' = [worked EXCEPT ![r] = @ \/ (committed /\ at[r] = "handler")]
    BY <1>7 DEF Key!Die
  <2>2. worked' \in [Request -> BOOLEAN] /\ cacheable' \in [Request -> BOOLEAN]
    BY <1>7, <2>1 DEF Key!TypeOK, Key!Die
  <2>3. QED
    BY <1>7, <2>2, BoundAssumption DEF Key!TypeOK, Key!Die, Key!Goto
<1>8. QED
  BY <1>1, <1>2, <1>3, <1>4, <1>5, <1>6, <1>7 DEF Key!Proceed

LEMMA TypeWorld ==
    ASSUME Key!TypeOK, Key!Restart \/ Key!Tick
    PROVE  Key!TypeOK'
<1>1. CASE Key!Restart
  <2>1. forgotten' \in BOOLEAN
    BY <1>1 DEF Key!TypeOK, Key!Restart
  <2>2. QED
    BY <1>1, <2>1, ShapesOfEntries, BoundAssumption DEF Key!TypeOK, Key!Restart
<1>2. CASE Key!Tick
  <2>1. [entry EXCEPT !.left = @ - 1] \in Key!Entries
    BY <1>2, BoundAssumption DEF Key!TypeOK, Key!Entries, Key!Tick
  <2>2. forgotten' \in BOOLEAN
    BY <1>2 DEF Key!TypeOK, Key!Tick
  <2>3. QED
    BY <1>2, <2>1, <2>2, ShapesOfEntries DEF Key!TypeOK, Key!Tick
<1>3. QED
  BY <1>1, <1>2

LEMMA TypeNext == Key!TypeOK /\ [Key!Next]_requests => Key!TypeOK'
<1> SUFFICES ASSUME Key!TypeOK, [Key!Next]_requests PROVE Key!TypeOK'
  OBVIOUS
<1>1. CASE UNCHANGED requests
  BY <1>1 DEF Key!TypeOK, requests
<1>2. QED
  BY <1>1, TypeRequest, TypeWorld DEF Key!Next

\* Every variable of the middleware and of its store keeps its type.
THEOREM TypeCorrect == KeySpec => []Key!TypeOK
  BY TypeInit, TypeNext, PTL DEF KeySpec

-----------------------------------------------------------------------------
(* The claim is of one request, and committed work is behind it *)

LEMMA KeyInit == Key!Init => KeyInv
  BY DEF Key!Init, KeyInv, OwnerAlone, WorkIsPast, WorkIsHeld, AnswerIsStored, Owner, Key!Answerable

LEMMA KeyRequest ==
    ASSUME Key!TypeOK, KeyInv, NEW r \in Request, Key!Claim(r) \/ Key!Proceed(r) \/ Key!Die(r)
    PROVE  KeyInv'
<1> USE DEF KeyInv, OwnerAlone, WorkIsPast, WorkIsHeld, AnswerIsStored, Owner, Key!Answerable
<1>1. CASE Key!Claim(r)
  BY <1>1 DEF Key!TypeOK, Key!Claim, Key!Goto, Key!Claimed
<1>2. CASE Key!Lookup(r)
  BY <1>2 DEF Key!TypeOK, Key!Lookup, Key!Goto, Key!Reply
<1>3. CASE \E committed \in BOOLEAN :
             Key!HandlerReturns(r, committed) \/ Key!HandlerReturnsOther(r, committed)
  BY <1>3 DEF Key!TypeOK, Key!HandlerReturns, Key!HandlerReturnsOther, Key!Goto
<1>4. CASE Key!HandlerRaises(r)
  BY <1>4 DEF Key!TypeOK, Key!HandlerRaises, Key!Goto
<1>5. CASE Key!Complete(r)
  BY <1>5 DEF Key!TypeOK, Key!Complete, Key!Goto, Key!Reply, Key!Response
<1>6. CASE Key!Release(r) \/ Key!ReleaseLooks(r) \/ Key!ReleaseDeletes(r)
  BY <1>6 DEF Key!TypeOK, Key!Release, Key!ReleaseLooks, Key!ReleaseDeletes, Key!Goto, Key!Reply, Key!Absent
<1>7. CASE Key!Die(r)
  BY <1>7 DEF Key!TypeOK, Key!Die, Key!Goto
<1>8. QED
  BY <1>1, <1>2, <1>3, <1>4, <1>5, <1>6, <1>7 DEF Key!Proceed

LEMMA KeyWorld ==
    ASSUME Key!TypeOK, KeyInv, Key!Restart \/ Key!Tick
    PROVE  KeyInv'
<1> USE DEF KeyInv, OwnerAlone, WorkIsPast, WorkIsHeld, AnswerIsStored, Owner, Key!Answerable
<1>1. CASE Key!Restart
  BY <1>1 DEF Key!TypeOK, Key!Restart
<1>2. CASE Key!Tick
  <2>1. ~forgotten' => ~forgotten /\ entry'.kind = entry.kind /\ entry'.of = entry.of
    BY <1>2 DEF Key!TypeOK, Key!Entries, Key!Tick
  <2>2. QED
    BY <1>2, <2>1 DEF Key!Tick
<1>3. QED
  BY <1>1, <1>2

LEMMA KeyNext == Key!TypeOK /\ KeyInv /\ [Key!Next]_requests => KeyInv'
<1> SUFFICES ASSUME Key!TypeOK, KeyInv, [Key!Next]_requests PROVE KeyInv'
  OBVIOUS
<1>1. CASE UNCHANGED requests
  BY <1>1 DEF requests, KeyInv, OwnerAlone, WorkIsPast, WorkIsHeld, AnswerIsStored, Owner, Key!Answerable
<1>2. QED
  BY <1>1, KeyRequest, KeyWorld DEF Key!Next

LEMMA KeySafe == KeySpec => []KeyInv
  BY KeyInit, KeyNext, TypeCorrect, PTL DEF KeySpec

\* As long as the store forgets nothing, the work of one key is committed and
\* answered once, whoever dies and whenever.
THEOREM WorkOnceSafe == KeySpec => []Key!WorkOnce
<1>1. KeyInv => Key!WorkOnce
  BY DEF KeyInv, WorkIsHeld, Key!WorkOnce
<1>2. QED
  BY <1>1, KeySafe, PTL

\* As long as the store forgets nothing, every client that is answered with a
\* response has the same one.
THEOREM AnswersAgreeSafe == KeySpec => []Key!AnswersAgree
<1>1. KeyInv => Key!AnswersAgree
  BY DEF KeyInv, AnswerIsStored, Key!AnswersAgree
<1>2. QED
  BY <1>1, KeySafe, PTL

\* Both together: one key has one result.
THEOREM OneResultSafe == KeySpec => []OneResult
  BY WorkOnceSafe, AnswersAgreeSafe, PTL DEF OneResult, Key!OneResult

-----------------------------------------------------------------------------
(* The chat *)

\* A sequence, of whatever elements.
IsSequence(seq) == seq \in Seq({seq[i] : i \in DOMAIN seq})

RowFields == {"exists", "icp", "target", "missing"}
TurnFields == {"session", "text", "new", "row", "read", "seq", "result", "action"}

TypedSession(s) == DOMAIN sess[s] = RowFields /\ sess[s].exists \in BOOLEAN /\ IsSequence(log[s])

TypedTurn(t) ==
    /\ DOMAIN turn[t] = TurnFields /\ DOMAIN turn[t].row = RowFields /\ DOMAIN turn[t].result = RowFields
    /\ turn[t].read \in Nat /\ turn[t].seq \in Nat /\ turn[t].new \in BOOLEAN
    /\ turn[t].result.exists \in BOOLEAN
    /\ pc[t] \in {"idle", "saving"} => turn[t].session = None
    /\ pc[t] \notin {"idle", "saving"} => turn[t].session \in Session

ChatTyped ==
    /\ pc \in [Turn -> {"idle", "loaded", "numbered", "thinking", "replied", "saving"}]
    /\ DOMAIN turn = Turn /\ DOMAIN sess = Session /\ DOMAIN log = Session
    /\ \A s \in Session : TypedSession(s)
    /\ \A t \in Turn : TypedTurn(t)

\* A turn that has inserted its message.
Inserted(t) == pc[t] \in {"thinking", "replied"}

\* A message is numbered after those there were; once inserted it is the next one, and
\* the only one at work in its session, for all others wait for its number.
NumberInv ==
    /\ \A s \in Session : Len(log[s]) % 2 = 0
    /\ \A s \in Session : \A i \in 1 .. Len(log[s]) :
          /\ log[s][i].seq = i
          /\ log[s][i].role = IF i % 2 = 1 THEN "user" ELSE "assistant"
    /\ \A t \in Turn : pc[t] = "numbered" =>
          turn[t].seq >= 1 /\ turn[t].seq <= Len(log[turn[t].session]) + 1
    /\ \A t \in Turn : Inserted(t) => turn[t].seq = Len(log[turn[t].session]) + 1
    /\ \A t, u \in Turn : Inserted(t) /\ Inserted(u) /\ turn[t].session = turn[u].session => t = u

\* A turn that creates its session is alone with it; any other works with the row as it
\* is, unless messages were added since it was read.
RowInv ==
    /\ \A s \in Session : ~sess[s].exists =>
          /\ log[s] = << >>
          /\ \A t, u \in Turn : turn[t].session = s /\ turn[u].session = s => t = u
    /\ \A t \in Turn : turn[t].session \in Session =>
          /\ turn[t].new => ~sess[turn[t].session].exists /\ turn[t].read = 0
          /\ ~turn[t].new => /\ sess[turn[t].session].exists
                             /\ turn[t].read <= Len(log[turn[t].session])
                             /\ turn[t].read = Len(log[turn[t].session]) => turn[t].row = sess[turn[t].session]

\* The question that a row leads to.
Question(row) == IF row.missing = << >> THEN None ELSE Head(row.missing)

\* What the controller makes of a row and a text.
Decided(row, text, first, result, action) ==
    /\ DOMAIN result = RowFields /\ result.exists /\ result.exists \in BOOLEAN
    /\ result.missing = MissingRequired(result.icp, result.target)
    /\ \A slot \in ListSlot :
          row.icp[slot] \cup ExtractSlots(text, Pending(row, first))[slot] \subseteq result.icp[slot]
    /\ action = "launch" => result.missing = << >>
    /\ action = "clarify" <=> result.missing # << >>

\* A reply is what the controller decided, the last question of the log is the one that
\* its session waits for, and runs were launched by messages of the log.
TalkInv ==
    /\ \A t \in Turn : pc[t] = "replied" =>
          Decided(turn[t].row, turn[t].text, turn[t].seq = 1, turn[t].result, turn[t].action)
    /\ \A s \in Session : s \notin stale /\ sess[s].exists /\ log[s] # << >> =>
          log[s][Len(log[s])].slot = Question(sess[s])
    /\ \A r \in runs : r.session \in Session /\ r.seq \in Nat /\ r.seq <= Len(log[r.session])
    /\ ProfileIsWhatWasSaid

ChatInv == ChatTyped /\ NumberInv /\ RowInv /\ TalkInv

-----------------------------------------------------------------------------

LEMMA EmptyIsSequence == IsSequence(<< >>)
  BY DEF IsSequence

\* A sequence to which two elements are added.
LEMMA AddTwo ==
    ASSUME NEW q, IsSequence(q), NEW a, NEW b
    PROVE  /\ IsSequence(q \o <<a, b>>) /\ Len(q) \in Nat /\ DOMAIN q = 1 .. Len(q)
           /\ Len(q \o <<a, b>>) = Len(q) + 2 /\ DOMAIN (q \o <<a, b>>) = 1 .. Len(q) + 2
           /\ \A i \in 1 .. Len(q) : (q \o <<a, b>>)[i] = q[i]
           /\ (q \o <<a, b>>)[Len(q) + 1] = a /\ (q \o <<a, b>>)[Len(q) + 2] = b
<1> DEFINE S == {q[i] : i \in DOMAIN q} \cup {a, b}
           both == q \o <<a, b>>
<1>1. q \in Seq(S) /\ <<a, b>> \in Seq(S)
  BY DEF IsSequence
<1> HIDE DEF S
<1>2. /\ both \in Seq(S) /\ Len(both) = Len(q) + 2
      /\ \A i \in 1 .. Len(q) : both[i] = q[i]
      /\ both[Len(q) + 1] = a /\ both[Len(q) + 2] = b
  BY <1>1
<1> HIDE DEF both
<1>3. Len(both) \in Nat /\ both = [i \in 1 .. Len(both) |-> both[i]] /\ DOMAIN both = 1 .. Len(both)
  BY <1>2
<1>4. both \in Seq({both[i] : i \in DOMAIN both})
  BY <1>3
<1>5. Len(q) \in Nat /\ DOMAIN q = 1 .. Len(q)
  BY <1>1
<1>6. IsSequence(both)
  BY <1>4 DEF IsSequence
<1> QED
  BY <1>2, <1>3, <1>5, <1>6 DEF both

\* A list only grows when answers are merged into it.
LEMMA MergeGrows ==
    ASSUME NEW icp, NEW delta, NEW slot \in ListSlot
    PROVE  MergeIcp(icp, delta)[slot] = icp[slot] \cup delta[slot]
  BY DEF MergeIcp, Slot, ListSlot

LEMMA AdvanceDecides ==
    ASSUME NEW row, NEW text, NEW first \in BOOLEAN, NEW reading
    PROVE  Decided(row, text, first, Advance(row, text, first, reading).session,
                   Advance(row, text, first, reading).action)
<1> DEFINE target == InferTarget(text, row.target)
           said == ExtractSlots(text, Pending(row, first))
           heard == MergeIcp(row.icp, said)
           known == Understand(reading, text, heard, target)
           missing == MissingRequired(known.icp, known.target)
           session == [exists |-> TRUE, icp |-> known.icp, target |-> known.target, missing |-> missing]
           action == Advance(row, text, first, reading).action
<1>1. Advance(row, text, first, reading).session = session
  BY DEF Advance
<1>2. /\ action = "launch" => missing = << >>
      /\ action = "clarify" <=> missing # << >>
  BY DEF Advance
<1>3. \A slot \in ListSlot : row.icp[slot] \cup said[slot] \subseteq heard[slot]
  BY MergeGrows
<1>4. \A slot \in ListSlot : heard[slot] \subseteq known.icp[slot]
  <2> HIDE DEF heard, target
  <2> QED
    BY MergeGrows DEF Understand
<1>5. \A slot \in ListSlot : row.icp[slot] \cup said[slot] \subseteq session.icp[slot]
  BY <1>3, <1>4
<1>6. DOMAIN session = RowFields /\ session.exists /\ session.exists \in BOOLEAN /\ session.missing = MissingRequired(session.icp, session.target)
  BY DEF RowFields
<1> HIDE DEF known, missing, said, session, action
<1> QED
  BY <1>1, <1>2, <1>5, <1>6 DEF Decided, said, action, session

\* What is written of a row that nobody changed is what the turn has made of it.
LEMMA WrittenIsNew ==
    ASSUME NEW row, NEW new, DOMAIN row = RowFields, DOMAIN new = RowFields
    PROVE  /\ Written(row, row, new).icp = new.icp /\ Written(row, row, new).target = new.target
           /\ Written(row, row, new).missing = new.missing
  BY DEF Written, RowFields

-----------------------------------------------------------------------------
(* What the steps do. *)

LEMMA NoTurnIs ==
    /\ DOMAIN NoTurn = TurnFields /\ DOMAIN NoSession = RowFields
    /\ NoTurn.session = None /\ ~NoTurn.new /\ NoTurn.new \in BOOLEAN /\ NoTurn.row = NoSession /\ NoTurn.read = 0
    /\ NoTurn.seq = 0 /\ NoTurn.result = NoSession
    /\ ~NoSession.exists /\ NoSession.exists \in BOOLEAN /\ NoSession.missing = << >> /\ NoSession.target = None
  BY DEF NoTurn, NoSession, TurnFields, RowFields

LEMMA SeededIs ==
    ASSUME NEW parent
    PROVE  /\ DOMAIN Seeded(parent) = RowFields /\ Seeded(parent).exists /\ Seeded(parent).exists \in BOOLEAN
           /\ Seeded(parent).missing = MissingRequired(Seeded(parent).icp, Seeded(parent).target)
  BY DEF Seeded, RowFields

\* A turn begins.
LEMMA LoadIs ==
    ASSUME ChatTyped, NEW t \in Turn, NEW s \in Session, NEW parent, NEW text,
           CreateWithMessage(t, s, parent, text) \/ PostMessage(t, s, text)
    PROVE  /\ pc[t] = "idle" /\ pc' = [pc EXCEPT ![t] = "loaded"]
           /\ \A u \in Turn \ {t} : turn'[u] = turn[u]
           /\ DOMAIN turn' = Turn /\ DOMAIN turn'[t] = TurnFields
           /\ turn'[t].session = s /\ turn'[t].result = NoSession /\ turn'[t].seq = 0 /\ turn'[t].new \in BOOLEAN
           /\ \/ /\ turn'[t].new /\ turn'[t].row = Seeded(parent) /\ turn'[t].read = 0
                 /\ ~sess[s].exists /\ \A u \in Turn : turn[u].session # s
              \/ /\ ~turn'[t].new /\ turn'[t].row = sess[s] /\ turn'[t].read = Len(log[s])
                 /\ sess[s].exists
           /\ profile' = profile /\ sess' = sess /\ log' = log /\ runs' = runs /\ stale' = stale
<1>1. CASE CreateWithMessage(t, s, parent, text)
  <2> DEFINE work == [NoTurn EXCEPT !.session = s, !.text = text, !.new = TRUE, !.row = Seeded(parent)]
  <2>1. /\ DOMAIN work = TurnFields /\ work.session = s /\ work.result = NoSession /\ work.seq = 0
        /\ work.new /\ work.new \in BOOLEAN /\ work.row = Seeded(parent) /\ work.read = 0
    BY NoTurnIs DEF TurnFields
  <2> HIDE DEF work
  <2>2. pc[t] = "idle" /\ pc' = [pc EXCEPT ![t] = "loaded"] /\ turn' = [turn EXCEPT ![t] = work]
    BY <1>1 DEF CreateWithMessage, Begin, work
  <2>3. DOMAIN turn' = Turn /\ turn'[t] = work /\ \A u \in Turn \ {t} : turn'[u] = turn[u]
    BY <2>2 DEF ChatTyped
  <2>4. /\ ~sess[s].exists /\ \A u \in Turn : turn[u].session # s
        /\ profile' = profile /\ sess' = sess /\ log' = log /\ runs' = runs /\ stale' = stale
    BY <1>1 DEF CreateWithMessage
  <2> QED
    BY <2>1, <2>2, <2>3, <2>4
<1>2. CASE PostMessage(t, s, text)
  <2> DEFINE work == [NoTurn EXCEPT !.session = s, !.text = text, !.row = sess[s], !.read = Len(log[s])]
  <2>1. /\ DOMAIN work = TurnFields /\ work.session = s /\ work.result = NoSession /\ work.seq = 0
        /\ ~work.new /\ work.new \in BOOLEAN /\ work.row = sess[s] /\ work.read = Len(log[s])
    BY NoTurnIs DEF TurnFields
  <2> HIDE DEF work
  <2>2. pc[t] = "idle" /\ pc' = [pc EXCEPT ![t] = "loaded"] /\ turn' = [turn EXCEPT ![t] = work]
    BY <1>2 DEF PostMessage, Begin, work
  <2>3. DOMAIN turn' = Turn /\ turn'[t] = work /\ \A u \in Turn \ {t} : turn'[u] = turn[u]
    BY <2>2 DEF ChatTyped
  <2>4. /\ sess[s].exists
        /\ profile' = profile /\ sess' = sess /\ log' = log /\ runs' = runs /\ stale' = stale
    BY <1>2 DEF PostMessage
  <2> QED
    BY <2>1, <2>2, <2>3, <2>4
<1> QED
  BY <1>1, <1>2

\* A turn goes on with what it has, but for its number, or its result.
LEMMA NumberIs ==
    ASSUME ChatTyped, NEW t \in Turn, Number(t)
    PROVE  /\ pc[t] = "loaded" /\ pc' = [pc EXCEPT ![t] = "numbered"]
           /\ \A u \in Turn \ {t} : turn'[u] = turn[u]
           /\ DOMAIN turn' = Turn /\ DOMAIN turn'[t] = TurnFields
           /\ turn'[t].seq = NextSeq(turn[t].session)
           /\ turn'[t].session = turn[t].session /\ turn'[t].new = turn[t].new /\ turn'[t].row = turn[t].row
           /\ turn'[t].read = turn[t].read /\ turn'[t].result = turn[t].result
           /\ profile' = profile /\ sess' = sess /\ log' = log /\ runs' = runs /\ stale' = stale
<1> DEFINE work == [turn[t] EXCEPT !.seq = NextSeq(turn[t].session)]
<1>1. /\ DOMAIN work = TurnFields /\ work.seq = NextSeq(turn[t].session)
      /\ work.session = turn[t].session /\ work.new = turn[t].new /\ work.row = turn[t].row
      /\ work.read = turn[t].read /\ work.result = turn[t].result
  BY DEF ChatTyped, TypedTurn, TurnFields
<1> HIDE DEF work
<1>2. /\ pc[t] = "loaded" /\ pc' = [pc EXCEPT ![t] = "numbered"] /\ turn' = [turn EXCEPT ![t] = work]
      /\ profile' = profile /\ sess' = sess /\ log' = log /\ runs' = runs /\ stale' = stale
  BY DEF Number, Goto, work
<1>3. DOMAIN turn' = Turn /\ turn'[t] = work /\ \A u \in Turn \ {t} : turn'[u] = turn[u]
  BY <1>2 DEF ChatTyped
<1> QED
  BY <1>1, <1>2, <1>3

LEMMA ThinkIs ==
    ASSUME ChatTyped, NEW t \in Turn, Think(t)
    PROVE  /\ pc[t] = "thinking" /\ pc' = [pc EXCEPT ![t] = "replied"]
           /\ \A u \in Turn \ {t} : turn'[u] = turn[u]
           /\ DOMAIN turn' = Turn /\ DOMAIN turn'[t] = TurnFields
           /\ turn'[t].seq = turn[t].seq /\ turn'[t].text = turn[t].text
           /\ turn'[t].session = turn[t].session /\ turn'[t].new = turn[t].new /\ turn'[t].row = turn[t].row
           /\ turn'[t].read = turn[t].read
           /\ Decided(turn[t].row, turn[t].text, turn[t].seq = 1, turn'[t].result, turn'[t].action)
           /\ profile' = profile /\ sess' = sess /\ log' = log /\ runs' = runs /\ stale' = stale
<1>1. PICK reading \in Reading \cup {[target |-> None, slots |-> Nothing]} :
         Goto(t, "thinking", "replied",
              [turn[t] EXCEPT !.result = Advance(turn[t].row, turn[t].text, turn[t].seq = 1, reading).session,
                              !.action = Advance(turn[t].row, turn[t].text, turn[t].seq = 1, reading).action])
  BY DEF Think
<1> DEFINE decision == Advance(turn[t].row, turn[t].text, turn[t].seq = 1, reading)
           work == [turn[t] EXCEPT !.result = decision.session, !.action = decision.action]
<1>2. Decided(turn[t].row, turn[t].text, turn[t].seq = 1, decision.session, decision.action)
  <2>1. (turn[t].seq = 1) \in BOOLEAN
    OBVIOUS
  <2> QED
    BY <2>1, AdvanceDecides
<1>3. /\ pc[t] = "thinking" /\ pc' = [pc EXCEPT ![t] = "replied"] /\ turn' = [turn EXCEPT ![t] = work]
  BY <1>1 DEF Goto
<1> HIDE DEF decision
<1>4. /\ DOMAIN work = TurnFields /\ work.seq = turn[t].seq /\ work.text = turn[t].text
      /\ work.session = turn[t].session /\ work.new = turn[t].new /\ work.row = turn[t].row
      /\ work.read = turn[t].read /\ work.result = decision.session /\ work.action = decision.action
  BY DEF ChatTyped, TypedTurn, TurnFields
<1> HIDE DEF work
<1>5. DOMAIN turn' = Turn /\ turn'[t] = work /\ \A u \in Turn \ {t} : turn'[u] = turn[u]
  BY <1>3 DEF ChatTyped
<1>6. profile' = profile /\ sess' = sess /\ log' = log /\ runs' = runs /\ stale' = stale
  BY DEF Think
<1> QED
  BY <1>2, <1>3, <1>4, <1>5, <1>6

\* A request ends, or a profile is loaded to be saved: no session is at work in it.
LEMMA RestIs ==
    ASSUME ChatTyped, NEW t \in Turn,
           InsertConflict(t) \/ ThinkFails(t) \/ SaveIcp(t) \/ \E s \in Session : SaveLoad(t, s)
    PROVE  /\ pc' = [pc EXCEPT ![t] = pc'[t]] /\ pc'[t] \in {"idle", "saving"}
           /\ \A u \in Turn \ {t} : turn'[u] = turn[u]
           /\ DOMAIN turn' = Turn /\ DOMAIN turn'[t] = TurnFields
           /\ turn'[t].session = None /\ ~turn'[t].new /\ turn'[t].new \in BOOLEAN /\ DOMAIN turn'[t].row = RowFields
           /\ turn'[t].read = 0 /\ turn'[t].seq = 0 /\ turn'[t].result = NoSession
           /\ sess' = sess /\ log' = log /\ runs' = runs /\ stale' = stale
<1>1. CASE InsertConflict(t) \/ ThinkFails(t) \/ SaveIcp(t)
  <2>1. /\ pc' = [pc EXCEPT ![t] = "idle"] /\ turn' = [turn EXCEPT ![t] = NoTurn]
        /\ sess' = sess /\ log' = log /\ runs' = runs /\ stale' = stale
    BY <1>1 DEF InsertConflict, ThinkFails, SaveIcp, End, Goto
  <2>2. DOMAIN turn' = Turn /\ turn'[t] = NoTurn /\ \A u \in Turn \ {t} : turn'[u] = turn[u]
    BY <2>1 DEF ChatTyped
  <2>3. pc'[t] = "idle"
    BY <2>1 DEF ChatTyped
  <2> QED
    BY <2>1, <2>2, <2>3, NoTurnIs
<1>2. CASE \E s \in Session : SaveLoad(t, s)
  <2>1. PICK s \in Session : SaveLoad(t, s)
    BY <1>2
  <2> DEFINE work == [NoTurn EXCEPT !.row = sess[s]]
  <2>2. /\ DOMAIN work = TurnFields /\ work.session = None /\ ~work.new /\ work.new \in BOOLEAN /\ work.row = sess[s]
        /\ work.read = 0 /\ work.seq = 0 /\ work.result = NoSession
    BY NoTurnIs DEF TurnFields
  <2> HIDE DEF work
  <2>3. /\ pc' = [pc EXCEPT ![t] = "saving"] /\ turn' = [turn EXCEPT ![t] = work]
        /\ sess' = sess /\ log' = log /\ runs' = runs /\ stale' = stale
    BY <2>1 DEF SaveLoad, Begin, work
  <2>4. DOMAIN turn' = Turn /\ turn'[t] = work /\ \A u \in Turn \ {t} : turn'[u] = turn[u]
    BY <2>3 DEF ChatTyped
  <2>5. DOMAIN sess[s] = RowFields /\ pc'[t] = "saving"
    BY <2>3 DEF ChatTyped, TypedSession
  <2> QED
    BY <2>2, <2>3, <2>4, <2>5
<1> QED
  BY <1>1, <1>2

LEMMA CommitIs ==
    ASSUME ChatTyped, NEW t \in Turn, Commit(t), NEW s, s = turn[t].session
    PROVE  /\ s \in Session /\ pc[t] = "replied" /\ pc' = [pc EXCEPT ![t] = "idle"]
           /\ turn' = [turn EXCEPT ![t] = NoTurn]
           /\ DOMAIN sess' = Session /\ \A v \in Session \ {s} : sess'[v] = sess[v]
           /\ sess'[s] = IF turn[t].new THEN turn[t].result ELSE Written(sess[s], turn[t].row, turn[t].result)
           /\ DOMAIN log' = Session /\ \A v \in Session \ {s} : log'[v] = log[v]
           /\ IsSequence(log'[s]) /\ Len(log[s]) \in Nat /\ DOMAIN log[s] = 1 .. Len(log[s])
           /\ Len(log'[s]) = Len(log[s]) + 2 /\ DOMAIN log'[s] = 1 .. Len(log[s]) + 2
           /\ \A i \in 1 .. Len(log[s]) : log'[s][i] = log[s][i]
           /\ log'[s][Len(log[s]) + 1] = UserMessage(t) /\ log'[s][Len(log[s]) + 2] = Reply(t)
           /\ runs' = runs \cup Launched(t)
           /\ stale' = IF turn[t].read # Len(log[s]) THEN stale \cup {s} ELSE stale
<1>1. /\ pc[t] = "replied" /\ pc' = [pc EXCEPT ![t] = "idle"] /\ turn' = [turn EXCEPT ![t] = NoTurn]
      /\ sess' = [sess EXCEPT ![s] = IF turn[t].new THEN turn[t].result
                                     ELSE Written(sess[s], turn[t].row, turn[t].result)]
      /\ log' = [log EXCEPT ![s] = log[s] \o <<UserMessage(t), Reply(t)>>]
      /\ runs' = runs \cup Launched(t)
      /\ stale' = IF turn[t].read # Len(log[s]) THEN stale \cup {s} ELSE stale
  BY DEF Commit, End, Goto
<1>2. s \in Session /\ IsSequence(log[s])
  BY <1>1 DEF ChatTyped, TypedTurn, TypedSession
<1>3. /\ DOMAIN sess' = Session /\ \A v \in Session \ {s} : sess'[v] = sess[v]
      /\ sess'[s] = IF turn[t].new THEN turn[t].result ELSE Written(sess[s], turn[t].row, turn[t].result)
  BY <1>1, <1>2 DEF ChatTyped
<1>4. /\ DOMAIN log' = Session /\ \A v \in Session \ {s} : log'[v] = log[v]
      /\ log'[s] = log[s] \o <<UserMessage(t), Reply(t)>>
  BY <1>1, <1>2 DEF ChatTyped
<1> DEFINE q == log[s]
           a == UserMessage(t)
           b == Reply(t)
<1>5. /\ IsSequence(q \o <<a, b>>) /\ Len(q) \in Nat /\ DOMAIN q = 1 .. Len(q)
      /\ Len(q \o <<a, b>>) = Len(q) + 2 /\ DOMAIN (q \o <<a, b>>) = 1 .. Len(q) + 2
      /\ \A i \in 1 .. Len(q) : (q \o <<a, b>>)[i] = q[i]
      /\ (q \o <<a, b>>)[Len(q) + 1] = a /\ (q \o <<a, b>>)[Len(q) + 2] = b
  <2> HIDE DEF q, a, b
  <2>1. IsSequence(q)
    BY <1>2 DEF q
  <2> QED
    BY <2>1, AddTwo
<1> QED
  BY <1>1, <1>2, <1>3, <1>4, <1>5

LEMMA CreateIs ==
    ASSUME ChatTyped, NEW s \in Session, NEW parent, CreateSession(s, parent)
    PROVE  /\ ~sess[s].exists /\ \A t \in Turn : turn[t].session # s
           /\ DOMAIN sess' = Session /\ \A v \in Session \ {s} : sess'[v] = sess[v]
           /\ sess'[s] = Seeded(parent)
           /\ pc' = pc /\ turn' = turn /\ log' = log /\ runs' = runs /\ stale' = stale
  BY DEF CreateSession, ChatTyped

LEMMA InsertIs ==
    ASSUME NEW t \in Turn, Insert(t), ChatTyped
    PROVE  /\ pc[t] = "numbered" /\ pc' = [pc EXCEPT ![t] = "thinking"] /\ ~Held(t) /\ ~Taken(t)
           /\ DOMAIN turn' = Turn /\ \A u \in Turn : turn'[u] = turn[u]
           /\ sess' = sess /\ log' = log /\ runs' = runs /\ stale' = stale
  BY DEF Insert, Goto, ChatTyped

\* The next number of a whole log.
LEMMA NextSeqIs ==
    ASSUME ChatTyped, NumberInv, NEW s \in Session
    PROVE  NextSeq(s) = Len(log[s]) + 1 /\ Len(log[s]) \in Nat
<1>1. IsSequence(log[s])
  BY DEF ChatTyped, TypedSession
<1>2. log[s] = << >> <=> Len(log[s]) = 0
  BY <1>1 DEF IsSequence
<1>3. Len(log[s]) \in Nat
  BY <1>1, AddTwo
<1>4. Len(log[s]) # 0 => Last(log[s]).seq = Len(log[s])
  BY <1>3 DEF NumberInv, Last
<1> QED
  BY <1>2, <1>3, <1>4 DEF NextSeq

-----------------------------------------------------------------------------
(* The invariant. *)

\* Steps that touch one turn, and those that touch one session too.
LEMMA TurnTyped ==
    ASSUME ChatTyped, NEW t \in Turn, \A u \in Turn \ {t} : turn'[u] = turn[u] /\ pc'[u] = pc[u],
           pc' \in [Turn -> {"idle", "loaded", "numbered", "thinking", "replied", "saving"}],
           DOMAIN turn' = Turn, TypedTurn(t)', sess' = sess, log' = log
    PROVE  ChatTyped'
<1>1. \A u \in Turn : TypedTurn(u)'
  BY DEF ChatTyped, TypedTurn
<1>2. \A s \in Session : TypedSession(s)'
  BY DEF ChatTyped, TypedSession
<1> QED
  BY <1>1, <1>2 DEF ChatTyped

LEMMA TypedStep == ChatTyped /\ NumberInv /\ [Next]_vars => ChatTyped'
<1> SUFFICES ASSUME ChatTyped, NumberInv, [Next]_vars PROVE ChatTyped'
  OBVIOUS
<1>p. DOMAIN pc = Turn /\ \A s \in Session : DOMAIN sess[s] = RowFields /\ Len(log[s]) \in Nat
  BY AddTwo DEF ChatTyped, TypedSession
<1>n. /\ DOMAIN NoTurn = TurnFields /\ DOMAIN NoSession = RowFields /\ ~NoSession.exists /\ NoSession.exists \in BOOLEAN
      /\ NoTurn.session = None /\ ~NoTurn.new /\ NoTurn.new \in BOOLEAN /\ NoTurn.row = NoSession /\ NoTurn.read = 0
      /\ NoTurn.seq = 0 /\ NoTurn.result = NoSession
  BY NoTurnIs
<1>1. ASSUME NEW s \in Session, NEW parent, CreateSession(s, parent) PROVE ChatTyped'
  <2>1. \A v \in Session : TypedSession(v)'
    <3>1. TypedSession(s)'
      <4>1. sess'[s] = Seeded(parent) /\ log'[s] = log[s]
        BY <1>1, CreateIs
      <4>2. DOMAIN Seeded(parent) = RowFields /\ Seeded(parent).exists /\ Seeded(parent).exists \in BOOLEAN
        BY SeededIs
      <4> QED
        BY <4>1, <4>2 DEF ChatTyped, TypedSession
    <3>2. ASSUME NEW v \in Session \ {s} PROVE TypedSession(v)'
      BY <1>1, CreateIs DEF ChatTyped, TypedSession
    <3> QED
      BY <3>1, <3>2
  <2>2. \A t \in Turn : TypedTurn(t)'
    BY <1>1, CreateIs DEF ChatTyped, TypedTurn
  <2> QED
    BY <1>1, <2>1, <2>2, CreateIs DEF ChatTyped
<1>2. ASSUME NEW t \in Turn, NEW s \in Session, NEW parent, NEW text,
             CreateWithMessage(t, s, parent, text) \/ PostMessage(t, s, text)
      PROVE  ChatTyped'
  <2>1. /\ pc[t] = "idle" /\ pc' = [pc EXCEPT ![t] = "loaded"]
        /\ \A u \in Turn \ {t} : turn'[u] = turn[u]
        /\ DOMAIN turn' = Turn /\ DOMAIN turn'[t] = TurnFields
        /\ turn'[t].session = s /\ turn'[t].result = NoSession /\ turn'[t].seq = 0 /\ turn'[t].new \in BOOLEAN
        /\ \/ turn'[t].new /\ turn'[t].row = Seeded(parent) /\ turn'[t].read = 0
           \/ ~turn'[t].new /\ turn'[t].row = sess[s] /\ turn'[t].read = Len(log[s])
        /\ sess' = sess /\ log' = log
    BY <1>2, LoadIs
  <2>s. DOMAIN Seeded(parent) = RowFields
    BY SeededIs
  <2>2. DOMAIN turn'[t].row = RowFields /\ turn'[t].read \in Nat /\ turn'[t].new \in BOOLEAN
    BY <1>p, <2>s, <2>1
  <2>3. TypedTurn(t)'
    BY <1>p, <1>n, <2>1, <2>2 DEF TypedTurn
  <2>4. pc' \in [Turn -> {"idle", "loaded", "numbered", "thinking", "replied", "saving"}]
    BY <2>1 DEF ChatTyped
  <2> QED
    BY <1>p, <2>1, <2>3, <2>4, TurnTyped
<1>3. ASSUME NEW t \in Turn, Number(t) PROVE ChatTyped'
  <2>1. /\ pc[t] = "loaded" /\ pc' = [pc EXCEPT ![t] = "numbered"]
        /\ \A u \in Turn \ {t} : turn'[u] = turn[u]
        /\ DOMAIN turn' = Turn /\ DOMAIN turn'[t] = TurnFields
        /\ turn'[t].seq = NextSeq(turn[t].session)
        /\ turn'[t].session = turn[t].session /\ turn'[t].new = turn[t].new /\ turn'[t].row = turn[t].row
        /\ turn'[t].read = turn[t].read /\ turn'[t].result = turn[t].result
        /\ sess' = sess /\ log' = log
    BY <1>3, NumberIs
  <2>2. TypedTurn(t)
    BY DEF ChatTyped
  <2>3. turn[t].session \in Session
    BY <2>1, <2>2 DEF TypedTurn
  <2>4. TypedTurn(t)'
    BY <1>p, <2>1, <2>2, <2>3, NextSeqIs DEF TypedTurn
  <2>5. pc' \in [Turn -> {"idle", "loaded", "numbered", "thinking", "replied", "saving"}]
    BY <2>1 DEF ChatTyped
  <2> QED
    BY <1>p, <2>1, <2>4, <2>5, TurnTyped
<1>4. ASSUME NEW t \in Turn, Insert(t) PROVE ChatTyped'
  <2>1. /\ pc[t] = "numbered" /\ pc' = [pc EXCEPT ![t] = "thinking"]
        /\ DOMAIN turn' = Turn /\ \A u \in Turn : turn'[u] = turn[u]
        /\ sess' = sess /\ log' = log
    BY <1>4, InsertIs
  <2>2. TypedTurn(t)
    BY DEF ChatTyped
  <2>3. TypedTurn(t)'
    BY <1>p, <2>1, <2>2 DEF TypedTurn
  <2>4. pc' \in [Turn -> {"idle", "loaded", "numbered", "thinking", "replied", "saving"}]
    BY <2>1 DEF ChatTyped
  <2> QED
    BY <1>p, <2>1, <2>3, <2>4, TurnTyped
<1>5. ASSUME NEW t \in Turn, Think(t) PROVE ChatTyped'
  <2>1. /\ pc[t] = "thinking" /\ pc' = [pc EXCEPT ![t] = "replied"]
        /\ \A u \in Turn \ {t} : turn'[u] = turn[u]
        /\ DOMAIN turn' = Turn /\ DOMAIN turn'[t] = TurnFields
        /\ turn'[t].seq = turn[t].seq
        /\ turn'[t].session = turn[t].session /\ turn'[t].new = turn[t].new /\ turn'[t].row = turn[t].row
        /\ turn'[t].read = turn[t].read
        /\ DOMAIN turn'[t].result = RowFields /\ turn'[t].result.exists \in BOOLEAN
        /\ sess' = sess /\ log' = log
    BY <1>5, ThinkIs DEF Decided
  <2>2. TypedTurn(t)
    BY DEF ChatTyped
  <2>3. TypedTurn(t)'
    BY <1>p, <2>1, <2>2 DEF TypedTurn
  <2>4. pc' \in [Turn -> {"idle", "loaded", "numbered", "thinking", "replied", "saving"}]
    BY <2>1 DEF ChatTyped
  <2> QED
    BY <1>p, <2>1, <2>3, <2>4, TurnTyped
<1>6. ASSUME NEW t \in Turn,
             InsertConflict(t) \/ ThinkFails(t) \/ SaveIcp(t) \/ \E s \in Session : SaveLoad(t, s)
      PROVE  ChatTyped'
  <2>1. /\ pc' = [pc EXCEPT ![t] = pc'[t]] /\ pc'[t] \in {"idle", "saving"}
        /\ \A u \in Turn \ {t} : turn'[u] = turn[u]
        /\ DOMAIN turn' = Turn /\ DOMAIN turn'[t] = TurnFields
        /\ turn'[t].session = None /\ ~turn'[t].new /\ turn'[t].new \in BOOLEAN /\ DOMAIN turn'[t].row = RowFields
        /\ turn'[t].read = 0 /\ turn'[t].seq = 0 /\ turn'[t].result = NoSession
        /\ sess' = sess /\ log' = log
    BY <1>6, RestIs
  <2>2. TypedTurn(t)'
    <3>1. turn'[t].result.exists \in BOOLEAN
      BY <1>n, <2>1
    <3>2. DOMAIN turn'[t].result = RowFields
      BY <1>n, <2>1
    <3>3. turn'[t].read \in Nat /\ turn'[t].seq \in Nat /\ turn'[t].new \in BOOLEAN
      BY <1>n, <2>1
    <3>4. pc'[t] \in {"idle", "saving"} => turn'[t].session = None
      BY <1>n, <2>1
    <3>5. pc'[t] \notin {"idle", "saving"} => turn'[t].session \in Session
      BY <1>n, <2>1
    <3> QED
      BY <2>1, <3>1, <3>2, <3>3, <3>4, <3>5 DEF TypedTurn
  <2>3. pc' \in [Turn -> {"idle", "loaded", "numbered", "thinking", "replied", "saving"}]
    BY <2>1 DEF ChatTyped
  <2> QED
    BY <1>p, <2>1, <2>2, <2>3, TurnTyped
<1>7. ASSUME NEW t \in Turn, Commit(t) PROVE ChatTyped'
  <2> DEFINE s == turn[t].session
  <2>1. /\ s \in Session /\ pc[t] = "replied" /\ pc' = [pc EXCEPT ![t] = "idle"]
        /\ turn' = [turn EXCEPT ![t] = NoTurn]
        /\ DOMAIN sess' = Session /\ \A v \in Session \ {s} : sess'[v] = sess[v]
        /\ sess'[s] = IF turn[t].new THEN turn[t].result ELSE Written(sess[s], turn[t].row, turn[t].result)
        /\ DOMAIN log' = Session /\ \A v \in Session \ {s} : log'[v] = log[v]
        /\ IsSequence(log'[s])
    BY <1>7, CommitIs
  <2>2. TypedTurn(t) /\ TypedSession(s)
    BY <2>1 DEF ChatTyped
  <2>3. DOMAIN sess'[s] = RowFields /\ sess'[s].exists \in BOOLEAN
    BY <2>1, <2>2 DEF Written, TypedTurn, TypedSession, RowFields
  <2>4. \A v \in Session : TypedSession(v)'
    BY <2>1, <2>3 DEF ChatTyped, TypedSession
  <2>5. turn'[t] = NoTurn /\ DOMAIN turn' = Turn /\ \A u \in Turn \ {t} : turn'[u] = turn[u] /\ pc'[u] = pc[u]
    BY <2>1 DEF ChatTyped
  <2>6. TypedTurn(t)'
    BY <1>p, <1>n, <2>1, <2>5 DEF TypedTurn
  <2>7. \A u \in Turn : TypedTurn(u)'
    BY <2>5, <2>6 DEF ChatTyped, TypedTurn
  <2>8. pc' \in [Turn -> {"idle", "loaded", "numbered", "thinking", "replied", "saving"}]
    BY <2>1 DEF ChatTyped
  <2> QED
    BY <2>1, <2>4, <2>5, <2>7, <2>8 DEF ChatTyped
<1>8. CASE UNCHANGED vars
  BY <1>8 DEF vars, ChatTyped, TypedTurn, TypedSession
<1> QED
  BY <1>1, <1>2, <1>3, <1>4, <1>5, <1>6, <1>7, <1>8 DEF Next, Step

\* The log stays, and no turn takes a number.
LEMMA NumbersStay ==
    ASSUME NumberInv, log' = log,
           \A u \in Turn : Inserted(u)' => /\ Inserted(u) /\ turn'[u].session = turn[u].session
                                           /\ turn'[u].seq = turn[u].seq,
           \A u \in Turn : pc'[u] = "numbered" => /\ pc[u] = "numbered" /\ turn'[u].session = turn[u].session
                                                  /\ turn'[u].seq = turn[u].seq
    PROVE  NumberInv'
<1>1. \A u \in Turn : Inserted(u)' => turn'[u].seq = Len(log'[turn'[u].session]) + 1
  BY DEF NumberInv
<1>2. \A u, v \in Turn : Inserted(u)' /\ Inserted(v)' /\ turn'[u].session = turn'[v].session => u = v
  BY DEF NumberInv
<1>3. \A u \in Turn : pc'[u] = "numbered" =>
         turn'[u].seq >= 1 /\ turn'[u].seq <= Len(log'[turn'[u].session]) + 1
  BY DEF NumberInv
<1> QED
  BY <1>1, <1>2, <1>3 DEF NumberInv

LEMMA Parity == ASSUME NEW n \in Nat, n % 2 = 0 PROVE (n + 1) % 2 = 1 /\ (n + 2) % 2 = 0
  OBVIOUS

LEMMA NumberStep == ChatTyped /\ NumberInv /\ [Next]_vars => NumberInv'
<1> SUFFICES ASSUME ChatTyped, NumberInv, [Next]_vars PROVE NumberInv'
  OBVIOUS
<1>p. /\ DOMAIN pc = Turn
      /\ \A t \in Turn : pc[t] \notin {"idle", "saving"} => turn[t].session \in Session
      /\ \A t \in Turn : turn[t].seq \in Nat
  BY DEF ChatTyped, TypedTurn
<1>1. ASSUME NEW s \in Session, NEW parent, CreateSession(s, parent) PROVE NumberInv'
  <2>1. pc' = pc /\ turn' = turn /\ log' = log
    BY <1>1, CreateIs
  <2> QED
    BY <2>1, NumbersStay DEF Inserted
<1>2. ASSUME NEW t \in Turn, NEW s \in Session, NEW parent, NEW text,
             CreateWithMessage(t, s, parent, text) \/ PostMessage(t, s, text)
      PROVE  NumberInv'
  <2>1. /\ pc' = [pc EXCEPT ![t] = "loaded"] /\ \A u \in Turn \ {t} : turn'[u] = turn[u]
        /\ log' = log
    BY <1>2, LoadIs
  <2> QED
    BY <1>p, <2>1, NumbersStay DEF Inserted
<1>3. ASSUME NEW t \in Turn, Number(t) PROVE NumberInv'
  <2> DEFINE s == turn[t].session
  <2>1. /\ pc[t] = "loaded" /\ pc' = [pc EXCEPT ![t] = "numbered"]
        /\ \A u \in Turn \ {t} : turn'[u] = turn[u]
        /\ turn'[t].seq = NextSeq(s) /\ turn'[t].session = s /\ log' = log
    BY <1>3, NumberIs
  <2>2. s \in Session
    BY <1>p, <2>1
  <2>3. turn'[t].seq = Len(log[s]) + 1 /\ Len(log[s]) \in Nat
    BY <2>1, <2>2, NextSeqIs
  <2>4. \A u \in Turn : Inserted(u)' => Inserted(u) /\ turn'[u] = turn[u]
    BY <1>p, <2>1 DEF Inserted
  <2>5. \A u \in Turn \ {t} : pc'[u] = pc[u]
    BY <1>p, <2>1
  <2>6. \A u \in Turn : pc'[u] = "numbered" =>
           turn'[u].seq >= 1 /\ turn'[u].seq <= Len(log'[turn'[u].session]) + 1
    <3>1. turn'[t].seq >= 1 /\ turn'[t].seq <= Len(log'[turn'[t].session]) + 1
      BY <2>1, <2>3
    <3>2. \A u \in Turn \ {t} : pc'[u] = "numbered" =>
             turn'[u].seq >= 1 /\ turn'[u].seq <= Len(log'[turn'[u].session]) + 1
      BY <2>1, <2>5 DEF NumberInv
    <3> QED
      BY <3>1, <3>2
  <2>7. \A u \in Turn : Inserted(u)' => turn'[u].seq = Len(log'[turn'[u].session]) + 1
    BY <2>1, <2>4 DEF NumberInv
  <2>8. \A u, v \in Turn : Inserted(u)' /\ Inserted(v)' /\ turn'[u].session = turn'[v].session => u = v
    BY <2>4 DEF NumberInv
  <2> QED
    BY <2>1, <2>6, <2>7, <2>8 DEF NumberInv
<1>4. ASSUME NEW t \in Turn, Insert(t) PROVE NumberInv'
  <2> DEFINE s == turn[t].session
  <2>1. /\ pc[t] = "numbered" /\ pc' = [pc EXCEPT ![t] = "thinking"] /\ ~Held(t) /\ ~Taken(t)
        /\ \A u \in Turn : turn'[u] = turn[u]
        /\ log' = log
    BY <1>4, InsertIs
  <2>2. s \in Session
    BY <1>p, <2>1
  <2>3. IsSequence(log[s]) /\ DOMAIN log[s] = 1 .. Len(log[s]) /\ Len(log[s]) \in Nat
    BY <2>2, AddTwo DEF ChatTyped, TypedSession
  <2>4. turn[t].seq = Len(log[s]) + 1
    <3>1. turn[t].seq >= 1 /\ turn[t].seq <= Len(log[s]) + 1 /\ turn[t].seq \in Nat
      BY <1>p, <2>1 DEF NumberInv
    <3>2. turn[t].seq \notin 1 .. Len(log[s])
      BY <2>1, <2>2, <2>3 DEF Taken, NumberInv
    <3> QED
      BY <2>3, <3>1, <3>2
  <2>5. \A u \in Turn \ {t} : Inserted(u) => turn[u].session # s
    BY <2>1, <2>4 DEF Held, NumberInv, Inserted
  <2>6. \A u \in Turn \ {t} : pc'[u] = pc[u]
    BY <1>p, <2>1
  <2>7. \A u \in Turn \ {t} : Inserted(u)' => Inserted(u)
    BY <2>6 DEF Inserted
  <2>8. pc'[t] = "thinking"
    BY <1>p, <2>1
  <2>9. \A u \in Turn : pc'[u] = "numbered" =>
           turn'[u].seq >= 1 /\ turn'[u].seq <= Len(log'[turn'[u].session]) + 1
    BY <2>1, <2>6, <2>8 DEF NumberInv
  <2>10. \A u \in Turn : Inserted(u)' => turn'[u].seq = Len(log'[turn'[u].session]) + 1
    BY <2>1, <2>4, <2>7 DEF NumberInv
  <2>11. \A u, v \in Turn : Inserted(u)' /\ Inserted(v)' /\ turn'[u].session = turn'[v].session => u = v
    BY <2>1, <2>5, <2>7 DEF NumberInv
  <2> QED
    BY <2>1, <2>9, <2>10, <2>11 DEF NumberInv
<1>5. ASSUME NEW t \in Turn, Think(t) PROVE NumberInv'
  <2>1. /\ pc[t] = "thinking" /\ pc' = [pc EXCEPT ![t] = "replied"]
        /\ \A u \in Turn \ {t} : turn'[u] = turn[u]
        /\ turn'[t].seq = turn[t].seq /\ turn'[t].session = turn[t].session
        /\ log' = log
    BY <1>5, ThinkIs
  <2> QED
    BY <1>p, <2>1, NumbersStay DEF Inserted
<1>6. ASSUME NEW t \in Turn,
             InsertConflict(t) \/ ThinkFails(t) \/ SaveIcp(t) \/ \E s \in Session : SaveLoad(t, s)
      PROVE  NumberInv'
  <2>1. /\ pc' = [pc EXCEPT ![t] = pc'[t]] /\ pc'[t] \in {"idle", "saving"}
        /\ \A u \in Turn \ {t} : turn'[u] = turn[u]
        /\ log' = log
    BY <1>6, RestIs
  <2> QED
    BY <1>p, <2>1, NumbersStay DEF Inserted
<1>7. ASSUME NEW t \in Turn, Commit(t) PROVE NumberInv'
  <2> DEFINE s == turn[t].session
             n == Len(log[s])
  <2>1. /\ s \in Session /\ pc[t] = "replied" /\ pc' = [pc EXCEPT ![t] = "idle"]
        /\ turn' = [turn EXCEPT ![t] = NoTurn]
        /\ \A v \in Session \ {s} : log'[v] = log[v]
        /\ n \in Nat /\ Len(log'[s]) = n + 2
        /\ \A i \in 1 .. n : log'[s][i] = log[s][i]
        /\ log'[s][n + 1] = UserMessage(t) /\ log'[s][n + 2] = Reply(t)
    BY <1>7, CommitIs
  <2>2. turn[t].seq = n + 1 /\ n % 2 = 0 /\ \A u \in Turn \ {t} : Inserted(u) => turn[u].session # s
    BY <2>1 DEF NumberInv, Inserted
  <2>3. \A u \in Turn \ {t} : pc'[u] = pc[u] /\ turn'[u] = turn[u]
    BY <1>p, <2>1 DEF ChatTyped
  <2>4. pc'[t] = "idle"
    BY <1>p, <2>1
  <2>5. (\A v \in Session : Len(log[v]) % 2 = 0)'
    <3>1. Len(log'[s]) % 2 = 0
      BY <2>1, <2>2, Parity
    <3>2. \A v \in Session \ {s} : Len(log'[v]) % 2 = 0
      BY <2>1 DEF NumberInv
    <3> QED
      BY <3>1, <3>2
  <2>6. \A i \in 1 .. n + 2 : /\ log'[s][i].seq = i
                              /\ log'[s][i].role = IF i % 2 = 1 THEN "user" ELSE "assistant"
    <3>1. UserMessage(t).seq = n + 1 /\ UserMessage(t).role = "user"
      BY <2>2 DEF UserMessage
    <3>2. Reply(t).seq = n + 2 /\ Reply(t).role = "assistant"
      BY <2>1, <2>2 DEF Reply
    <3>3. (n + 1) % 2 = 1 /\ (n + 2) % 2 = 0
      BY <2>1, <2>2, Parity
    <3>4. ASSUME NEW i \in 1 .. n PROVE /\ log'[s][i].seq = i
                                       /\ log'[s][i].role = IF i % 2 = 1 THEN "user" ELSE "assistant"
      <4>1. log[s][i].seq = i /\ log[s][i].role = IF i % 2 = 1 THEN "user" ELSE "assistant"
        BY <2>1 DEF NumberInv
      <4>2. log'[s][i] = log[s][i]
        BY <2>1
      <4> QED
        BY <4>1, <4>2
    <3>5. \A i \in 1 .. n + 2 : i \in 1 .. n \/ i = n + 1 \/ i = n + 2
      BY <2>1
    <3>6. /\ log'[s][n + 1].seq = n + 1 /\ log'[s][n + 1].role = "user"
          /\ log'[s][n + 2].seq = n + 2 /\ log'[s][n + 2].role = "assistant"
      BY <2>1, <3>1, <3>2
    <3> HIDE DEF n, s
    <3> SUFFICES ASSUME NEW i \in 1 .. n + 2
                 PROVE  /\ log'[s][i].seq = i
                        /\ log'[s][i].role = IF i % 2 = 1 THEN "user" ELSE "assistant"
      OBVIOUS
    <3>7. CASE i \in 1 .. n
      BY <3>4, <3>7
    <3>8. CASE i = n + 1
      BY <3>3, <3>6, <3>8
    <3>9. CASE i = n + 2
      BY <3>3, <3>6, <3>9
    <3> QED
      BY <3>5, <3>7, <3>8, <3>9
  <2>7. (\A v \in Session : \A i \in 1 .. Len(log[v]) :
           /\ log[v][i].seq = i
           /\ log[v][i].role = IF i % 2 = 1 THEN "user" ELSE "assistant")'
    <3>1. Len(log'[s]) = n + 2
      BY <2>1
    <3>2. ASSUME NEW v \in Session \ {s}
          PROVE  \A i \in 1 .. Len(log'[v]) :
                    /\ log'[v][i].seq = i
                    /\ log'[v][i].role = IF i % 2 = 1 THEN "user" ELSE "assistant"
      BY <2>1 DEF NumberInv
    <3> HIDE DEF n, s
    <3>3. ASSUME NEW v \in Session
          PROVE  \A i \in 1 .. Len(log'[v]) :
                    /\ log'[v][i].seq = i
                    /\ log'[v][i].role = IF i % 2 = 1 THEN "user" ELSE "assistant"
      <4>1. CASE v = s
        BY <2>6, <3>1, <4>1
      <4>2. CASE v # s
        BY <3>2, <4>2
      <4> QED
        BY <4>1, <4>2
    <3> QED
      BY <3>3
  <2>8. \A u \in Turn : pc'[u] = "numbered" =>
           turn'[u].seq >= 1 /\ turn'[u].seq <= Len(log'[turn'[u].session]) + 1
    <3> SUFFICES ASSUME NEW u \in Turn, pc'[u] = "numbered"
                 PROVE  turn'[u].seq >= 1 /\ turn'[u].seq <= Len(log'[turn'[u].session]) + 1
      OBVIOUS
    <3>1. u # t /\ pc[u] = "numbered" /\ turn'[u] = turn[u]
      BY <2>3, <2>4
    <3>2. turn[u].seq >= 1 /\ turn[u].seq <= Len(log[turn[u].session]) + 1 /\ turn[u].session \in Session
          /\ turn[u].seq \in Nat
      BY <1>p, <3>1 DEF NumberInv
    <3>3. CASE turn[u].session = s
      <4>1. turn[u].seq <= n + 1 /\ turn'[u].session = s
        BY <3>1, <3>2, <3>3
      <4> HIDE DEF n
      <4> QED
        BY <2>1, <3>1, <3>2, <4>1
    <3>4. CASE turn[u].session # s
      BY <2>1, <3>1, <3>2, <3>4
    <3> QED
      BY <3>3, <3>4
  <2>9. \A u \in Turn : Inserted(u)' =>
           /\ u # t /\ Inserted(u) /\ turn'[u] = turn[u] /\ log'[turn[u].session] = log[turn[u].session]
    BY <1>p, <2>1, <2>2, <2>3, <2>4 DEF Inserted
  <2>10. \A u \in Turn : Inserted(u)' => turn'[u].seq = Len(log'[turn'[u].session]) + 1
    BY <2>9 DEF NumberInv
  <2>11. \A u, v \in Turn : Inserted(u)' /\ Inserted(v)' /\ turn'[u].session = turn'[v].session => u = v
    BY <2>9 DEF NumberInv
  <2> QED
    BY <2>5, <2>7, <2>8, <2>10, <2>11 DEF NumberInv
<1>8. CASE UNCHANGED vars
  BY <1>8, NumbersStay DEF vars, Inserted
<1> QED
  BY <1>1, <1>2, <1>3, <1>4, <1>5, <1>6, <1>7, <1>8 DEF Next, Step

\* Sessions and log stay, and so does what the turns that are left work with.
LEMMA RowsStay ==
    ASSUME RowInv, sess' = sess, log' = log,
           \A u \in Turn : \/ turn'[u].session \notin Session
                           \/ /\ turn'[u].session = turn[u].session /\ turn'[u].new = turn[u].new
                              /\ turn'[u].row = turn[u].row /\ turn'[u].read = turn[u].read
    PROVE  RowInv'
<1>1. \A s \in Session : ~sess'[s].exists =>
         /\ log'[s] = << >>
         /\ \A t, u \in Turn : turn'[t].session = s /\ turn'[u].session = s => t = u
  BY DEF RowInv
<1>2. ASSUME NEW t \in Turn, turn'[t].session \in Session
      PROVE  /\ turn'[t].new => ~sess'[turn'[t].session].exists /\ turn'[t].read = 0
             /\ ~turn'[t].new =>
                   /\ sess'[turn'[t].session].exists
                   /\ turn'[t].read <= Len(log'[turn'[t].session])
                   /\ turn'[t].read = Len(log'[turn'[t].session]) => turn'[t].row = sess'[turn'[t].session]
  BY <1>2 DEF RowInv
<1> QED
  BY <1>1, <1>2 DEF RowInv

LEMMA RowStep == ChatTyped /\ RowInv /\ TalkInv /\ [Next]_vars => RowInv'
<1> SUFFICES ASSUME ChatTyped, RowInv, TalkInv, [Next]_vars PROVE RowInv'
  OBVIOUS
<1>p. /\ DOMAIN pc = Turn
      /\ \A s \in Session : Len(log[s]) \in Nat
      /\ \A t \in Turn : pc[t] \notin {"idle", "saving"} => turn[t].session \in Session
  BY AddTwo DEF ChatTyped, TypedTurn, TypedSession
<1>1. ASSUME NEW s \in Session, NEW parent, CreateSession(s, parent) PROVE RowInv'
  <2>1. /\ \A t \in Turn : turn[t].session # s
        /\ \A v \in Session \ {s} : sess'[v] = sess[v]
        /\ sess'[s].exists /\ turn' = turn /\ log' = log
    BY <1>1, CreateIs, SeededIs
  <2>2. (\A v \in Session : ~sess[v].exists =>
           /\ log[v] = << >>
           /\ \A t, u \in Turn : turn[t].session = v /\ turn[u].session = v => t = u)'
    BY <2>1 DEF RowInv
  <2>3. ASSUME NEW t \in Turn, turn[t].session \in Session
        PROVE  /\ turn[t].new => ~sess'[turn[t].session].exists /\ turn[t].read = 0
               /\ ~turn[t].new => /\ sess'[turn[t].session].exists
                                  /\ turn[t].read <= Len(log[turn[t].session])
                                  /\ turn[t].read = Len(log[turn[t].session])
                                        => turn[t].row = sess'[turn[t].session]
    <3>1. sess'[turn[t].session] = sess[turn[t].session]
      BY <2>1, <2>3
    <3> QED
      BY <2>3, <3>1 DEF RowInv
  <2> QED
    BY <2>1, <2>2, <2>3 DEF RowInv
<1>2. ASSUME NEW t \in Turn, NEW s \in Session, NEW parent, NEW text,
             CreateWithMessage(t, s, parent, text) \/ PostMessage(t, s, text)
      PROVE  RowInv'
  <2>1. /\ \A u \in Turn \ {t} : turn'[u] = turn[u]
        /\ turn'[t].session = s
        /\ \/ /\ turn'[t].new /\ turn'[t].row = Seeded(parent) /\ turn'[t].read = 0
              /\ ~sess[s].exists /\ \A u \in Turn : turn[u].session # s
           \/ /\ ~turn'[t].new /\ turn'[t].row = sess[s] /\ turn'[t].read = Len(log[s])
              /\ sess[s].exists
        /\ sess' = sess /\ log' = log
    BY <1>2, LoadIs
  <2>2. (\A v \in Session : ~sess[v].exists =>
           /\ log[v] = << >>
           /\ \A x, u \in Turn : turn[x].session = v /\ turn[u].session = v => x = u)'
    BY <2>1 DEF RowInv
  <2>3. /\ turn'[t].new => ~sess[s].exists /\ turn'[t].read = 0
        /\ ~turn'[t].new => /\ sess[s].exists /\ turn'[t].read <= Len(log[s])
                            /\ turn'[t].read = Len(log[s]) => turn'[t].row = sess[s]
    BY <1>p, <2>1
  <2>4. ASSUME NEW u \in Turn, turn'[u].session \in Session
        PROVE  /\ turn'[u].new => ~sess'[turn'[u].session].exists /\ turn'[u].read = 0
               /\ ~turn'[u].new =>
                     /\ sess'[turn'[u].session].exists
                     /\ turn'[u].read <= Len(log'[turn'[u].session])
                     /\ turn'[u].read = Len(log'[turn'[u].session]) => turn'[u].row = sess'[turn'[u].session]
    <3>1. CASE u = t
      BY <2>1, <2>3, <3>1
    <3>2. CASE u # t
      <4>1. turn'[u] = turn[u]
        BY <2>1, <3>2
      <4> QED
        BY <2>1, <2>4, <4>1 DEF RowInv
    <3> QED
      BY <3>1, <3>2
  <2> QED
    BY <2>2, <2>4 DEF RowInv
<1>3. ASSUME NEW t \in Turn, Number(t) PROVE RowInv'
  <2>1. /\ \A u \in Turn \ {t} : turn'[u] = turn[u]
        /\ turn'[t].session = turn[t].session /\ turn'[t].new = turn[t].new /\ turn'[t].row = turn[t].row
        /\ turn'[t].read = turn[t].read /\ sess' = sess /\ log' = log
    BY <1>3, NumberIs
  <2> QED
    BY <2>1, RowsStay
<1>4. ASSUME NEW t \in Turn, Insert(t) PROVE RowInv'
  <2>1. (\A u \in Turn : turn'[u] = turn[u]) /\ sess' = sess /\ log' = log
    BY <1>4, InsertIs
  <2> QED
    BY <2>1, RowsStay
<1>5. ASSUME NEW t \in Turn, Think(t) PROVE RowInv'
  <2>1. /\ \A u \in Turn \ {t} : turn'[u] = turn[u]
        /\ turn'[t].session = turn[t].session /\ turn'[t].new = turn[t].new /\ turn'[t].row = turn[t].row
        /\ turn'[t].read = turn[t].read /\ sess' = sess /\ log' = log
    BY <1>5, ThinkIs
  <2> QED
    BY <2>1, RowsStay
<1>6. ASSUME NEW t \in Turn,
             InsertConflict(t) \/ ThinkFails(t) \/ SaveIcp(t) \/ \E s \in Session : SaveLoad(t, s)
      PROVE  RowInv'
  <2>1. /\ \A u \in Turn \ {t} : turn'[u] = turn[u]
        /\ turn'[t].session = None /\ sess' = sess /\ log' = log
    BY <1>6, RestIs
  <2> QED
    BY <2>1, RowsStay, NoneAssumption
<1>7. ASSUME NEW t \in Turn, Commit(t) PROVE RowInv'
  <2> DEFINE s == turn[t].session
  <2>1. /\ s \in Session /\ pc[t] = "replied" /\ turn' = [turn EXCEPT ![t] = NoTurn]
        /\ \A v \in Session \ {s} : sess'[v] = sess[v] /\ log'[v] = log[v]
        /\ sess'[s] = IF turn[t].new THEN turn[t].result ELSE Written(sess[s], turn[t].row, turn[t].result)
        /\ Len(log'[s]) = Len(log[s]) + 2
    BY <1>7, CommitIs
  <2>2. turn'[t].session = None /\ \A u \in Turn \ {t} : turn'[u] = turn[u]
    BY <2>1, NoTurnIs DEF ChatTyped
  <2>3. turn[t].result.exists
    BY <2>1 DEF TalkInv, Decided
  <2>4. sess'[s].exists
    <3>1. CASE turn[t].new
      BY <2>1, <2>3, <3>1
    <3>2. CASE ~turn[t].new
      <4>1. sess[s].exists /\ DOMAIN sess[s] = RowFields
        BY <2>1, <3>2 DEF RowInv, ChatTyped, TypedSession
      <4>2. sess'[s] = Written(sess[s], turn[t].row, turn[t].result)
        BY <2>1, <3>2
      <4> QED
        BY <2>3, <4>1, <4>2 DEF Written, RowFields
    <3> QED
      BY <3>1, <3>2
  <2>5. ASSUME NEW v \in Session, ~sess'[v].exists
        PROVE  /\ log'[v] = << >>
               /\ \A x, u \in Turn : turn'[x].session = v /\ turn'[u].session = v => x = u
    <3>1. v # s
      BY <2>4, <2>5
    <3>2. sess'[v] = sess[v] /\ log'[v] = log[v]
      BY <2>1, <3>1
    <3> QED
      BY <2>2, <2>5, <3>2, NoneAssumption DEF RowInv
  <2>6. ASSUME NEW u \in Turn, turn'[u].session \in Session
        PROVE  /\ turn'[u].new => ~sess'[turn'[u].session].exists /\ turn'[u].read = 0
               /\ ~turn'[u].new =>
                     /\ sess'[turn'[u].session].exists
                     /\ turn'[u].read <= Len(log'[turn'[u].session])
                     /\ turn'[u].read = Len(log'[turn'[u].session]) => turn'[u].row = sess'[turn'[u].session]
    <3>1. u # t /\ turn'[u] = turn[u]
      BY <2>2, <2>6, NoneAssumption
    <3>2. CASE turn[u].session = s
      <4>1. sess[s].exists
        BY <2>1, <3>1, <3>2 DEF RowInv
      <4>2. ~turn[u].new /\ turn[u].read <= Len(log[s])
        BY <2>1, <3>2, <4>1 DEF RowInv
      <4>3. turn[u].read \in Nat /\ Len(log[s]) \in Nat
        BY <1>p, <2>1 DEF ChatTyped, TypedTurn
      <4>4. turn[u].read <= Len(log'[s]) /\ turn[u].read # Len(log'[s])
        <5> HIDE DEF s
        <5> QED
          BY <2>1, <4>2, <4>3
      <4> QED
        BY <2>4, <3>1, <3>2, <4>2, <4>4
    <3>3. CASE turn[u].session # s
      <4>1. sess'[turn[u].session] = sess[turn[u].session] /\ log'[turn[u].session] = log[turn[u].session]
        BY <2>1, <2>6, <3>1, <3>3
      <4> QED
        BY <2>6, <3>1, <4>1 DEF RowInv
    <3> QED
      BY <3>2, <3>3
  <2> QED
    BY <2>5, <2>6 DEF RowInv
<1>8. CASE UNCHANGED vars
  BY <1>8, RowsStay DEF vars
<1> QED
  BY <1>1, <1>2, <1>3, <1>4, <1>5, <1>6, <1>7, <1>8 DEF Next, Step

\* What was said and decided stays when sessions, log and runs do.
LEMMA TalkStays ==
    ASSUME TalkInv, sess' = sess, log' = log, runs' = runs, stale' = stale,
           \A u \in Turn : pc'[u] = "replied" =>
              Decided(turn'[u].row, turn'[u].text, turn'[u].seq = 1, turn'[u].result, turn'[u].action)
    PROVE  TalkInv'
<1>1. ProfileIsWhatWasSaid'
  BY DEF TalkInv, ProfileIsWhatWasSaid, NothingForgotten, MissingIsTrue, AskedBefore, Last
<1>2. (\A s \in Session : s \notin stale /\ sess[s].exists /\ log[s] # << >> =>
         log[s][Len(log[s])].slot = Question(sess[s]))'
  BY DEF TalkInv, Question
<1>3. (\A r \in runs : r.session \in Session /\ r.seq \in Nat /\ r.seq <= Len(log[r.session]))'
  BY DEF TalkInv
<1> QED
  BY <1>1, <1>2, <1>3 DEF TalkInv

\* TalkInv speaks of each session by itself.
TalkOf(s) ==
    s \notin stale =>
        /\ sess[s].exists /\ log[s] # << >> => log[s][Len(log[s])].slot = Question(sess[s])
        /\ sess[s].exists => sess[s].missing = MissingRequired(sess[s].icp, sess[s].target)
        /\ \A i \in DOMAIN log[s], slot \in ListSlot : log[s][i].role = "user" =>
              LET said == ExtractSlots(log[s][i].text, AskedBefore(s, i))[slot]
              IN  /\ said \subseteq sess[s].icp[slot]
                  /\ \A r \in runs : r.session = s /\ r.seq >= i => said \subseteq r.icp[slot]
        /\ \A r \in runs : r.session = s => MissingRequired(r.icp, r.target) = << >>

LEMMA TalkIsOfEach == ASSUME TalkInv, NEW s \in Session PROVE TalkOf(s)
  BY DEF TalkInv, TalkOf, ProfileIsWhatWasSaid, NothingForgotten, MissingIsTrue

LEMMA TalkTogether ==
    ASSUME \A s \in Session : TalkOf(s)',
           \A t \in Turn : pc'[t] = "replied" =>
              Decided(turn'[t].row, turn'[t].text, turn'[t].seq = 1, turn'[t].result, turn'[t].action),
           \A r \in runs' : r.session \in Session /\ r.seq \in Nat /\ r.seq <= Len(log'[r.session])
    PROVE  TalkInv'
<1>1. NothingForgotten' /\ MissingIsTrue'
  BY DEF TalkOf, NothingForgotten, MissingIsTrue, Question, Last
<1>2. (\A s \in Session : s \notin stale /\ sess[s].exists /\ log[s] # << >> =>
         log[s][Len(log[s])].slot = Question(sess[s]))'
  BY DEF TalkOf
<1> QED
  BY <1>1, <1>2 DEF TalkInv, ProfileIsWhatWasSaid

LEMMA CommitTalks ==
    ASSUME ChatTyped, NumberInv, RowInv, TalkInv, NEW t \in Turn, Commit(t), NEW s, s = turn[t].session
    PROVE  TalkOf(s)'
<1>n. PICK n : n = Len(log[s])
  OBVIOUS
<1> DEFINE row == turn[t].row
           result == turn[t].result
           text == turn[t].text
<1>1. /\ s \in Session /\ pc[t] = "replied"
      /\ sess'[s] = IF turn[t].new THEN result ELSE Written(sess[s], row, result)
      /\ n \in Nat /\ Len(log'[s]) = n + 2 /\ DOMAIN log'[s] = 1 .. n + 2 /\ DOMAIN log[s] = 1 .. n
      /\ \A i \in 1 .. n : log'[s][i] = log[s][i]
      /\ log'[s][n + 1] = UserMessage(t) /\ log'[s][n + 2] = Reply(t)
      /\ runs' = runs \cup Launched(t)
      /\ stale' = IF turn[t].read # n THEN stale \cup {s} ELSE stale
  <2>1. /\ s \in Session /\ pc[t] = "replied"
        /\ sess'[s] = IF turn[t].new THEN result ELSE Written(sess[s], row, result)
        /\ Len(log[s]) \in Nat /\ DOMAIN log[s] = 1 .. Len(log[s])
        /\ Len(log'[s]) = Len(log[s]) + 2 /\ DOMAIN log'[s] = 1 .. Len(log[s]) + 2
        /\ \A i \in 1 .. Len(log[s]) : log'[s][i] = log[s][i]
        /\ log'[s][Len(log[s]) + 1] = UserMessage(t) /\ log'[s][Len(log[s]) + 2] = Reply(t)
        /\ runs' = runs \cup Launched(t)
        /\ stale' = IF turn[t].read # Len(log[s]) THEN stale \cup {s} ELSE stale
    BY CommitIs
  <2> QED
    BY <1>n, <2>1
<1>2. Decided(row, text, turn[t].seq = 1, result, turn[t].action)
  BY <1>1 DEF TalkInv
<1>3. turn[t].seq = n + 1
  BY <1>n, <1>1 DEF NumberInv, Inserted
<1>4. DOMAIN result = RowFields /\ DOMAIN row = RowFields
  BY DEF ChatTyped, TypedTurn
<1> SUFFICES ASSUME s \notin stale' PROVE TalkOf(s)'
  BY DEF TalkOf
<1>5. turn[t].read = n /\ s \notin stale
  BY <1>1
<1>6. turn[t].new => n = 0
  BY <1>n, <1>1 DEF RowInv
<1>7. ~turn[t].new => row = sess[s] /\ sess[s].exists
  BY <1>n, <1>1, <1>5 DEF RowInv
<1>8. sess'[s].icp = result.icp /\ sess'[s].target = result.target /\ sess'[s].missing = result.missing
  BY <1>1, <1>4, <1>7, WrittenIsNew
<1>9. TalkOf(s)
  BY <1>1, TalkIsOfEach
\* What was said before is in the row, and so in the result.
<1>10. ASSUME NEW i \in 1 .. n, NEW slot \in ListSlot, log[s][i].role = "user"
       PROVE  ExtractSlots(log[s][i].text, AskedBefore(s, i))[slot] \subseteq result.icp[slot]
  <2>1. ~turn[t].new
    BY <1>1, <1>6, <1>10
  <2>2. ExtractSlots(log[s][i].text, AskedBefore(s, i))[slot] \subseteq row.icp[slot]
    BY <1>1, <1>5, <1>7, <1>9, <1>10, <2>1 DEF TalkOf
  <2>3. row.icp[slot] \subseteq result.icp[slot]
    BY <1>2 DEF Decided
  <2> QED
    BY <2>2, <2>3
\* The question the controller took the text to answer is the one in the log.
<1>11. Pending(row, n + 1 = 1) = IF n = 0 THEN None ELSE log[s][n].slot
  <2>1. CASE n = 0
    BY <2>1 DEF Pending
  <2>2. CASE n # 0
    <3>1. ~turn[t].new /\ log[s] # << >>
      BY <1>n, <1>1, <1>6, <2>2
    <3>2. log[s][n].slot = Question(row)
      BY <1>n, <1>5, <1>7, <1>9, <3>1 DEF TalkOf
    <3>3. (n + 1 = 1) = FALSE
      BY <1>1, <2>2
    <3> QED
      BY <2>2, <3>2, <3>3 DEF Pending, Question
  <2> QED
    BY <2>1, <2>2
<1>12. \A slot \in ListSlot : ExtractSlots(text, IF n = 0 THEN None ELSE log[s][n].slot)[slot] \subseteq result.icp[slot]
  BY <1>2, <1>3, <1>11 DEF Decided
<1>13. /\ \A i \in 1 .. n : AskedBefore(s, i)' = AskedBefore(s, i)
       /\ AskedBefore(s, n + 1)' = IF n = 0 THEN None ELSE log[s][n].slot
  <2>1. ASSUME NEW i \in 1 .. n PROVE AskedBefore(s, i)' = AskedBefore(s, i)
    <3>1. i # 1 => i - 1 \in 1 .. n
      BY <1>1
    <3> QED
      BY <1>1, <3>1 DEF AskedBefore
  <2>2. CASE n = 0
    BY <2>2 DEF AskedBefore
  <2>3. CASE n # 0
    <3>1. n \in 1 .. n /\ n + 1 # 1 /\ n + 1 - 1 = n
      BY <1>1, <2>3
    <3> QED
      BY <1>1, <2>3, <3>1 DEF AskedBefore
  <2> QED
    BY <2>1, <2>2, <2>3
<1>14. log'[s][Len(log'[s])].slot = Question(sess'[s])
  <2>1. log'[s][Len(log'[s])] = Reply(t)
    BY <1>1
  <2>2. Reply(t).slot = IF result.missing = << >> THEN None ELSE Head(result.missing)
    BY <1>2 DEF Reply, Decided
  <2>3. Question(sess'[s]) = IF result.missing = << >> THEN None ELSE Head(result.missing)
    BY <1>8 DEF Question
  <2> QED
    BY <2>1, <2>2, <2>3
<1>15. sess'[s].missing = MissingRequired(sess'[s].icp, sess'[s].target)
  BY <1>2, <1>8 DEF Decided
\* The run that is launched is of this message, and has what the session has.
<1>16. \A r \in Launched(t) : r.session = s /\ r.seq = n + 1 /\ r.icp = result.icp
                              /\ MissingRequired(r.icp, r.target) = << >>
  BY <1>2, <1>3 DEF Launched, Decided
<1>17. \A r \in runs : r.session = s => /\ MissingRequired(r.icp, r.target) = << >>
                                        /\ r.seq \in Nat /\ r.seq <= n
  BY <1>n, <1>1, <1>5, <1>9 DEF TalkOf, TalkInv
<1>18. ASSUME NEW i \in 1 .. n + 2, NEW slot \in ListSlot, log'[s][i].role = "user"
       PROVE  LET said == ExtractSlots(log'[s][i].text, AskedBefore(s, i)')[slot]
              IN  /\ said \subseteq result.icp[slot]
                  /\ \A r \in runs' : r.session = s /\ r.seq >= i => said \subseteq r.icp[slot]
  <2>1. i # n + 2
    BY <1>1, <1>18 DEF Reply
  <2>2. CASE i = n + 1
    <3>1. log'[s][i].text = text
      BY <1>1, <2>2 DEF UserMessage
    <3>2. ExtractSlots(log'[s][i].text, AskedBefore(s, i)')[slot] \subseteq result.icp[slot]
      BY <1>12, <1>13, <2>2, <3>1
    <3>3. \A r \in runs' : r.session = s /\ r.seq >= i => r.icp = result.icp
      BY <1>1, <1>16, <1>17, <2>2
    <3> QED
      BY <3>2, <3>3
  <2>3. CASE i \in 1 .. n
    <3>1. log'[s][i] = log[s][i] /\ AskedBefore(s, i)' = AskedBefore(s, i)
      BY <1>1, <1>13, <2>3
    <3>2. ExtractSlots(log[s][i].text, AskedBefore(s, i))[slot] \subseteq result.icp[slot]
      BY <1>10, <1>18, <2>3, <3>1
    <3>3. \A r \in runs : r.session = s /\ r.seq >= i =>
             ExtractSlots(log[s][i].text, AskedBefore(s, i))[slot] \subseteq r.icp[slot]
      BY <1>1, <1>5, <1>9, <1>18, <2>3, <3>1 DEF TalkOf
    <3> QED
      BY <1>1, <1>16, <3>1, <3>2, <3>3
  <2>4. i \in 1 .. n \/ i = n + 1
    BY <1>1, <2>1
  <2> HIDE DEF text, result
  <2> QED
    BY <2>2, <2>3, <2>4
<1>19. \A r \in runs' : r.session = s => MissingRequired(r.icp, r.target) = << >>
  BY <1>1, <1>16, <1>17
<1> QED
  BY <1>1, <1>8, <1>14, <1>15, <1>18, <1>19 DEF TalkOf

LEMMA TalkStep == ChatTyped /\ NumberInv /\ RowInv /\ TalkInv /\ [Next]_vars => TalkInv'
<1> SUFFICES ASSUME ChatTyped, NumberInv, RowInv, TalkInv, [Next]_vars PROVE TalkInv'
  OBVIOUS
<1>p. /\ DOMAIN pc = Turn
      /\ \A u \in Turn : pc[u] = "replied" =>
            Decided(turn[u].row, turn[u].text, turn[u].seq = 1, turn[u].result, turn[u].action)
      /\ \A r \in runs : r.session \in Session /\ r.seq \in Nat /\ r.seq <= Len(log[r.session])
  BY DEF ChatTyped, TalkInv
<1>1. ASSUME NEW s \in Session, NEW parent, CreateSession(s, parent) PROVE TalkInv'
  <2>1. /\ ~sess[s].exists
        /\ \A v \in Session \ {s} : sess'[v] = sess[v]
        /\ sess'[s] = Seeded(parent)
        /\ pc' = pc /\ turn' = turn /\ log' = log /\ runs' = runs /\ stale' = stale
    BY <1>1, CreateIs
  <2>2. Seeded(parent).missing = MissingRequired(Seeded(parent).icp, Seeded(parent).target)
    BY SeededIs
  <2>3. log[s] = << >> /\ DOMAIN log[s] = {}
    BY <2>1 DEF RowInv
  <2>4. TalkOf(s)'
    BY <2>1, <2>2, <2>3 DEF TalkOf, TalkInv, ProfileIsWhatWasSaid, NothingForgotten
  <2>5. ASSUME NEW v \in Session \ {s} PROVE TalkOf(v)'
    <3>1. TalkOf(v)
      BY TalkIsOfEach
    <3>2. sess'[v] = sess[v]
      BY <2>1
    <3> QED
      BY <2>1, <3>1, <3>2 DEF TalkOf, AskedBefore
  <2> QED
    BY <1>p, <2>1, <2>4, <2>5, TalkTogether
<1>2. ASSUME NEW t \in Turn, NEW s \in Session, NEW parent, NEW text,
             CreateWithMessage(t, s, parent, text) \/ PostMessage(t, s, text)
      PROVE  TalkInv'
  <2>1. /\ pc' = [pc EXCEPT ![t] = "loaded"] /\ \A u \in Turn \ {t} : turn'[u] = turn[u]
        /\ sess' = sess /\ log' = log /\ runs' = runs /\ stale' = stale
    BY <1>2, LoadIs
  <2> QED
    BY <1>p, <2>1, TalkStays
<1>3. ASSUME NEW t \in Turn, Number(t) PROVE TalkInv'
  <2>1. /\ pc' = [pc EXCEPT ![t] = "numbered"] /\ \A u \in Turn \ {t} : turn'[u] = turn[u]
        /\ sess' = sess /\ log' = log /\ runs' = runs /\ stale' = stale
    BY <1>3, NumberIs
  <2> QED
    BY <1>p, <2>1, TalkStays
<1>4. ASSUME NEW t \in Turn, Insert(t) PROVE TalkInv'
  <2>1. /\ pc' = [pc EXCEPT ![t] = "thinking"] /\ \A u \in Turn : turn'[u] = turn[u]
        /\ sess' = sess /\ log' = log /\ runs' = runs /\ stale' = stale
    BY <1>4, InsertIs
  <2> QED
    BY <1>p, <2>1, TalkStays
<1>5. ASSUME NEW t \in Turn, Think(t) PROVE TalkInv'
  <2>1. /\ pc' = [pc EXCEPT ![t] = "replied"] /\ \A u \in Turn \ {t} : turn'[u] = turn[u]
        /\ turn'[t].seq = turn[t].seq /\ turn'[t].text = turn[t].text /\ turn'[t].row = turn[t].row
        /\ Decided(turn[t].row, turn[t].text, turn[t].seq = 1, turn'[t].result, turn'[t].action)
        /\ sess' = sess /\ log' = log /\ runs' = runs /\ stale' = stale
    BY <1>5, ThinkIs
  <2> QED
    BY <1>p, <2>1, TalkStays
<1>6. ASSUME NEW t \in Turn,
             InsertConflict(t) \/ ThinkFails(t) \/ SaveIcp(t) \/ \E s \in Session : SaveLoad(t, s)
      PROVE  TalkInv'
  <2>1. /\ pc' = [pc EXCEPT ![t] = pc'[t]] /\ pc'[t] \in {"idle", "saving"}
        /\ \A u \in Turn \ {t} : turn'[u] = turn[u]
        /\ sess' = sess /\ log' = log /\ runs' = runs /\ stale' = stale
    BY <1>6, RestIs
  <2> QED
    BY <1>p, <2>1, TalkStays
<1>7. ASSUME NEW t \in Turn, Commit(t) PROVE TalkInv'
  <2>s. PICK s : s = turn[t].session
    OBVIOUS
  <2>1. /\ s \in Session /\ pc' = [pc EXCEPT ![t] = "idle"] /\ turn' = [turn EXCEPT ![t] = NoTurn]
        /\ \A v \in Session \ {s} : sess'[v] = sess[v] /\ log'[v] = log[v]
        /\ Len(log[s]) \in Nat /\ Len(log'[s]) = Len(log[s]) + 2
        /\ runs' = runs \cup Launched(t) /\ stale \subseteq stale'
        /\ pc[t] = "replied"
    BY <1>7, <2>s, CommitIs
  <2>2. \A r \in Launched(t) : r.session = s /\ r.seq = Len(log[s]) + 1
    BY <2>s, <2>1 DEF Launched, NumberInv, Inserted
  <2>3. \A u \in Turn : pc'[u] = "replied" => pc[u] = "replied" /\ turn'[u] = turn[u]
    BY <1>p, <2>1 DEF ChatTyped
  <2>4. ASSUME NEW r \in runs' PROVE r.session \in Session /\ r.seq \in Nat /\ r.seq <= Len(log'[r.session])
    <3>1. CASE r \in Launched(t)
      BY <2>1, <2>2, <3>1
    <3>2. CASE r \in runs
      <4>1. r.session \in Session /\ r.seq \in Nat /\ r.seq <= Len(log[r.session])
        BY <1>p, <3>2
      <4>2. CASE r.session = s
        BY <2>1, <4>1, <4>2
      <4>3. CASE r.session # s
        BY <2>1, <4>1, <4>3
      <4> QED
        BY <4>2, <4>3
    <3> QED
      BY <2>1, <3>1, <3>2
  <2>5. ASSUME NEW v \in Session \ {s} PROVE TalkOf(v)'
    <3>1. TalkOf(v)
      BY TalkIsOfEach
    <3>2. sess'[v] = sess[v] /\ log'[v] = log[v] /\ \A r \in runs' : r.session = v => r \in runs
      BY <2>1, <2>2
    <3>3. v \notin stale' => v \notin stale
      BY <2>1
    <3> QED
      BY <3>1, <3>2, <3>3 DEF TalkOf, AskedBefore
  <2>6. TalkOf(s)'
    BY <1>7, <2>s, CommitTalks
  <2>7. \A u \in Turn : pc'[u] = "replied" =>
           Decided(turn'[u].row, turn'[u].text, turn'[u].seq = 1, turn'[u].result, turn'[u].action)
    BY <1>p, <2>3
  <2>8. \A v \in Session : TalkOf(v)'
    BY <2>5, <2>6
  <2> QED
    BY <2>4, <2>7, <2>8, TalkTogether
<1>8. CASE UNCHANGED vars
  BY <1>8, <1>p, TalkStays DEF vars
<1> QED
  BY <1>1, <1>2, <1>3, <1>4, <1>5, <1>6, <1>7, <1>8 DEF Next, Step

LEMMA ChatInvariance == Spec => []ChatInv
<1>1. ASSUME Init PROVE ChatInv
  <2> USE <1>1 DEF Init
  <2>1. \A s \in Session : sess[s] = NoSession /\ log[s] = << >>
    OBVIOUS
  <2>2. \A t \in Turn : turn[t] = NoTurn /\ pc[t] = "idle"
    OBVIOUS
  <2>3. ChatTyped
    <3>1. \A s \in Session : TypedSession(s)
      BY <2>1, NoTurnIs, EmptyIsSequence DEF TypedSession
    <3>2. \A t \in Turn : TypedTurn(t)
      BY <2>2, NoTurnIs DEF TypedTurn
    <3> QED
      BY <3>1, <3>2 DEF ChatTyped
  <2>4. NumberInv
    BY <2>1, <2>2 DEF NumberInv, Inserted
  <2>5. RowInv
    BY <2>1, <2>2, NoTurnIs, NoneAssumption DEF RowInv
  <2>6. TalkInv
    <3>1. \A s \in Session : ~sess[s].exists /\ DOMAIN log[s] = {}
      BY <2>1, NoTurnIs
    <3> QED
      BY <2>1, <2>2, <3>1 DEF TalkInv, ProfileIsWhatWasSaid, NothingForgotten, MissingIsTrue
  <2> QED
    BY <2>3, <2>4, <2>5, <2>6 DEF ChatInv
<1>2. ChatInv /\ [Next]_vars => ChatInv'
  BY TypedStep, NumberStep, RowStep, TalkStep DEF ChatInv
<1> QED
  BY <1>1, <1>2, PTL DEF Spec

\* The transcript of a session has neither gap nor duplicate, however many turns of it
\* overlap and whichever fail (LogIsWhole).
THEOREM ChatLogWhole == Spec => []LogIsWhole
<1>1. ChatInv => LogIsWhole
  <2> SUFFICES ASSUME ChatInv, NEW s \in Session PROVE DOMAIN log[s] = 1 .. Len(log[s])
    BY DEF ChatInv, NumberInv, LogIsWhole
  <2> QED
    BY AddTwo DEF ChatInv, ChatTyped, TypedSession
<1> QED
  BY <1>1, ChatInvariance, PTL

\* Whatever texts users write and whatever the model reads in them, the profile of a session
\* is what was said, and its question what is missing (ProfileIsWhatWasSaid).
THEOREM ChatProfileTrue == Spec => []ProfileIsWhatWasSaid
<1>1. ChatInv => TalkInv
  BY DEF ChatInv
<1>2. TalkInv => ProfileIsWhatWasSaid
  BY DEF TalkInv
<1> QED
  BY <1>1, <1>2, ChatInvariance, PTL
=============================================================================

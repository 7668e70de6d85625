----------------------------- MODULE ChatIntake -----------------------------
(***************************************************************************)
(* The conversation that builds an ideal customer profile and launches     *)
(* discovery runs (src/nexus/orchestration/intake.py and chat_service.py,  *)
(* src/nexus/api/routers/chat.py).                                         *)
(*                                                                         *)
(* A turn is one request and one transaction: it loads the session,        *)
(* numbers and inserts the user's message, awaits the language model,      *)
(* writes the session and the reply, and commits.  The unique index on     *)
(* (session, seq) makes a second turn of the session wait at its insert.   *)
(*                                                                         *)
(* A text is what the extraction finds in it: "says" are the keyword hits  *)
(* of each slot, "phrases" the answer read as a list, "signal" the target  *)
(* it names, "prose" that it reads as a free-text profile, "go" that it is *)
(* affirmative.  A slot holds a set of values; empty is unknown.           *)
(***************************************************************************)
EXTENDS Naturals, Sequences, FiniteSets, SequencesExt

CONSTANTS
    Session, Turn,  \* conversations; requests at work
    Text,           \* the messages users write
    Reading,        \* what the model may read in a message
    MaxTurns,       \* bound: messages posted
    MaxErrors       \* bound: turns that fail

ListSlot == {"industries", "geo", "titles"}
Slot == ListSlot \cup {"company_size", "icp_description", "seniority"}
Target == {"companies", "contacts"}
Nothing == [slot \in Slot |-> {}]

\* None, or one.  A session has no target before its first turn.
None == "none"
NormTarget(target) == IF target \in Target THEN target ELSE "companies"

\* A turn is of None when it is of no session.
ASSUME NoneAssumption == None \notin Session

NoSession == [exists |-> FALSE, icp |-> Nothing, target |-> None, missing |-> << >>]

\* A turn at work: its session and text, whether it creates the session, the row and
\* the length of the log it has read, the number of its message, and what it will commit.
NoTurn == [session |-> None, text |-> None, new |-> FALSE, row |-> NoSession, read |-> 0,
           seq |-> 0, result |-> NoSession, action |-> None]

VARIABLES
    profile,    \* the saved RelevanceProfile.icp
    sess,       \* the committed sessions
    log,        \* their committed messages
    runs,       \* the discovery runs launched
    pc, turn,   \* per request: where it is, and what it works with
    stale,      \* sessions in which a turn went on from a superseded row
    turns, errors

vars == <<profile, sess, log, runs, pc, turn, stale, turns, errors>>

Begin(t, label, work) ==
    /\ pc[t] = "idle"
    /\ pc' = [pc EXCEPT ![t] = label]
    /\ turn' = [turn EXCEPT ![t] = work]

Goto(t, from, label, work) ==
    /\ pc[t] = from
    /\ pc' = [pc EXCEPT ![t] = label]
    /\ turn' = [turn EXCEPT ![t] = work]

End(t, from) == Goto(t, from, "idle", NoTurn)

Init ==
    /\ profile \in {Nothing, [Nothing EXCEPT !["geo"] = {"seeded"}]}
    /\ sess = [s \in Session |-> NoSession]
    /\ log = [s \in Session |-> << >>]
    /\ runs = {}
    /\ pc = [t \in Turn |-> "idle"]
    /\ turn = [t \in Turn |-> NoTurn]
    /\ stale = {}
    /\ turns = 0
    /\ errors = 0

-----------------------------------------------------------------------------
(* The deterministic core. *)

\* The required slots that are empty, the one to ask for first.
MissingRequired(icp, target) ==
    LET needed == IF NormTarget(target) = "companies" THEN <<"industries", "geo", "company_size">>
                  ELSE <<"industries", "geo", "titles">>
        Filled(slot) == CASE slot = "industries" -> icp["industries"] \cup icp["icp_description"] # {}
                          [] slot = "titles" -> icp["titles"] \cup icp["seniority"] # {}
                          [] OTHER -> icp[slot] # {}
    IN  SelectSeq(needed, LAMBDA slot : ~Filled(slot))

\* Hits anywhere in the text, and the answer to the slot that was asked for.
ExtractSlots(text, pending) ==
    [slot \in Slot |->
        CASE slot \in {"industries", "titles"} ->
                IF pending = slot THEN text.phrases ELSE text.says[slot]
          [] slot = "geo" ->
                IF pending = "geo" /\ text.says["geo"] = {} THEN text.phrases ELSE text.says["geo"]
          [] slot = "icp_description" ->
                IF text.prose /\ pending \notin ListSlot /\ text.says["industries"] = {}
                THEN text.phrases ELSE {}
          [] OTHER -> text.says[slot]]

\* Mutant: lists are overridden as well.
MergeReplaces(icp, delta) ==
    [slot \in Slot |-> IF delta[slot] # {} THEN delta[slot] ELSE icp[slot]]

\* Lists are united, the other slots overridden.
MergeIcp(icp, delta) ==
    [slot \in Slot |-> IF slot \in ListSlot THEN icp[slot] \cup delta[slot]
                       ELSE IF delta[slot] # {} THEN delta[slot] ELSE icp[slot]]

InferTarget(text, current) == IF text.signal \in Target THEN text.signal ELSE NormTarget(current)

\* The model fills what is still empty and changes the target only of a text that names none.
Understand(reading, text, icp, target) ==
    [icp |-> MergeIcp(icp, [slot \in Slot |-> IF icp[slot] = {} THEN reading.slots[slot] ELSE {}]),
     target |-> IF reading.target \in Target /\ text.signal = None THEN reading.target ELSE target]

Pending(session, first) ==
    IF first \/ session.missing = << >> THEN None ELSE Head(session.missing)

Advance(session, text, first, reading) ==
    LET target == InferTarget(text, session.target)
        heard == MergeIcp(session.icp, ExtractSlots(text, Pending(session, first)))
        known == Understand(reading, text, heard, target)
        missing == MissingRequired(known.icp, known.target)
    IN  [session |-> [exists |-> TRUE, icp |-> known.icp, target |-> known.target, missing |-> missing],
         action |-> CASE missing # << >> -> "clarify"
                      [] missing = << >> /\ (first \/ text.go) -> "launch"
                      [] OTHER -> "ready"]

-----------------------------------------------------------------------------
(* Sessions and turns. *)

\* The saved profile keeps industries, countries and size.
Saved(icp) == [slot \in Slot |-> IF slot \in {"industries", "geo", "company_size"} THEN icp[slot] ELSE {}]

\* A branch goes on from its parent, another session from the saved profile.
Seeded(parent) ==
    LET icp == IF parent \in Session THEN sess[parent].icp ELSE profile
    IN  [exists |-> TRUE, icp |-> icp, target |-> None, missing |-> MissingRequired(icp, None)]

CreateSession(s, parent) ==
    /\ ~sess[s].exists /\ \A t \in Turn : turn[t].session # s
    /\ parent \in Session => sess[parent].exists
    /\ sess' = [sess EXCEPT ![s] = Seeded(parent)]
    /\ UNCHANGED <<profile, log, runs, pc, turn, stale, turns, errors>>

\* The first message may come with the request that creates the session.
CreateWithMessage(t, s, parent, text) ==
    /\ ~sess[s].exists /\ \A u \in Turn : turn[u].session # s
    /\ parent \in Session => sess[parent].exists
    /\ turns < MaxTurns /\ turns' = turns + 1
    /\ Begin(t, "loaded", [NoTurn EXCEPT !.session = s, !.text = text, !.new = TRUE,
                                         !.row = Seeded(parent)])
    /\ UNCHANGED <<profile, sess, log, runs, stale, errors>>

PostMessage(t, s, text) ==
    /\ sess[s].exists
    /\ turns < MaxTurns /\ turns' = turns + 1
    /\ Begin(t, "loaded", [NoTurn EXCEPT !.session = s, !.text = text, !.row = sess[s],
                                         !.read = Len(log[s])])
    /\ UNCHANGED <<profile, sess, log, runs, stale, errors>>

NextSeq(s) == IF log[s] = << >> THEN 1 ELSE Last(log[s]).seq + 1

Number(t) ==
    /\ Goto(t, "loaded", "numbered", [turn[t] EXCEPT !.seq = NextSeq(turn[t].session)])
    /\ UNCHANGED <<profile, sess, log, runs, stale, turns, errors>>

\* Mutant: without the index.
HeldNever(t) == FALSE

\* The unique index (session, seq): an insert waits for the uncommitted ones
\* of that number, and fails when it is taken.
Held(t) == \E u \in Turn \ {t} : /\ pc[u] \in {"thinking", "replied"}
                                 /\ turn[u].session = turn[t].session
                                 /\ turn[u].seq = turn[t].seq
Taken(t) == \E i \in DOMAIN log[turn[t].session] : log[turn[t].session][i].seq = turn[t].seq

Insert(t) ==
    /\ Goto(t, "numbered", "thinking", turn[t])
    /\ ~Held(t) /\ ~Taken(t)
    /\ UNCHANGED <<profile, sess, log, runs, stale, turns, errors>>

\* The request ends with an error and its transaction is rolled back.
InsertConflict(t) ==
    /\ End(t, "numbered")
    /\ ~Held(t) /\ Taken(t)
    /\ UNCHANGED <<profile, sess, log, runs, stale, turns, errors>>

\* A failed reading is an empty one.
Think(t) ==
    /\ \E reading \in Reading \cup {[target |-> None, slots |-> Nothing]} :
          LET decision == Advance(turn[t].row, turn[t].text, turn[t].seq = 1, reading)
          IN  Goto(t, "thinking", "replied", [turn[t] EXCEPT !.result = decision.session,
                                                             !.action = decision.action])
    /\ UNCHANGED <<profile, sess, log, runs, stale, turns, errors>>

\* A model that fails to phrase or to summarise fails the request.
ThinkFails(t) ==
    /\ End(t, "thinking")
    /\ errors < MaxErrors /\ errors' = errors + 1
    /\ UNCHANGED <<profile, sess, log, runs, stale, turns>>

\* Only the columns that the turn has changed are written.
Written(row, old, new) == [c \in DOMAIN row |-> IF new[c] # old[c] THEN new[c] ELSE row[c]]

UserMessage(t) == [seq |-> turn[t].seq, role |-> "user", text |-> turn[t].text, slot |-> None]

\* A clarifying question asks for the first slot missing.
Reply(t) == [seq |-> turn[t].seq + 1, role |-> "assistant", text |-> turn[t].action,
             slot |-> IF turn[t].action = "clarify" THEN Head(turn[t].result.missing) ELSE None]

\* A launch creates the run and drives it in the same transaction.
Launched(t) ==
    IF turn[t].action # "launch" THEN {}
    ELSE {[session |-> turn[t].session, seq |-> turn[t].seq,
           icp |-> turn[t].result.icp, target |-> turn[t].result.target]}

Commit(t) ==
    LET s == turn[t].session
    IN  /\ End(t, "replied")
        /\ sess' = [sess EXCEPT ![s] = IF turn[t].new THEN turn[t].result
                                       ELSE Written(@, turn[t].row, turn[t].result)]
        /\ log' = [log EXCEPT ![s] = @ \o <<UserMessage(t), Reply(t)>>]
        /\ runs' = runs \cup Launched(t)
        /\ stale' = IF turn[t].read # Len(log[s]) THEN stale \cup {s} ELSE stale
        /\ UNCHANGED <<profile, turns, errors>>

SaveLoad(t, s) ==
    /\ sess[s].exists /\ Saved(sess[s].icp) # profile
    /\ Begin(t, "saving", [NoTurn EXCEPT !.row = sess[s]])
    /\ UNCHANGED <<profile, sess, log, runs, stale, turns, errors>>

SaveIcp(t) ==
    /\ End(t, "saving")
    /\ profile' = Saved(turn[t].row.icp)
    /\ UNCHANGED <<sess, log, runs, stale, turns, errors>>

-----------------------------------------------------------------------------
Step(t) == Number(t) \/ Insert(t) \/ InsertConflict(t) \/ Think(t) \/ Commit(t) \/ SaveIcp(t)

Next ==
    \/ \E s \in Session, parent \in Session \cup {None} :
          \/ CreateSession(s, parent)
          \/ \E t \in Turn, text \in Text : CreateWithMessage(t, s, parent, text)
    \/ \E t \in Turn, s \in Session :
          \/ SaveLoad(t, s)
          \/ \E text \in Text : PostMessage(t, s, text)
    \/ \E t \in Turn : Step(t) \/ ThinkFails(t)

Spec == Init /\ [][Next]_vars
-----------------------------------------------------------------------------
(* Properties. *)

\* The messages of a session are numbered from 1 without a gap or a number
\* used twice, and each message of the user is followed by its reply
\* (models/chat.py: an SSE client can resume "without gaps or duplicates").
LogIsWhole ==
    \A s \in Session : \A i \in DOMAIN log[s] :
        /\ log[s][i].seq = i
        /\ log[s][i].role = IF i % 2 = 1 THEN "user" ELSE "assistant"

\* What message i of the log asked for.
AskedBefore(s, i) == IF i = 1 THEN None ELSE log[s][i - 1].slot

\* Whatever the user has said of a list, as an answer to the question the log
\* shows before it, is in the profile of the session, and in that of every run
\* launched from then on, whose required slots are filled; unless a turn went on
\* from a row that another turn had replaced (intake.py: "the slot we last
\* asked about").
NothingForgotten ==
    \A s \in Session \ stale :
        /\ \A i \in DOMAIN log[s], slot \in ListSlot : log[s][i].role = "user" =>
              LET said == ExtractSlots(log[s][i].text, AskedBefore(s, i))[slot]
              IN  /\ said \subseteq sess[s].icp[slot]
                  /\ \A r \in runs : r.session = s /\ r.seq >= i => said \subseteq r.icp[slot]
        /\ \A r \in runs : r.session = s => MissingRequired(r.icp, r.target) = << >>

\* The session says it misses what its profile lacks for its target, and the last
\* question asked is the first of these, unless a turn went on from a superseded row.
MissingIsTrue ==
    \A s \in Session \ stale : sess[s].exists =>
        /\ sess[s].missing = MissingRequired(sess[s].icp, sess[s].target)
        /\ log[s] # << >> /\ sess[s].missing # << >> => Last(log[s]).slot = Head(sess[s].missing)

\* The profile of a session is what the user has said, and its question what is missing.
ProfileIsWhatWasSaid == NothingForgotten /\ MissingIsTrue
=============================================================================

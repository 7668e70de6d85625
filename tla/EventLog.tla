------------------------------ MODULE EventLog ------------------------------
(***************************************************************************)
(* The durable event log of a run and the SSE stream that replays it:      *)
(* OrchestrationEngine._emit (src/nexus/orchestration/engine.py),          *)
(* _event_stream (src/nexus/api/routers/orchestration.py) and the client   *)
(* that resumes it with Last-Event-ID (frontend/src/pages/RunDetailPage).  *)
(*                                                                         *)
(* _emit reads the largest sequence number its transaction sees and        *)
(* inserts the next one, with no lock in between.  The table has a unique  *)
(* constraint on (run, seq): an insert waits for the transaction that      *)
(* holds the same number, and fails if that transaction commits.           *)
(***************************************************************************)
EXTENDS Integers, Sequences, FiniteSets, SequencesExt

CONSTANTS
    Writer,      \* transactions that emit events of the run
    Reader,      \* clients following the run
    MaxSeq,      \* bound: events in the log
    MaxDrops     \* bound: connections lost

ASSUME EventBounds == MaxSeq \in Nat /\ MaxDrops \in Nat

\* What the engine's transactions leave the run in.
Status == {"running", "awaiting_approval", "terminal"}

VARIABLES
    committed,   \* sequence numbers of the committed events
    status,      \* committed status of the run
    phase,       \* phase[w]: "idle", "open" or "insert" (number chosen)
    own,         \* own[w]: numbers w has inserted and not committed
    pick,        \* pick[w]: the number w is about to insert
    conn,        \* conn[r]: "closed", "status" or "events" (next read)
    last,        \* last[r]: the server's cursor, last_seq
    seen,        \* seen[r]: the status the server read in this poll
    owed,        \* owed[r]: events committed when it read that status
    why,         \* why[r]: how the last stream of r ended
    wire,        \* wire[r]: events sent and not yet received
    got,         \* got[r]: events the client was handed, in order
    drops        \* connections lost so far

writers == <<committed, status, phase, own, pick>>
readers == <<conn, last, seen, owed, why, wire, got, drops>>
vars == <<writers, readers>>

\* The largest number of a set, 0 for the empty one.
Top(S) == IF S = {} THEN 0 ELSE CHOOSE m \in S : \A n \in S : n <= m

-----------------------------------------------------------------------------
(* Emitting *)

\* A transaction on a run that is not over starts to emit.
Begin(w) ==
    /\ phase[w] = "idle"
    /\ status # "terminal"
    /\ phase' = [phase EXCEPT ![w] = "open"]
    /\ UNCHANGED <<committed, status, own, pick, readers>>

\* Mutant of ReadMax: a database sequence hands out the numbers.
ReadMaxOfAll(w) ==
    LET taken == committed \cup UNION {own[v] : v \in Writer} \cup {pick[v] : v \in Writer}
    IN  /\ phase[w] = "open"
        /\ Top(taken) < MaxSeq
        /\ pick' = [pick EXCEPT ![w] = Top(taken) + 1]
        /\ phase' = [phase EXCEPT ![w] = "insert"]
        /\ UNCHANGED <<committed, status, own, readers>>

\* select max(seq): committed events, and those of the transaction itself.
ReadMax(w) ==
    /\ phase[w] = "open"
    /\ Top(committed \cup own[w]) < MaxSeq
    /\ pick' = [pick EXCEPT ![w] = Top(committed \cup own[w]) + 1]
    /\ phase' = [phase EXCEPT ![w] = "insert"]
    /\ UNCHANGED <<committed, status, own, readers>>

Abandon(w) ==
    /\ phase' = [phase EXCEPT ![w] = "idle"]
    /\ own' = [own EXCEPT ![w] = {}]
    /\ pick' = [pick EXCEPT ![w] = 0]

\* The insert goes through once no other transaction holds the number.
Insert(w) ==
    /\ phase[w] = "insert"
    /\ pick[w] \notin committed
    /\ \A v \in Writer \ {w} : pick[w] \notin own[v]
    /\ own' = [own EXCEPT ![w] = @ \cup {pick[w]}]
    /\ phase' = [phase EXCEPT ![w] = "open"]
    /\ pick' = [pick EXCEPT ![w] = 0]
    /\ UNCHANGED <<committed, status, readers>>

\* uq_event_run_seq: the number was committed meanwhile, the transaction fails.
InsertFails(w) ==
    /\ phase[w] = "insert"
    /\ pick[w] \in committed
    /\ Abandon(w)
    /\ UNCHANGED <<committed, status, readers>>

\* Every operation of the engine commits its events with the run's new status.
Commit(w, st) ==
    /\ phase[w] = "open"
    /\ own[w] # {}
    /\ committed' = committed \cup own[w]
    /\ status' = st
    /\ Abandon(w)
    /\ UNCHANGED readers

Rollback(w) ==
    /\ phase[w] # "idle"
    /\ Abandon(w)
    /\ UNCHANGED <<committed, status, readers>>

-----------------------------------------------------------------------------
(* Following *)

\* Mutant of Connect: the whole log is replayed.
ConnectFromStart(r) ==
    /\ conn[r] = "closed"
    /\ wire[r] = <<>>
    /\ last' = [last EXCEPT ![r] = 0]
    /\ conn' = [conn EXCEPT ![r] = "status"]
    /\ UNCHANGED <<writers, seen, owed, why, wire, got, drops>>

\* The client connects with the last id it has been handed.
Connect(r) ==
    /\ conn[r] = "closed"
    /\ wire[r] = <<>>
    /\ last' = [last EXCEPT ![r] = Top(ToSet(got[r]))]
    /\ conn' = [conn EXCEPT ![r] = "status"]
    /\ UNCHANGED <<writers, seen, owed, why, wire, got, drops>>

\* A poll reads the run first ...
ReadStatus(r) ==
    /\ conn[r] = "status"
    /\ seen' = [seen EXCEPT ![r] = status]
    /\ owed' = [owed EXCEPT ![r] = Cardinality(committed)]
    /\ conn' = [conn EXCEPT ![r] = "events"]
    /\ UNCHANGED <<writers, last, why, wire, got, drops>>

\* How a poll that saw the given events ends the stream, if it does.
Verdict(st, new) ==
    IF st = "terminal" THEN "terminal"
    ELSE IF st = "awaiting_approval" /\ new = {} THEN "parked"
    ELSE "open"

\* The numbers of S in ascending order: the i-th has i - 1 before it.
Ascending(S) ==
    [i \in 1 .. Cardinality(S) |-> CHOOSE n \in S : Cardinality({m \in S : m < n}) = i - 1]

\* Mutant of ReadEvents: the cursor is taken for the next event to send.
ReadEventsPastNext(r) ==
    /\ conn[r] = "events"
    /\ LET new == {n \in committed : n > last[r] + 1}
           verdict == Verdict(seen[r], new)
       IN  /\ wire' = [wire EXCEPT ![r] = @ \o Ascending(new)]
           /\ last' = [last EXCEPT ![r] = IF new = {} THEN @ ELSE Top(new)]
           /\ conn' = [conn EXCEPT ![r] = IF verdict = "open" THEN "status" ELSE "closed"]
           /\ why' = [why EXCEPT ![r] = verdict]
    /\ UNCHANGED <<writers, seen, owed, got, drops>>

\* ... and the events after the cursor second.
ReadEvents(r) ==
    /\ conn[r] = "events"
    /\ LET new == {n \in committed : n > last[r]}
           verdict == Verdict(seen[r], new)
       IN  /\ wire' = [wire EXCEPT ![r] = @ \o Ascending(new)]
           /\ last' = [last EXCEPT ![r] = IF new = {} THEN @ ELSE Top(new)]
           /\ conn' = [conn EXCEPT ![r] = IF verdict = "open" THEN "status" ELSE "closed"]
           /\ why' = [why EXCEPT ![r] = verdict]
    /\ UNCHANGED <<writers, seen, owed, got, drops>>

Receive(r) ==
    /\ wire[r] # <<>>
    /\ got' = [got EXCEPT ![r] = Append(@, Head(wire[r]))]
    /\ wire' = [wire EXCEPT ![r] = Tail(@)]
    /\ UNCHANGED <<writers, conn, last, seen, owed, why, drops>>

\* The connection is lost (or the ceiling of 600 polls is reached, when
\* nothing is in flight): what was in flight is lost with it.
Drop(r) ==
    /\ conn[r] # "closed"
    /\ drops < MaxDrops
    /\ drops' = drops + 1
    /\ conn' = [conn EXCEPT ![r] = "closed"]
    /\ why' = [why EXCEPT ![r] = "dropped"]
    /\ wire' = [wire EXCEPT ![r] = <<>>]
    /\ UNCHANGED <<writers, last, seen, owed, got>>

-----------------------------------------------------------------------------

Init ==
    /\ committed = {}
    /\ status = "running"
    /\ phase = [w \in Writer |-> "idle"]
    /\ own = [w \in Writer |-> {}]
    /\ pick = [w \in Writer |-> 0]
    /\ conn = [r \in Reader |-> "closed"]
    /\ last = [r \in Reader |-> 0]
    /\ seen = [r \in Reader |-> "running"]
    /\ owed = [r \in Reader |-> 0]
    /\ why = [r \in Reader |-> "open"]
    /\ wire = [r \in Reader |-> <<>>]
    /\ got = [r \in Reader |-> <<>>]
    /\ drops = 0

Emit(w) ==
    \/ Begin(w)
    \/ ReadMax(w)
    \/ Insert(w)
    \/ InsertFails(w)
    \/ \E st \in Status : Commit(w, st)
    \/ Rollback(w)

Poll(r) == ReadStatus(r) \/ ReadEvents(r)

Follow(r) == Connect(r) \/ Poll(r) \/ Receive(r) \/ Drop(r)

Next == (\E w \in Writer : Emit(w)) \/ (\E r \in Reader : Follow(r))

Spec == Init /\ [][Next]_vars

\* The server polls an open stream every half second and the network delivers;
\* nothing obliges a transaction to start or a client to reconnect.
FairSpec == Spec /\ \A r \in Reader : WF_vars(Poll(r)) /\ WF_vars(Receive(r))

-----------------------------------------------------------------------------
(* Properties *)

TypeOK ==
    /\ committed \in SUBSET (1 .. MaxSeq)
    /\ status \in Status
    /\ phase \in [Writer -> {"idle", "open", "insert"}]
    /\ own \in [Writer -> SUBSET (1 .. MaxSeq)]
    /\ pick \in [Writer -> 0 .. MaxSeq]
    /\ conn \in [Reader -> {"closed", "status", "events"}]
    /\ last \in [Reader -> 0 .. MaxSeq]
    /\ seen \in [Reader -> Status]
    /\ owed \in [Reader -> Nat]
    /\ why \in [Reader -> {"open", "terminal", "parked", "dropped"}]
    /\ wire \in [Reader -> Seq(1 .. MaxSeq)]
    /\ got \in [Reader -> Seq(1 .. MaxSeq)]
    /\ drops \in 0 .. MaxDrops

\* "seq is monotonic within a run ... without gaps": the committed numbers are
\* 1 to n, though they are chosen by a read that holds no lock and though
\* transactions that chose one are rolled back.
LogHasNoGaps == committed = 1 .. Cardinality(committed)

\* A client is handed the events 1, 2, 3, ... each once and in order, across
\* lost connections and reconnections.
StreamInOrder == \A r \in Reader : \A i \in 1 .. Len(got[r]) : got[r][i] = i

\* A stream that ends because the run is over has sent every event that was
\* committed when the server saw it was over.
TerminalStreamIsComplete ==
    \A r \in Reader : why[r] = "terminal" /\ conn[r] = "closed" => last[r] >= owed[r]

\* What a client was handed is the log from its start, to its end if the run is over.
StreamIsLog == StreamInOrder /\ TerminalStreamIsComplete

\* An open stream delivers every committed event, unless it is closed first.
OpenStreamDelivers ==
    \A r \in Reader : \A n \in 1 .. MaxSeq :
        (n \in committed /\ conn[r] # "closed") ~> (n \in ToSet(got[r]) \/ conn[r] = "closed")
=============================================================================

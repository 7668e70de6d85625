---------------------------- MODULE Idempotency ----------------------------
(***************************************************************************)
(* The Idempotency-Key middleware (src/nexus/core/middleware.py) over its  *)
(* store (src/nexus/core/idempotency.py), for the requests that carry one  *)
(* key: the first runs its handler and stores the response, the others are *)
(* answered with that response, or with 409 while there is none.           *)
(*                                                                         *)
(* Every await on the store is a step.  The in-process store lives as long *)
(* as its process; Redis outlives the workers, and its release is two      *)
(* commands.  An entry is forgotten when its time to live is over.         *)
(***************************************************************************)
EXTENDS Naturals

CONSTANTS
    Request,     \* the requests that carry the key
    NoRequest,   \* "of nobody"
    Backends,    \* the stores that may be configured: "memory", "redis"
    TTL,         \* ticks that an entry lives
    MaxDeaths    \* bound: requests and processes that die in a behaviour

VARIABLES
    backend,    \* the store that is configured (NEXUS_QUEUE_BACKEND)
    entry,      \* what the store holds for the key
    pc,         \* where the middleware is in each request
    worked,     \* worked[r]: the transaction of r's handler was committed
    cacheable,  \* cacheable[r]: its response was JSON, and no server error
    answer,     \* answer[r]: what r's client was answered
    forgotten,  \* an entry has been lost: its time was over, or its process
    deaths

vars == <<backend, entry, pc, worked, cacheable, answer, forgotten, deaths>>

Absent == [kind |-> "absent", of |-> NoRequest, left |-> 0]
Claimed == [kind |-> "claim", of |-> NoRequest, left |-> TTL]
Response(r) == [kind |-> "response", of |-> r, left |-> TTL]

Entries ==
    [kind : {"response"}, of : Request, left : 0 .. TTL]
    \cup [kind : {"absent", "claim"}, of : {NoRequest}, left : 0 .. TTL]

\* What a client is answered: the response of a request (its own, or the
\* replay of another's), a conflict, or an error of the server.
Answers ==
    [kind : {"response"}, of : Request]
    \cup [kind : {"none", "conflict", "error"}, of : {NoRequest}]

Reply(r, kind, of) == answer' = [answer EXCEPT ![r] = [kind |-> kind, of |-> of]]

Goto(r, label) == pc' = [pc EXCEPT ![r] = label]

-----------------------------------------------------------------------------
(* The middleware *)

\* Mutant of Claim: the claim has no expiry.
ClaimForever(r) ==
    /\ pc[r] = "claim"
    /\ IF entry.kind = "absent"
       THEN entry' = [Claimed EXCEPT !.left = 0] /\ Goto(r, "handler")
       ELSE entry' = entry /\ Goto(r, "lookup")
    /\ UNCHANGED <<backend, worked, cacheable, answer, forgotten, deaths>>

\* claim: set if absent, in one command.
Claim(r) ==
    /\ pc[r] = "claim"
    /\ IF entry.kind = "absent"
       THEN entry' = Claimed /\ Goto(r, "handler")
       ELSE entry' = entry /\ Goto(r, "lookup")
    /\ UNCHANGED <<backend, worked, cacheable, answer, forgotten, deaths>>

\* get: replay what is stored, or say that the first is still in progress.
Lookup(r) ==
    /\ pc[r] = "lookup"
    /\ IF entry.kind = "response"
       THEN Reply(r, "response", entry.of)
       ELSE Reply(r, "conflict", NoRequest)
    /\ Goto(r, "done")
    /\ UNCHANGED <<backend, entry, worked, cacheable, forgotten, deaths>>

\* The handler returns JSON: its work is committed, or refused with a 4xx.
HandlerReturns(r, committed) ==
    /\ pc[r] = "handler"
    /\ worked' = [worked EXCEPT ![r] = committed]
    /\ cacheable' = [cacheable EXCEPT ![r] = TRUE]
    /\ Goto(r, "complete")
    /\ UNCHANGED <<backend, entry, answer, forgotten, deaths>>

\* The handler returns something that is not to be stored: a server error, or
\* a stream, whose work may be committed.
HandlerReturnsOther(r, committed) ==
    /\ pc[r] = "handler"
    /\ worked' = [worked EXCEPT ![r] = committed]
    /\ Goto(r, "release")
    /\ UNCHANGED <<backend, entry, cacheable, answer, forgotten, deaths>>

\* The handler raises: its transaction was rolled back.
HandlerRaises(r) ==
    /\ pc[r] = "handler"
    /\ Goto(r, "release")
    /\ UNCHANGED <<backend, entry, worked, cacheable, answer, forgotten, deaths>>

Complete(r) ==
    /\ pc[r] = "complete"
    /\ entry' = Response(r)
    /\ Reply(r, "response", r)
    /\ Goto(r, "done")
    /\ UNCHANGED <<backend, worked, cacheable, forgotten, deaths>>

\* release, in-process: drop an unfinished claim.
Release(r) ==
    /\ pc[r] = "release"
    /\ backend = "memory"
    /\ entry' = IF entry.kind = "claim" THEN Absent ELSE entry
    /\ Reply(r, "error", NoRequest)
    /\ Goto(r, "done")
    /\ UNCHANGED <<backend, worked, cacheable, forgotten, deaths>>

\* release, Redis: look whether it is an unfinished claim ...
ReleaseLooks(r) ==
    /\ pc[r] = "release"
    /\ backend = "redis"
    /\ IF entry.kind = "claim"
       THEN Goto(r, "delete") /\ UNCHANGED answer
       ELSE Goto(r, "done") /\ Reply(r, "error", NoRequest)
    /\ UNCHANGED <<backend, entry, worked, cacheable, forgotten, deaths>>

\* ... and delete what is there by then.
ReleaseDeletes(r) ==
    /\ pc[r] = "delete"
    /\ entry' = Absent
    /\ Reply(r, "error", NoRequest)
    /\ Goto(r, "done")
    /\ UNCHANGED <<backend, worked, cacheable, forgotten, deaths>>

-----------------------------------------------------------------------------
(* The world *)

\* Mutant of Die: the claim of a request that dies is dropped.
DieReleasing(r) ==
    /\ pc[r] \notin {"claim", "done"}
    /\ deaths < MaxDeaths
    /\ deaths' = deaths + 1
    /\ \E committed \in BOOLEAN :
          worked' = [worked EXCEPT ![r] = @ \/ (committed /\ pc[r] = "handler")]
    /\ cacheable' = [cacheable EXCEPT ![r] = @ \/ pc[r] = "handler"]
    /\ entry' = Absent
    /\ Goto(r, "done")
    /\ UNCHANGED <<backend, answer, forgotten>>

\* A request ends without the middleware's last word: its worker dies, it is
\* cancelled (no Exception), a call to Redis fails.  The handler's transaction
\* may be committed by then.
Die(r) ==
    /\ pc[r] \notin {"claim", "done"}
    /\ deaths < MaxDeaths
    /\ deaths' = deaths + 1
    /\ \E committed \in BOOLEAN :
          worked' = [worked EXCEPT ![r] = @ \/ (committed /\ pc[r] = "handler")]
    /\ cacheable' = [cacheable EXCEPT ![r] = @ \/ pc[r] = "handler"]
    /\ Goto(r, "done")
    /\ UNCHANGED <<backend, entry, answer, forgotten>>

\* The only process restarts: the in-process store and all requests are gone.
Restart ==
    /\ backend = "memory"
    /\ deaths < MaxDeaths
    /\ deaths' = deaths + 1
    /\ entry' = Absent
    /\ forgotten' = (forgotten \/ entry.kind # "absent")
    /\ pc' = [r \in Request |-> IF pc[r] = "claim" THEN "claim" ELSE "done"]
    /\ UNCHANGED <<backend, worked, cacheable, answer>>

\* Time passes; what has no time left is forgotten.
Tick ==
    /\ entry.left > 0
    /\ entry' = IF entry.left = 1 THEN Absent ELSE [entry EXCEPT !.left = @ - 1]
    /\ forgotten' = (forgotten \/ entry.left = 1)
    /\ UNCHANGED <<backend, pc, worked, cacheable, answer, deaths>>

-----------------------------------------------------------------------------

Init ==
    /\ backend \in Backends
    /\ entry = Absent
    /\ pc = [r \in Request |-> "claim"]
    /\ worked = [r \in Request |-> FALSE]
    /\ cacheable = [r \in Request |-> FALSE]
    /\ answer = [r \in Request |-> [kind |-> "none", of |-> NoRequest]]
    /\ forgotten = FALSE
    /\ deaths = 0

Proceed(r) ==
    \/ Lookup(r)
    \/ \E committed \in BOOLEAN : HandlerReturns(r, committed)
    \/ \E committed \in BOOLEAN : HandlerReturnsOther(r, committed)
    \/ HandlerRaises(r)
    \/ Complete(r)
    \/ Release(r)
    \/ ReleaseLooks(r)
    \/ ReleaseDeletes(r)

Next ==
    \/ \E r \in Request : Claim(r) \/ Proceed(r) \/ Die(r)
    \/ Restart
    \/ Tick

Spec == Init /\ [][Next]_vars

\* Time passes and a request that has started is carried on.
FairSpec == Spec /\ WF_vars(Tick) /\ \A r \in Request : WF_vars(Proceed(r))

-----------------------------------------------------------------------------
(* Properties *)

TypeOK ==
    /\ backend \in Backends
    /\ entry \in Entries
    /\ pc \in [Request -> {"claim", "lookup", "handler", "complete", "release",
                           "delete", "done"}]
    /\ worked \in [Request -> BOOLEAN]
    /\ cacheable \in [Request -> BOOLEAN]
    /\ answer \in [Request -> Answers]
    /\ forgotten \in BOOLEAN
    /\ deaths \in 0 .. MaxDeaths

\* The request has committed work that is answered with JSON.
Answerable(r) == worked[r] /\ cacheable[r]

\* "must not run the work twice": as long as the store forgets nothing, one
\* request with the key commits work that is answered with JSON, even if it
\* dies after its commit and before its response is stored.
WorkOnce ==
    ~forgotten => \A r, q \in Request : Answerable(r) /\ Answerable(q) => r = q

\* "a duplicate replays the first result": as long as the store forgets
\* nothing, all clients that are answered with a response have the same one.
AnswersAgree ==
    ~forgotten => \A r, q \in Request :
        answer[r].kind = "response" /\ answer[q].kind = "response" =>
            answer[r].of = answer[q].of

\* One key, one result: the work is done once and all answers are of it.
OneResult == WorkOnce /\ AnswersAgree

\* A key whose request died, or was cancelled, can be used again some day.
KeyComesFree == (entry.kind = "claim") ~> (entry.kind # "claim")
=============================================================================

---------------------------- MODULE DataSources ----------------------------
(***************************************************************************)
(* The registry through which a process asks the outside world             *)
(* (src/nexus/integrations/registry.py), and the discovery of companies    *)
(* that goes through it.  Requests of one process share the registry: its  *)
(* cache, the budgets and the circuit breakers of its sources, the key     *)
(* that its search engine uses.  Everything between two awaits is one      *)
(* step; another request may run while one awaits an answer.               *)
(*                                                                         *)
(* The daily auto-discovery of the worker builds a registry of its own for *)
(* each run.  Requests and runs add the companies they find to one table,  *)
(* in transactions of their own.                                           *)
(*                                                                         *)
(* The hits of the world are numbered in the order in which the engine     *)
(* ranks them: companies, and pages that are junk.  A query is the number  *)
(* of companies asked for: the profile that is searched for is always the  *)
(* same.                                                                   *)
(***************************************************************************)
EXTENDS Naturals, Sequences, FiniteSets

CONSTANTS
    Session,        \* requests of the process, and runs of the worker
    NumHits,
    Junk,           \* hits that are no company of their own: directories, news
    Unfit,          \* companies that a gate may reject: headcount or fit
    Listed,         \* what the source before the engine knows: a sequence
    MaxCandidates,  \* companies that a rep wants to see
    Pool, Target,   \* auto-discovery: companies asked for, companies added
    ExcludeCap,     \* auto-discovery: tracked companies that it may exclude
    NumKeys,        \* keys of the engine
    Budget,         \* per_source_budget
    Threshold,      \* breaker_threshold
    MaxFailures     \* bound: failures of all kinds

Hit == 1 .. NumHits
Company == Hit \ Junk
Source == {"listed", "engine"}
Waterfall == <<"listed", "engine">>
Query == 1 .. MaxCandidates
Backoffs == 2       \* pauses that a search of the engine allows itself

NotCached == {}

VARIABLES
    calls, failed, open,    \* per source: calls, failures in a row, breaker
    cache,                  \* cache[q]: at most one list, the companies found, in order
    keyIdx,                 \* the key that the engine uses
    tracked,                \* the companies in the table
    pc,
    query,                  \* what a request asks for; 0 for auto-discovery
    pos,                    \* the source it is at
    got,                    \* the companies found so far
    known,                  \* auto-discovery: what was tracked at its start
    key,                    \* the key its search was sent with
    attempts, pauses, tried,    \* of its search
    rotated,                \* another search has changed the key since it began
    lookups,                \* lookups[q]: how often the engine was asked q
    overlapped,             \* two lookups of one query were under way
    failures

policy == <<calls, failed, open>>
search == <<key, attempts, pauses, tried, rotated>>
request == <<query, pos, got, known>>
history == <<lookups, overlapped, failures>>
vars == <<policy, cache, keyIdx, tracked, pc, request, search, history>>

Goto(s, label) == pc' = [pc EXCEPT ![s] = label]

\* The first n of a sequence.
Top(seq, n) == SubSeq(seq, 1, IF n < Len(seq) THEN n ELSE Len(seq))
Members(seq) == {seq[i] : i \in DOMAIN seq}

Without(seq, old) == SelectSeq(seq, LAMBDA c : c \notin old)

\* The engine's first n hits, less those it was told to leave out.  Only then are the
\* hits dropped that do not look like a company: junk takes up room.
Hits(n, left_out) == Without(Top(Without([i \in Hit |-> i], left_out), n), Junk)

\* A source only adds what those before it have not found.
Merged(found, more) == found \o Without(more, Members(found))

\* A failure of the world is counted.
OneFailure == failures < MaxFailures /\ failures' = failures + 1
NoFailure == UNCHANGED failures

Forget(s) ==
    /\ query' = [query EXCEPT ![s] = 0]
    /\ pos' = [pos EXCEPT ![s] = 1]
    /\ got' = [got EXCEPT ![s] = <<>>]
    /\ known' = [known EXCEPT ![s] = {}]

ForgetSearch(s) ==
    /\ key' = [key EXCEPT ![s] = 0]
    /\ attempts' = [attempts EXCEPT ![s] = 0]
    /\ pauses' = [pauses EXCEPT ![s] = 0]
    /\ tried' = [tried EXCEPT ![s] = {}]
    /\ rotated' = [rotated EXCEPT ![s] = FALSE]

-----------------------------------------------------------------------------
(* A lookup through the registry *)

\* The tracked companies that a request shows: not those of a known headcount outside
\* the band.
Survivors == {tracked \ outside : outside \in SUBSET (tracked \cap Unfit)}

\* It looks for as many companies as they leave to show.
Discover(s) == \E own \in Survivors :
    LET q == MaxCandidates - Cardinality(own) IN
    /\ pc[s] = "idle"
    /\ Cardinality(own) < MaxCandidates
    /\ query' = [query EXCEPT ![s] = q]
    /\ IF cache[q] = NotCached
       THEN /\ Goto(s, "ask")
            /\ overlapped' = (overlapped \/ \E v \in Session : query[v] = q)
            /\ UNCHANGED got
       ELSE /\ Goto(s, "persist")
            /\ \E list \in cache[q] : got' = [got EXCEPT ![s] = list]
            /\ UNCHANGED overlapped
    /\ UNCHANGED <<policy, cache, keyIdx, tracked, pos, known, search, lookups, failures>>

Here(s) == Waterfall[pos[s]]

\* allow
Allowed(p) == ~open[p] /\ calls[p] < Budget

Skip(s) ==
    /\ pc[s] = "ask" /\ pos[s] <= Len(Waterfall)
    /\ ~Allowed(Here(s))
    /\ pos' = [pos EXCEPT ![s] = @ + 1]
    /\ UNCHANGED <<policy, cache, keyIdx, tracked, pc, query, got, known, search, history>>

\* A call is charged before it is made.
Call(s) ==
    /\ pc[s] = "ask" /\ pos[s] <= Len(Waterfall)
    /\ Allowed(Here(s))
    /\ Goto(s, IF Here(s) = "engine" THEN "send" ELSE "wait")
    /\ calls' = [calls EXCEPT ![Here(s)] = @ + 1]
    /\ lookups' = IF Here(s) = "engine" THEN [lookups EXCEPT ![query[s]] = @ + 1] ELSE lookups
    /\ UNCHANGED <<failed, open, cache, keyIdx, tracked, request, search, overlapped, failures>>

\* Mutant of Return: an answer closes the breaker.
ReturnCloses(s, companies) ==
    /\ failed' = [failed EXCEPT ![Here(s)] = 0]
    /\ open' = [open EXCEPT ![Here(s)] = FALSE]
    /\ got' = [got EXCEPT ![s] = Merged(@, companies)]
    /\ pos' = [pos EXCEPT ![s] = @ + 1]
    /\ Goto(s, "ask")
    /\ UNCHANGED <<calls, cache, tracked, query, known, lookups, overlapped>>

\* The source has answered: its failures are forgiven, an open breaker is not.
Return(s, companies) ==
    /\ failed' = [failed EXCEPT ![Here(s)] = 0]
    /\ got' = [got EXCEPT ![s] = Merged(@, companies)]
    /\ pos' = [pos EXCEPT ![s] = @ + 1]
    /\ Goto(s, "ask")
    /\ UNCHANGED <<calls, open, cache, tracked, query, known, lookups, overlapped>>

Answer(s) ==
    /\ pc[s] = "wait"
    /\ Return(s, Top(Listed, query[s]))
    /\ NoFailure
    /\ UNCHANGED <<keyIdx, search>>

\* The source raises: the breaker counts it.
Raise(s) ==
    /\ pc[s] = "wait"
    /\ OneFailure
    /\ LET p == Here(s) IN
          /\ failed' = [failed EXCEPT ![p] = @ + 1]
          /\ open' = [open EXCEPT ![p] = @ \/ failed[p] + 1 >= Threshold]
    /\ pos' = [pos EXCEPT ![s] = @ + 1]
    /\ Goto(s, "ask")
    /\ UNCHANGED <<calls, cache, keyIdx, tracked, query, got, known, search, lookups,
                   overlapped>>

\* All sources are through: the result is cached, empty or not.
Resolve(s) ==
    /\ pc[s] = "ask" /\ pos[s] > Len(Waterfall)
    /\ got' = [got EXCEPT ![s] = Top(@, query[s])]
    /\ cache' = [cache EXCEPT ![query[s]] = {Top(got[s], query[s])}]
    /\ Goto(s, "persist")
    /\ UNCHANGED <<policy, keyIdx, tracked, query, pos, known, search, history>>

-----------------------------------------------------------------------------
(* A search of the engine, which never raises *)

Send(s) ==
    /\ pc[s] = "send"
    /\ attempts[s] < NumKeys + Backoffs
    /\ key' = [key EXCEPT ![s] = keyIdx]
    /\ Goto(s, "sent")
    /\ UNCHANGED <<policy, cache, keyIdx, tracked, request, attempts, pauses, tried,
                   rotated, history>>

Results(s) ==
    /\ pc[s] = "sent"
    /\ Return(s, Hits(query[s], {}))
    /\ NoFailure
    /\ ForgetSearch(s)
    /\ UNCHANGED keyIdx

\* Mutant of Rotated: the key changes only when the pauses are used up.
RotatedLate(s) == IF pauses[s] < Backoffs THEN keyIdx ELSE (keyIdx + 1) % NumKeys

\* The next key of the pool: the one after the key that is in use by now.
Rotated(s) == (keyIdx + 1) % NumKeys

\* 429: the next key, with a pause once the pool is through.
RateLimited(s) ==
    /\ pc[s] = "sent"
    /\ OneFailure
    /\ tried' = [tried EXCEPT ![s] = @ \cup {key[s]}]
    /\ attempts' = [attempts EXCEPT ![s] = @ + 1]
    /\ keyIdx' = Rotated(s)
    /\ rotated' = [v \in Session |->
          rotated[v] \/ (v # s /\ pc[v] \in {"send", "sent"} /\ keyIdx' # keyIdx)]
    /\ pauses' = [pauses EXCEPT ![s] =
          IF (attempts[s] + 1) % NumKeys = 0 /\ @ < Backoffs THEN @ + 1 ELSE @]
    /\ Goto(s, "send")
    /\ UNCHANGED <<policy, cache, tracked, request, key, lookups, overlapped>>

\* Any other error: a pause, as long as there is one left.
Retry(s) ==
    /\ pc[s] = "sent"
    /\ OneFailure
    /\ pauses[s] < Backoffs
    /\ pauses' = [pauses EXCEPT ![s] = @ + 1]
    /\ attempts' = [attempts EXCEPT ![s] = @ + 1]
    /\ Goto(s, "send")
    /\ UNCHANGED <<policy, cache, keyIdx, tracked, request, key, tried, rotated, lookups,
                   overlapped>>

Degrade(s) ==
    /\ pc[s] = "sent"
    /\ OneFailure
    /\ pauses[s] = Backoffs
    /\ Return(s, <<>>)
    /\ ForgetSearch(s)
    /\ UNCHANGED keyIdx

\* The attempts are used up: "all rate-limited".
GiveUp(s) ==
    /\ pc[s] = "send"
    /\ attempts[s] = NumKeys + Backoffs
    /\ Return(s, <<>>)
    /\ NoFailure
    /\ ForgetSearch(s)
    /\ UNCHANGED keyIdx

-----------------------------------------------------------------------------
(* The daily auto-discovery *)

\* A run of the worker holds the lock on the tenant's row until it commits.
TenantLocked == \E v \in Session : pc[v] # "idle" /\ query[v] = 0

\* The tracked companies are read ...
AutoStart(s) ==
    /\ pc[s] = "idle" /\ ~TenantLocked
    /\ known' = [known EXCEPT ![s] = tracked]
    /\ Goto(s, "auto")
    /\ UNCHANGED <<policy, cache, keyIdx, tracked, query, pos, got, search, history>>

\* Mutant of Excluded: nothing is excluded.
ExcludedNone(companies) == {{}}

\* The tracked companies that a search leaves out: as many as the cap allows.
Excluded(companies) ==
    {x \in SUBSET companies :
        Cardinality(x) = IF Cardinality(companies) < ExcludeCap
                         THEN Cardinality(companies) ELSE ExcludeCap}

\* ... and a registry of the run's own is asked for others.  A source that fails gives
\* nothing.
AutoSearch(s) ==
    /\ pc[s] = "auto"
    /\ \E x \in Excluded(known[s]) :
          LET list == Without(Listed, x)
              hits == Hits(Pool, x) IN
          \/ /\ got' = [got EXCEPT ![s] = Top(Merged(list, hits), Pool)]
             /\ NoFailure
          \/ /\ \E answer \in {<<>>, Top(list, Pool), hits} : got' = [got EXCEPT ![s] = answer]
             /\ OneFailure
    /\ Goto(s, "persist")
    /\ UNCHANGED <<policy, cache, keyIdx, tracked, query, pos, known, search, lookups,
                   overlapped>>

-----------------------------------------------------------------------------
(* Adding what was found *)

\* A request leaves out what is in the table now and adds the rest.
Gather(s) ==
    /\ query[s] > 0
    /\ got' = [got EXCEPT ![s] = Without(@, tracked)]
    /\ UNCHANGED known

\* Auto-discovery leaves out what was in the table when the run began and what its gates
\* reject, of which no trace is kept: the crawl before them may fail, so that they see a
\* headcount in one run and none in another.  It adds no more than its target.
Screen(s) ==
    /\ query[s] = 0
    /\ \E rejected \in SUBSET (Unfit \cap Members(got[s])) :
          got' = [got EXCEPT ![s] = Top(Without(@, known[s] \cup rejected), Target)]
    /\ known' = [known EXCEPT ![s] = {}]

Choose(s) ==
    /\ pc[s] = "persist"
    /\ Gather(s) \/ Screen(s)
    /\ Goto(s, "insert")
    /\ UNCHANGED <<policy, cache, keyIdx, tracked, query, pos, search, history>>

\* The domain is unique: an insertion waits for those who have inserted it.
Insert(s) ==
    /\ pc[s] = "insert"
    /\ Members(got[s]) \cap tracked = {}
    /\ \A v \in Session : pc[v] = "commit" => Members(got[v]) \cap Members(got[s]) = {}
    /\ Goto(s, "commit")
    /\ UNCHANGED <<policy, cache, keyIdx, tracked, request, search, history>>

Clash(s) ==
    /\ pc[s] = "insert"
    /\ Members(got[s]) \cap tracked # {}
    /\ Forget(s)
    /\ Goto(s, "idle")
    /\ UNCHANGED <<policy, cache, keyIdx, tracked, search, history>>

Commit(s) ==
    /\ pc[s] = "commit"
    /\ tracked' = tracked \cup Members(got[s])
    /\ Forget(s)
    /\ Goto(s, "idle")
    /\ UNCHANGED <<policy, cache, keyIdx, search, history>>

\* The process of the requests restarts: its registry is new.
Restart ==
    /\ OneFailure
    /\ calls' = [p \in Source |-> 0]
    /\ failed' = [p \in Source |-> 0]
    /\ open' = [p \in Source |-> FALSE]
    /\ cache' = [q \in Query |-> NotCached]
    /\ keyIdx' = 0
    /\ pc' = [s \in Session |-> "idle"]
    /\ query' = [s \in Session |-> 0]
    /\ pos' = [s \in Session |-> 1]
    /\ got' = [s \in Session |-> <<>>]
    /\ known' = [s \in Session |-> {}]
    /\ key' = [s \in Session |-> 0]
    /\ attempts' = [s \in Session |-> 0]
    /\ pauses' = [s \in Session |-> 0]
    /\ tried' = [s \in Session |-> {}]
    /\ rotated' = [s \in Session |-> FALSE]
    /\ lookups' = [q \in Query |-> 0]
    /\ overlapped' = FALSE
    /\ UNCHANGED tracked

-----------------------------------------------------------------------------

Init ==
    /\ calls = [p \in Source |-> 0]
    /\ failed = [p \in Source |-> 0]
    /\ open = [p \in Source |-> FALSE]
    /\ cache = [q \in Query |-> NotCached]
    /\ keyIdx = 0
    /\ tracked = {}
    /\ pc = [s \in Session |-> "idle"]
    /\ query = [s \in Session |-> 0]
    /\ pos = [s \in Session |-> 1]
    /\ got = [s \in Session |-> <<>>]
    /\ known = [s \in Session |-> {}]
    /\ key = [s \in Session |-> 0]
    /\ attempts = [s \in Session |-> 0]
    /\ pauses = [s \in Session |-> 0]
    /\ tried = [s \in Session |-> {}]
    /\ rotated = [s \in Session |-> FALSE]
    /\ lookups = [q \in Query |-> 0]
    /\ overlapped = FALSE
    /\ failures = 0

Lookup(s) == Skip(s) \/ Call(s) \/ Answer(s) \/ Raise(s) \/ Resolve(s)
EngineSearch(s) ==
    Send(s) \/ Results(s) \/ RateLimited(s) \/ Retry(s) \/ Degrade(s) \/ GiveUp(s)
Persist(s) == Choose(s) \/ Insert(s) \/ Clash(s) \/ Commit(s)
Step(s) == Lookup(s) \/ EngineSearch(s) \/ AutoSearch(s) \/ Persist(s)

Next ==
    \/ \E s \in Session : Discover(s) \/ AutoStart(s) \/ Step(s)
    \/ Restart

Spec == Init /\ [][Next]_vars

\* The scheduler enqueues auto-discovery every day, what runs goes on.
FairSpec ==
    /\ Spec
    /\ SF_vars(\E s \in Session : AutoStart(s))
    /\ \A s \in Session : WF_vars(Step(s))

-----------------------------------------------------------------------------
(* Properties *)

TypeOK ==
    /\ calls \in [Source -> Nat] /\ failed \in [Source -> Nat]
    /\ open \in [Source -> BOOLEAN]
    /\ keyIdx \in 0 .. NumKeys - 1
    /\ tracked \in SUBSET Company
    /\ query \in [Session -> Query \cup {0}]
    /\ pos \in [Session -> 1 .. Len(Waterfall) + 1]
    /\ lookups \in [Query -> Nat]
    /\ failures \in 0 .. MaxFailures

\* A breaker stays open for the rest of the process, and while it is open no call
\* is made: an answer to a call that was under way does not close it.
BreakerKept == \A p \in Source : open[p] => (open'[p] /\ calls'[p] = calls[p]) \/ Restart

\* "the same ICP asked twice in a run hits the network once": so it is, unless two
\* lookups of one query are under way together.
AskedOnce == overlapped \/ \A q \in Query : lookups[q] <= 1

\* A search that gives up as rate-limited has tried all keys, unless another
\* search changed the key meanwhile.
TriedAllKeys ==
    \A s \in Session :
        pc[s] = "send" /\ attempts[s] = NumKeys + Backoffs /\ ~rotated[s]
            => tried[s] = 0 .. NumKeys - 1

\* The network is asked as often as need be: once for a query, with every key there is.
AskedAsNeeded == AskedOnce /\ TriedAllKeys

\* What comes back on every run and cannot be added leaves room for another company in
\* what a run asks for: junk, rejected companies, tracked ones beyond the cap.
Room == Cardinality(Junk \cup Unfit) < Pool /\ NumHits <= ExcludeCap + Pool

\* Daily discovery does not dry up while there is room: every company that no gate
\* rejects is tracked in the end.
DiscoveryReachesAll == Room => <>(Company \ Unfit \subseteq tracked)

\* Not so, although the tracked companies are excluded "so it returns NET-NEW ones": what
\* the gates reject is neither tracked nor excluded and may fill the pool of every run.
NeverDriesUp == NumHits <= ExcludeCap + Pool => <>(Company \ Unfit \subseteq tracked)
=============================================================================

---------------------------- MODULE ContactEmail ----------------------------
(***************************************************************************)
(* The e-mail address of a contact: how enrichment finds one, how          *)
(* it is verified, and what a message is sent to                           *)
(* (src/nexus/enrichment, src/nexus/verification, and the verification of  *)
(* recipients in src/nexus/orchestration/tools.py).                        *)
(*                                                                         *)
(* One contact.  Jobs of one process work on it at the same time: each     *)
(* loads the row, awaits a web search or a verifier, and in the end writes *)
(* the columns it has changed.  Verdicts are cached by the registry for    *)
(* the life of the process; only a re-verification goes round the cache.   *)
(*                                                                         *)
(* The addresses 1 .. NumCandidates are those the finder composes of name  *)
(* and domain, the most frequent pattern first; Other is any other one.    *)
(* Confidences are percentages.                                            *)
(***************************************************************************)
EXTENDS Naturals, FiniteSets

CONSTANTS
    Job,            \* concurrent jobs
    NumCandidates,  \* email_finder_max_candidates
    Budget,         \* per_source_budget of the registry
    FailThreshold,  \* failures in a row that open the verifier's circuit
    MaxRequests,    \* bound: jobs started
    MaxFailures,    \* bound: calls of the verifier that fail
    MaxMonths       \* bound: cool-downs that pass

Pattern == 1 .. NumCandidates
Other == NumCandidates + 1
Address == Pattern \cup {Other}
NoAddress == 0

Decisive == {"valid", "invalid", "risky"}
Verdict == Decisive \cup {"unknown"}
Kind == {"enrich", "compose", "send", "reverify"}

MinConfidence == 60
SearchConfidence(a) == IF a \in Pattern THEN 80 ELSE 55
PatternConfidence == 40

\* What a verifier says of its own verdict.
Confidence(verdict) ==
    CASE verdict = "valid" -> 95
      [] verdict = "risky" -> 40
      [] OTHER -> 0

Column == {"email", "status", "confidence", "recent"}
NoResult == [email |-> NoAddress, status |-> "none", confidence |-> 0]
NoRow == [email |-> NoAddress, status |-> "none", confidence |-> 0, recent |-> FALSE]

VARIABLES
    truth,          \* truth[a]: what a working verifier says of an address
    catchAll,       \* the domain of the candidates accepts every address
    row,            \* the contact; "recent": checked within the cool-down
    cache,          \* the registry's verdicts
    calls,          \* calls of the verifier through the registry
    fails, tripped, \* its circuit
    kind, pc, loaded, asked, verdict,   \* per job
    found,          \* the best address so far
    best,           \* the finder's best candidate that is not valid
    stage,          \* what the verification is for
    phone,          \* the web search has found a phone number
    sent,           \* addresses that a message was sent to
    missed,         \* addresses a verification of which came to nothing
    overlapped,     \* two jobs were at work on the contact
    requests, failures, months

world == <<truth, catchAll>>
circuit == <<fails, tripped>>
finder == <<found, best, phone, stage>>
job == <<kind, loaded>>
bounds == <<requests, failures, months>>
vars == <<world, row, cache, calls, circuit, job, pc, asked, verdict, finder, sent,
          missed, overlapped, bounds>>

Goto(j, label) == pc' = [pc EXCEPT ![j] = label]

-----------------------------------------------------------------------------
(* A job starts *)

\* A valid address is not enriched again, nor swept, within the cool-down.
CoolingDown == row.status = "valid" /\ row.recent

MayStart(k) ==
    CASE k = "enrich" -> ~CoolingDown
      [] k = "reverify" -> row.email # NoAddress /\ ~CoolingDown
      [] OTHER -> row.email # NoAddress

Start(j, k) ==
    /\ pc[j] = "idle" /\ MayStart(k)
    /\ requests < MaxRequests /\ requests' = requests + 1
    /\ kind' = [kind EXCEPT ![j] = k]
    /\ loaded' = [loaded EXCEPT ![j] = row]
    /\ overlapped' = (overlapped \/ \E i \in Job : pc[i] # "idle")
    /\ IF k = "enrich"
       THEN Goto(j, "search") /\ UNCHANGED asked
       ELSE Goto(j, "verify") /\ asked' = [asked EXCEPT ![j] = row.email]
    /\ stage' = [stage EXCEPT ![j] = "check"]
    /\ UNCHANGED <<world, row, cache, calls, circuit, verdict, found, best, phone, sent,
                   missed, failures, months>>

-----------------------------------------------------------------------------
(* A verification *)

\* A re-verification uses a verifier of its own, without cache, budget or history.
Fresh(j) == kind[j] = "reverify"

Got(j, v) ==
    /\ verdict' = [verdict EXCEPT ![j] = v]
    /\ Goto(j, "got")

Cached(j) ==
    /\ pc[j] = "verify" /\ ~Fresh(j)
    /\ cache[asked[j]] # "none"
    /\ Got(j, cache[asked[j]])
    /\ UNCHANGED <<world, row, cache, calls, circuit, job, asked, finder, sent, missed,
                   overlapped, bounds>>

\* Beyond the budget the registry does not call, and while its circuit is open the
\* verifier does not: "unknown" at once, which is cached like any verdict.
Refused(j) ==
    /\ pc[j] = "verify" /\ ~Fresh(j)
    /\ cache[asked[j]] = "none"
    /\ calls >= Budget \/ tripped
    /\ calls' = IF calls < Budget THEN calls + 1 ELSE calls
    /\ cache' = [cache EXCEPT ![asked[j]] = "unknown"]
    /\ missed' = missed \cup {asked[j]}
    /\ Got(j, "unknown")
    /\ UNCHANGED <<world, row, circuit, job, asked, finder, sent, overlapped, bounds>>

Ask(j) ==
    /\ pc[j] = "verify"
    /\ Fresh(j) \/ (cache[asked[j]] = "none" /\ calls < Budget /\ ~tripped)
    /\ calls' = IF Fresh(j) THEN calls ELSE calls + 1
    /\ Goto(j, "wait")
    /\ UNCHANGED <<world, row, cache, circuit, job, asked, verdict, finder, sent, missed,
                   overlapped, bounds>>

Answer(j) ==
    /\ pc[j] = "wait"
    /\ LET v == truth[asked[j]] IN
          /\ Got(j, v)
          /\ cache' = IF Fresh(j) THEN cache ELSE [cache EXCEPT ![asked[j]] = v]
    /\ fails' = IF Fresh(j) THEN fails ELSE 0
    /\ UNCHANGED <<world, row, calls, tripped, job, asked, finder, sent, missed,
                   overlapped, bounds>>

\* The verifier does not answer, or has no opinion.
Miss(j) ==
    /\ pc[j] = "wait"
    /\ failures < MaxFailures /\ failures' = failures + 1
    /\ Got(j, "unknown")
    /\ missed' = missed \cup {asked[j]}
    /\ IF Fresh(j)
       THEN UNCHANGED <<cache, circuit>>
       ELSE /\ cache' = [cache EXCEPT ![asked[j]] = "unknown"]
            /\ fails' = fails + 1
            /\ tripped' = (tripped \/ fails + 1 >= FailThreshold)
    /\ UNCHANGED <<world, row, calls, job, asked, finder, sent, overlapped, requests,
                   months>>

-----------------------------------------------------------------------------
(* The waterfall of an enrichment *)

\* The higher confidence wins, the first of equals.
Better(r, old) == IF r.confidence > old.confidence THEN r ELSE old

\* The providers after this one are left out when both channels clear the bar.
Enough(r, hasPhone) == r.confidence >= MinConfidence /\ hasPhone

\* The final pass gives an address without a verdict one.
Final(j, r) ==
    IF r.email # NoAddress /\ r.status = "none"
    THEN /\ Goto(j, "verify")
         /\ asked' = [asked EXCEPT ![j] = r.email]
         /\ stage' = [stage EXCEPT ![j] = "final"]
    ELSE Goto(j, "save") /\ UNCHANGED <<asked, stage>>

\* The web search: nothing, or an address of the domain or elsewhere.
Search(j) ==
    /\ pc[j] = "search"
    /\ \E a \in Address \cup {NoAddress}, p \in BOOLEAN :
          LET r == IF a = NoAddress THEN NoResult
                   ELSE [email |-> a, status |-> "none",
                         confidence |-> SearchConfidence(a)]
          IN /\ found' = [found EXCEPT ![j] = r]
             /\ phone' = [phone EXCEPT ![j] = p]
             /\ IF Enough(r, p)
                THEN Final(j, r)
                ELSE Goto(j, "find") /\ UNCHANGED <<asked, stage>>
    /\ UNCHANGED <<world, row, cache, calls, circuit, job, verdict, best, sent, missed,
                   overlapped, bounds>>

Candidates == 1 .. NumCandidates

\* The finder begins: the candidates are verified in order.
Find(j) ==
    /\ pc[j] = "find"
    /\ asked' = [asked EXCEPT ![j] = 1]
    /\ best' = [best EXCEPT ![j] = NoResult]
    /\ stage' = [stage EXCEPT ![j] = "finder"]
    /\ Goto(j, "verify")
    /\ UNCHANGED <<world, row, cache, calls, circuit, job, verdict, found, phone, sent,
                   missed, overlapped, bounds>>


Result(a, v) == [email |-> a, status |-> v, confidence |-> Confidence(v)]

\* Mutant of Ranked: the first candidate is paired with the best verdict.
RankedFirst(old, a, v) ==
    IF v # "invalid" /\ (old = NoResult \/ (v = "risky" /\ old.status # "risky"))
    THEN Result(1, v) ELSE old

\* The best candidate that is not invalid, a risky one before an unknown one, the
\* earlier of equals, with its own verdict.
Ranked(old, a, v) ==
    IF v # "invalid" /\ (old = NoResult \/ (v = "risky" /\ old.status # "risky"))
    THEN Result(a, v) ELSE old

\* After the finder: the blind guess, unless the result is good enough by now.
Guessed(j, r) ==
    LET merged == Better(r, found[j])
        guess == [email |-> 1, status |-> "none", confidence |-> PatternConfidence]
    IN  IF Enough(merged, phone[j]) THEN merged ELSE Better(guess, merged)

\* The finder stops at a valid candidate, or at the first if the domain accepts
\* every address, and takes the best one when it is through.
FinderGot(j) ==
    /\ pc[j] = "got" /\ stage[j] = "finder"
    /\ LET a == asked[j]
           v == verdict[j]
           ranked == Ranked(best[j], a, v)
           Done(r) == LET chosen == Guessed(j, r) IN
                         /\ found' = [found EXCEPT ![j] = chosen]
                         /\ best' = [best EXCEPT ![j] = NoResult]
                         /\ Final(j, chosen)
       IN  CASE a = 1 /\ catchAll /\ v = "risky" ->
                   Done([Result(a, v) EXCEPT !.confidence = 50])
             [] v = "valid" -> Done(Result(a, v))
             [] OTHER -> IF a + 1 \in Candidates
                         THEN /\ best' = [best EXCEPT ![j] = ranked]
                              /\ asked' = [asked EXCEPT ![j] = a + 1]
                              /\ Goto(j, "verify")
                              /\ UNCHANGED <<found, stage>>
                         ELSE Done(ranked)
    /\ UNCHANGED <<world, row, cache, calls, circuit, job, verdict, phone, sent, missed,
                   overlapped, bounds>>

FinalGot(j) ==
    /\ pc[j] = "got" /\ stage[j] = "final"
    /\ found' = [found EXCEPT ![j].status = verdict[j],
                              ![j].confidence = IF verdict[j] = "valid" THEN 95 ELSE @]
    /\ Goto(j, "save")
    /\ UNCHANGED <<world, row, cache, calls, circuit, job, asked, verdict, best, phone,
                   stage, sent, missed, overlapped, bounds>>

-----------------------------------------------------------------------------
(* The row is written *)

\* Only what differs from what was loaded is written; the time of a check always does.
Write(j, new, checked) ==
    row' = [c \in Column |->
              IF c = "recent" THEN row.recent \/ checked
              ELSE IF new[c] # loaded[j][c] THEN new[c] ELSE row[c]]

Forget(j) ==
    /\ Goto(j, "idle")
    /\ kind' = [kind EXCEPT ![j] = "none"]
    /\ loaded' = [loaded EXCEPT ![j] = NoRow]
    /\ asked' = [asked EXCEPT ![j] = NoAddress]
    /\ verdict' = [verdict EXCEPT ![j] = "none"]
    /\ found' = [found EXCEPT ![j] = NoResult]
    /\ best' = [best EXCEPT ![j] = NoResult]
    /\ phone' = [phone EXCEPT ![j] = FALSE]
    /\ stage' = [stage EXCEPT ![j] = "none"]

\* An address replaces one of no higher confidence.
Save(j) ==
    /\ pc[j] = "save"
    /\ LET r == found[j] IN
       IF r.email # NoAddress /\ r.confidence >= loaded[j].confidence
       THEN Write(j, [loaded[j] EXCEPT
                        !.email = r.email, !.confidence = r.confidence,
                        !.status = IF r.status = "none" THEN @ ELSE r.status],
                  r.status # "none")
       ELSE UNCHANGED row
    /\ Forget(j)
    /\ UNCHANGED <<world, cache, calls, circuit, sent, missed, overlapped, bounds>>

MaySend(j) == verdict[j] # "invalid"

\* A verdict on the address on file.  Only a re-verification raises the confidence.
CheckGot(j) ==
    /\ pc[j] = "got" /\ stage[j] = "check"
    /\ LET v == verdict[j]
           Raised(c) == IF kind[j] = "reverify" /\ v = "valid" /\ c < 95 THEN 95 ELSE c
       IN Write(j, [loaded[j] EXCEPT !.status = v, !.confidence = Raised(@)], TRUE)
    /\ sent' = IF kind[j] = "send" /\ MaySend(j)
               THEN sent \cup {asked[j]} ELSE sent
    /\ Forget(j)
    /\ UNCHANGED <<world, cache, calls, circuit, missed, overlapped, bounds>>

-----------------------------------------------------------------------------
(* Time *)

CircuitCloses ==
    /\ tripped
    /\ tripped' = FALSE
    /\ UNCHANGED <<world, row, cache, calls, fails, job, pc, asked, verdict, finder, sent,
                   missed, overlapped, bounds>>

CoolDownEnds ==
    /\ row.recent /\ months < MaxMonths
    /\ months' = months + 1
    /\ row' = [row EXCEPT !.recent = FALSE]
    /\ UNCHANGED <<world, cache, calls, circuit, job, pc, asked, verdict, finder, sent,
                   missed, overlapped, requests, failures>>

-----------------------------------------------------------------------------

\* A contact comes without an address, or with one that nobody has verified.
Init ==
    /\ catchAll \in BOOLEAN
    /\ truth \in [Address -> Decisive]
    /\ \A a \in Pattern : catchAll => truth[a] = "risky"
    /\ row \in {NoRow, [NoRow EXCEPT !.email = Other]}
    /\ cache = [a \in Address |-> "none"]
    /\ calls = 0 /\ fails = 0 /\ tripped = FALSE
    /\ kind = [j \in Job |-> "none"]
    /\ pc = [j \in Job |-> "idle"]
    /\ loaded = [j \in Job |-> NoRow]
    /\ asked = [j \in Job |-> NoAddress]
    /\ verdict = [j \in Job |-> "none"]
    /\ found = [j \in Job |-> NoResult]
    /\ best = [j \in Job |-> NoResult]
    /\ phone = [j \in Job |-> FALSE]
    /\ stage = [j \in Job |-> "none"]
    /\ sent = {} /\ missed = {} /\ overlapped = FALSE
    /\ requests = 0 /\ failures = 0 /\ months = 0

Verification(j) == Cached(j) \/ Refused(j) \/ Ask(j) \/ Answer(j) \/ Miss(j)
Waterfall(j) == Search(j) \/ Find(j) \/ FinderGot(j) \/ FinalGot(j) \/ Save(j)

Next ==
    \/ \E j \in Job :
          \/ \E k \in Kind : Start(j, k)
          \/ Verification(j) \/ Waterfall(j) \/ CheckGot(j)
    \/ CircuitCloses \/ CoolDownEnds

Spec == Init /\ [][Next]_vars

-----------------------------------------------------------------------------
(* Properties *)

TypeOK ==
    /\ truth \in [Address -> Decisive] /\ catchAll \in BOOLEAN
    /\ row.email \in Address \cup {NoAddress}
    /\ row.status \in Verdict \cup {"none"} /\ row.recent \in BOOLEAN
    /\ cache \in [Address -> Verdict \cup {"none"}]
    /\ kind \in [Job -> Kind \cup {"none"}]
    /\ asked \in [Job -> Address \cup {NoAddress}]
    /\ verdict \in [Job -> Verdict \cup {"none"}]

\* The status of a contact is the verdict on the address that is on file, never
\* on another candidate, as long as no two jobs had the contact in hand at once.
VerdictIsOfEmail ==
    overlapped \/ (row.status \in Decisive => row.status = truth[row.email])

\* "a hard-invalid address never gets a send", whatever else runs at the time:
\* except one whose verification has come to nothing before, for good as the
\* registry caches that.
InvalidNotSent == \A a \in sent : truth[a] = "invalid" => a \in missed

\* An enrichment with a verifier that answers ends with the valid candidate if
\* there is one, or with an address of the domain that the web search found.
ValidIsFound ==
    \A j \in Job :
        /\ pc[j] = "save" /\ missed \cap Pattern = {}
        /\ \E a \in Pattern : truth[a] = "valid"
        => truth[found[j].email] = "valid" \/ found[j].confidence = 80

\* The three, for what a contact is sent.
AddressesHold == VerdictIsOfEmail /\ InvalidNotSent /\ ValidIsFound
=============================================================================

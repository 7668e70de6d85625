-------------------------------- MODULE Digest ------------------------------
(***************************************************************************)
(* The daily digest of a tenant that has opted in                          *)
(* (handle_send_daily_digests): jobs that the heartbeat enqueues on every  *)
(* tick look for the last digest, count what the last interval has brought *)
(* and add an alert.  "Idempotent per interval: the previous digest's      *)
(* timestamp is the gate".                                                 *)
(***************************************************************************)
EXTENDS Naturals, Sequences

CONSTANTS
    Job,       \* jobs that run at the same time
    Interval,  \* digest_interval_hours, in instants: at least one
    Horizon    \* bound: the last instant

VARIABLES
    time,
    news,       \* the instants of signals and scores in the database
    digests,    \* the digests sent: when, and the instants counted in it
    pc,
    start,      \* start[j]: the job's now
    report,     \* report[j]: the instants it has counted
    overlapped  \* two jobs have passed the gate of one interval

job == <<pc, start, report>>
vars == <<time, news, digests, job, overlapped>>

Instant == 1 .. Horizon
Goto(j, label) == pc' = [pc EXCEPT ![j] = label]

Init ==
    /\ time = 1 /\ news = {}
    /\ digests = <<>>
    /\ pc = [j \in Job |-> "idle"]
    /\ start = [j \in Job |-> 0]
    /\ report = [j \in Job |-> {}]
    /\ overlapped = FALSE

Close(j) ==
    /\ Goto(j, "idle")
    /\ start' = [start EXCEPT ![j] = 0]
    /\ report' = [report EXCEPT ![j] = {}]

\* A tenant that has opted in: the job's clock is read once, for all tenants.
Begin(j) ==
    /\ pc[j] = "idle"
    /\ start' = [start EXCEPT ![j] = time]
    /\ Goto(j, "gate")
    /\ UNCHANGED <<time, news, digests, report, overlapped>>

\* The window is one interval back from the job's clock.
InWindow(j, t) == t + Interval >= start[j]

\* Mutant of Sent: the oldest digest is looked at.
SentFirst(j) == digests # <<>> /\ digests[1].at + Interval > start[j]

\* A digest was sent within the window.
Sent(j) == digests # <<>> /\ digests[Len(digests)].at + Interval > start[j]

Gate(j) ==
    /\ pc[j] = "gate"
    /\ IF Sent(j)
       THEN Close(j) /\ UNCHANGED overlapped
       ELSE /\ Goto(j, "count")
            /\ overlapped' = (overlapped \/ \E k \in Job : pc[k] \in {"count", "add"})
            /\ UNCHANGED <<start, report>>
    /\ UNCHANGED <<time, news, digests>>

\* A workspace where nothing is new and no task is open gets no digest.
Count(j) ==
    /\ pc[j] = "count"
    /\ LET counted == {t \in news : InWindow(j, t)}
       IN  \/ counted = {} /\ Close(j)
           \/ /\ report' = [report EXCEPT ![j] = counted]
              /\ Goto(j, "add")
              /\ UNCHANGED start
    /\ UNCHANGED <<time, news, digests, overlapped>>

\* The alert is added, and committed with the session.
Add(j) ==
    /\ pc[j] = "add"
    /\ digests' = Append(digests, [at |-> time, news |-> report[j]])
    /\ Close(j)
    /\ UNCHANGED <<time, news, overlapped>>

\* An exception or a death.
Fail(j) ==
    /\ pc[j] # "idle"
    /\ Close(j)
    /\ UNCHANGED <<time, news, digests, overlapped>>

\* What happens now, or has happened within the window and is only ingested now.
News(t) ==
    /\ t <= time /\ t + Interval >= time
    /\ news' = news \cup {t}
    /\ UNCHANGED <<time, digests, job, overlapped>>

Tick ==
    /\ time < Horizon
    /\ time' = time + 1
    /\ UNCHANGED <<news, digests, job, overlapped>>

Next ==
    \/ \E j \in Job : Begin(j) \/ Gate(j) \/ Count(j) \/ Add(j) \/ Fail(j)
    \/ \E t \in Instant : News(t)
    \/ Tick

Spec == Init /\ [][Next]_vars

-----------------------------------------------------------------------------
(* Properties *)

\* A tenant gets one digest in an interval, unless two jobs have looked for the last one
\* before either has sent (the gate is a select, not a claim).
OnePerInterval ==
    overlapped \/ \A i \in 2 .. Len(digests) : digests[i].at >= digests[i - 1].at + Interval

\* What one digest has counted the next does not count again, but for what happens at the
\* instant it is sent.
CountedOnce ==
    overlapped \/ \A i, k \in DOMAIN digests :
        i < k => \A t \in digests[i].news \cap digests[k].news : t = digests[i].at

\* No digest repeats another.
DigestsAgree == OnePerInterval /\ CountedOnce

\* Not so: what happens is in some digest.  A digest that is late by part of an interval
\* counts one interval back all the same, and nothing before.
NothingMissed ==
    \A i \in 2 .. Len(digests) : \A t \in news :
        t < digests[i - 1].at \/ t > digests[i].at \/ \E k \in DOMAIN digests : t \in digests[k].news
=============================================================================

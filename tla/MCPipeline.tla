------------------------------ MODULE MCPipeline -----------------------------
(***************************************************************************)
(* Three components that work on the accounts of a tenant and share no     *)
(* row: the pipeline of one account's signals, the book of accounts with   *)
(* their people, and the digest of what has happened.  Each behaviour is   *)
(* one of one of them, so that a single run explores the union of their    *)
(* states and not the product.                                             *)
(***************************************************************************)
EXTENDS AccountPipeline

CONSTANTS
    Domain, CrmDomain, Person, Persona, MaxRequests, Nobody,
    Job, Interval, Horizon

ASSUME SpellingAssumption == CrmDomain \in Domain
ASSUME NobodyAssumption == Nobody \notin Session
ASSUME IntervalAssumption == Interval \in Nat
ASSUME HorizonAssumption == Horizon \in Nat

VARIABLES
    part,       \* the component at work
    book, people, lock, at, op, on, base, mem, seen, found, overtaken, twice, requests,
    time, news, digests, doing, start, report, doubled

Book == INSTANCE AccountBook WITH pc <- at
Daily == INSTANCE Digest WITH pc <- doing, overlapped <- doubled

accounts == <<book, people, lock, at, op, on, base, mem, seen, found, overtaken, twice, requests>>
digest == <<time, news, digests, doing, start, report, doubled>>

\* What a component that is not at work starts from is of no account: one state will do.
MCInit ==
    /\ part \in {"pipeline", "accounts", "digest"}
    /\ Init /\ Book!Init /\ Daily!Init
    /\ part # "accounts" => book[CrmDomain] = Book!Absent

MCNext ==
    \/ part = "pipeline" /\ Next /\ UNCHANGED <<part, accounts, digest>>
    \/ part = "accounts" /\ Book!Next /\ UNCHANGED <<part, vars, digest>>
    \/ part = "digest" /\ Daily!Next /\ UNCHANGED <<part, vars, accounts>>

\* The fairness of FairSpec, where the pipeline is at work.
MCSpec ==
    /\ MCInit
    /\ [][MCNext]_<<part, vars, accounts, digest>>
    /\ \A w \in Session :
          /\ SF_vars(part = "pipeline" /\ Refresh(w))
          /\ WF_vars(part = "pipeline" /\ Step(w))

\* The archive, the people and what reps have entered hold together (AccountBook).
BookHolds == [][Book!InOrder]_accounts

\* No digest repeats another (Digest).
DigestsAgree == Daily!DigestsAgree
=============================================================================

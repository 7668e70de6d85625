----------------------------- MODULE NetworkSync -----------------------------
(***************************************************************************)
(* The relationship graph: the accounts members connect, their tokens, and *)
(* the synchronisation of their contacts (src/nexus/network,               *)
(* src/nexus/api/routers/network.py, and handle_sync_network_account of    *)
(* src/nexus/workers/tasks.py).                                            *)
(*                                                                         *)
(* A sync is one transaction: it loads the account, refreshes the access   *)
(* token, fetches what is new since the cursor, looks up what the graph    *)
(* has of it, and commits; each of these awaits the network or the         *)
(* database, and other syncs and requests run in between.                  *)
(*                                                                         *)
(* A member has one account of a provider that is synced, and any number   *)
(* of one that is only imported into.  An edge is a member's to a person   *)
(* through a provider: the accounts of one provider share it.              *)
(*                                                                         *)
(* Contact n is the n-th that the provider's address book of an account    *)
(* gets; it is the same person in each book.  Tokens are numbered.  What   *)
(* the status of an account says of its last sync decides nothing.         *)
(***************************************************************************)
EXTENDS Naturals, FiniteSets

CONSTANTS
    OAuth,          \* accounts with a provider that is synced, one per member
    Rotating,       \* those of them whose provider rotates the refresh token on use
    Manual,         \* a member's accounts with a provider that is only imported from
    Sync,           \* jobs and import requests at work
    MaxContacts,    \* bound: contacts in a book
    MaxTokens,      \* bound: tokens the providers issue
    MaxSyncs,       \* bound: syncs and imports started
    MaxAborts       \* bound: syncs rolled back by a crash

Source == OAuth \cup Manual
Contact == 1 .. MaxContacts
Pooling == {"private", "pooled"}

\* The accounts of the member and provider of s: an edge that one makes is that of all.
Sharing(s) == IF s \in Manual THEN Manual ELSE {s}

NoAccount == [status |-> "none", token |-> 0, expired |-> FALSE, cursor |-> 0, given |-> FALSE,
              pooling |-> "private"]
NoSync == [source |-> "none", account |-> NoAccount, token |-> 0, refreshed |-> FALSE, upto |-> 0,
           given |-> FALSE, batch |-> {}, mine |-> {}, fresh |-> {}, person |-> <<>>, known |-> {}]

VARIABLES
    book,           \* external: contacts in each provider's book
    valid,          \* external: refresh tokens the provider accepts
    issued,         \* tokens issued
    account,        \* NetworkSourceAccount; given: its cursor came with an import
    identities,     \* NetworkIdentity rows: <<account, contact>>
    persons,        \* NetworkPerson rows: <<contact, the job that added it>>
    edges,          \* NetworkEdge rows: the account that made it, contact, person and pooling
    phase, sync,     \* per job: what it does next, and what it works with
    lost,           \* a rotated token was rolled back
    switched,        \* pooling was switched during a sync
    doubled,        \* contacts that two jobs were about to add at the same time
    syncs, aborts

provider == <<book, valid, issued>>
graph == <<identities, persons, edges>>
history == <<lost, switched, doubled>>
vars == <<provider, account, graph, phase, sync, history, syncs, aborts>>

Init ==
    /\ book = [s \in Source |-> 0]
    /\ valid = [s \in Source |-> {}]
    /\ issued = 0
    /\ account = [s \in Source |-> NoAccount]
    /\ identities = {}
    /\ persons = {}
    /\ edges = {}
    /\ phase = [j \in Sync |-> "idle"]
    /\ sync = [j \in Sync |-> NoSync]
    /\ lost = [s \in Source |-> FALSE]
    /\ switched = [s \in Source |-> FALSE]
    /\ doubled = {}
    /\ syncs = 0
    /\ aborts = 0

Working(s) == \E j \in Sync : sync[j].source = s

Goto(j, from, to, work) ==
    /\ phase[j] = from
    /\ phase' = [phase EXCEPT ![j] = to]
    /\ sync' = [sync EXCEPT ![j] = work]

End(j, from) == Goto(j, from, "idle", NoSync)

-----------------------------------------------------------------------------
(* The member. *)

\* The provider has redirected back with a code, which is exchanged for tokens.
Connect(s) ==
    /\ s \in OAuth
    /\ issued < MaxTokens /\ issued' = issued + 1
    /\ valid' = [valid EXCEPT ![s] = @ \cup {issued'}]
    /\ account' = [account EXCEPT ![s] = [@ EXCEPT !.status = "connected", !.token = issued',
                                                   !.expired = FALSE]]
    /\ lost' = [lost EXCEPT ![s] = FALSE]
    /\ UNCHANGED <<book, graph, phase, sync, switched, doubled, syncs, aborts>>

\* An account without tokens.
Create(s) ==
    /\ s \in Manual /\ account[s].status = "none"
    /\ account' = [account EXCEPT ![s].status = "connected"]
    /\ UNCHANGED <<provider, graph, phase, sync, history, syncs, aborts>>

\* The edges that the account has made follow; those it shares but did not make do not.
SetPooling(s) ==
    /\ account[s].status # "none"
    /\ \E enabled \in Pooling :
          /\ account' = [account EXCEPT ![s].pooling = enabled]
          /\ edges' = {IF e.source = s THEN [e EXCEPT !.pooling = enabled] ELSE e : e \in edges}
    /\ switched' = [switched EXCEPT ![s] = Working(s)]
    /\ UNCHANGED <<provider, identities, persons, phase, sync, lost, doubled, syncs, aborts>>

\* An upload: its contacts are resolved and stored as those of a sync, with the cursor that
\* the client has sent, or none.
Import(j, s) ==
    /\ account[s].status # "none"
    /\ syncs < MaxSyncs /\ syncs' = syncs + 1
    /\ \E batch \in SUBSET Contact, upto \in 0 .. MaxContacts :
          Goto(j, "idle", "resolve", [NoSync EXCEPT !.source = s, !.account = account[s],
                                                    !.token = account[s].token, !.batch = batch,
                                                    !.upto = upto, !.given = upto # 0])
    /\ UNCHANGED <<provider, account, graph, history, aborts>>

-----------------------------------------------------------------------------
(* A sync. *)

\* A job for an account that is only imported into ends where it starts.
Start(j, s) ==
    /\ s \in OAuth /\ account[s].status # "none"
    /\ syncs < MaxSyncs /\ syncs' = syncs + 1
    /\ Goto(j, "idle", IF account[s].expired THEN "refresh" ELSE "fetch",
            [NoSync EXCEPT !.source = s, !.account = account[s], !.token = account[s].token])
    /\ UNCHANGED <<provider, account, graph, history, aborts>>

\* A provider that rotates answers with a new refresh token; the old one is then void.
Refresh(j) ==
    LET s == sync[j].source
    IN  /\ phase[j] = "refresh" /\ sync[j].token \in valid[s]
        /\ \/ /\ s \notin Rotating
              /\ Goto(j, "refresh", "fetch", [sync[j] EXCEPT !.refreshed = TRUE])
              /\ UNCHANGED <<valid, issued>>
           \/ /\ s \in Rotating
              /\ issued < MaxTokens /\ issued' = issued + 1
              /\ valid' = [valid EXCEPT ![s] = (@ \ {sync[j].token}) \cup {issued'}]
              /\ Goto(j, "refresh", "fetch", [sync[j] EXCEPT !.refreshed = TRUE, !.token = issued'])
        /\ UNCHANGED <<book, account, graph, history, syncs, aborts>>

\* The tokens, if the sync has refreshed them.
Stamped(j) ==
    [account[sync[j].source] EXCEPT !.token = IF sync[j].refreshed THEN sync[j].token ELSE @,
                                    !.expired = @ /\ ~sync[j].refreshed]

\* Mutant of Fails: the tokens are not saved.
FailsUnsaved(j) ==
    /\ phase[j] \in {"refresh", "fetch"}
    /\ End(j, phase[j])
    /\ UNCHANGED <<provider, account, graph, history, syncs, aborts>>

\* The failure is committed, with the tokens a refresh has brought.
Fails(j) ==
    /\ phase[j] \in {"refresh", "fetch"}
    /\ account' = [account EXCEPT ![sync[j].source] = Stamped(j)]
    /\ End(j, phase[j])
    /\ UNCHANGED <<provider, graph, history, syncs, aborts>>

\* All pages since the cursor, or the whole book if the provider does not know the cursor;
\* without a next cursor if there were too many pages, or one of them failed.
Fetch(j) ==
    LET s == sync[j].source
    IN  /\ phase[j] = "fetch"
        /\ \E since \in {0, sync[j].account.cursor}, last \in 0 .. book[s] :
              Goto(j, "fetch", "resolve",
                   [sync[j] EXCEPT !.batch = (since + 1) .. last,
                                   !.upto = IF last = book[s] THEN last ELSE 0,
                                   !.given = since # 0 /\ sync[j].account.given])
        /\ UNCHANGED <<provider, account, graph, history, syncs, aborts>>

\* Persons are found by address, in any of their rows, edges by person and identities by account.
Resolve(j) ==
    LET s == sync[j].source
        batch == sync[j].batch
        fresh == {n \in batch : ~\E p \in Sync : <<n, p>> \in persons}
    IN  /\ \E person \in [batch -> Sync] :
              /\ \A n \in batch : IF n \in fresh THEN person[n] = j ELSE <<n, person[n]>> \in persons
              /\ Goto(j, "resolve", "commit",
                      [sync[j] EXCEPT !.fresh = fresh, !.mine = {n \in batch : <<s, n>> \in identities},
                                      !.person = person,
                                      !.known = {e \in edges : /\ e.source \in Sharing(s) /\ e.contact \in batch
                                                               /\ e.person = person[e.contact]}])
        /\ doubled' = doubled \cup {n \in fresh : \E k \in Sync \ {j} : n \in sync[k].fresh}
        /\ UNCHANGED <<provider, account, graph, lost, switched, syncs, aborts>>

\* The contacts of the batch that the sync has found no edge of.
Missing(j) == {n \in sync[j].batch : \A e \in sync[j].known : e.contact # n}

\* An edge or an identity that was added meanwhile violates their unique constraints.
Conflict(j) ==
    \E n \in sync[j].batch :
        \/ n \notin sync[j].mine /\ <<sync[j].source, n>> \in identities
        \/ /\ n \in Missing(j)
           /\ \E e \in edges : /\ e.source \in Sharing(sync[j].source)
                               /\ e.contact = n /\ e.person = sync[j].person[n]

\* An edge takes the pooling of the account that is synced, as the sync has read the two;
\* it remains that of the account that made it.
Ingest(j) ==
    LET pooling == sync[j].account.pooling
        Written(e) == \E k \in sync[j].known : k.pooling # pooling /\ [e EXCEPT !.pooling = k.pooling] = k
    IN  {IF Written(e) THEN [e EXCEPT !.pooling = pooling] ELSE e : e \in edges}
        \cup {[source |-> sync[j].source, contact |-> n, person |-> sync[j].person[n],
               pooling |-> pooling] : n \in Missing(j)}

Commit(j) ==
    LET s == sync[j].source
        ahead == sync[j].upto # sync[j].account.cursor
    IN  /\ phase[j] = "commit" /\ ~Conflict(j)
        /\ edges' = Ingest(j)
        /\ identities' = identities \cup {s} \X sync[j].batch
        /\ persons' = persons \cup sync[j].fresh \X {j}
        /\ account' = [account EXCEPT ![s] = [Stamped(j) EXCEPT
                            !.cursor = IF ahead THEN sync[j].upto ELSE @,
                            !.given = IF ahead THEN sync[j].given ELSE @]]
        /\ End(j, "commit")
        /\ UNCHANGED <<provider, history, syncs, aborts>>

\* A rolled back sync leaves nothing, but a token that was rotated is gone.
RollsBack(j) ==
    LET s == sync[j].source
    IN  /\ lost' = [lost EXCEPT ![s] = @ \/ sync[j].token # sync[j].account.token]
        /\ End(j, phase[j])
        /\ UNCHANGED <<provider, account, graph, switched, doubled, syncs>>

CommitConflict(j) ==
    /\ phase[j] = "commit" /\ Conflict(j)
    /\ RollsBack(j)
    /\ UNCHANGED aborts

Crash(j) ==
    /\ phase[j] # "idle"
    /\ aborts < MaxAborts /\ aborts' = aborts + 1
    /\ RollsBack(j)

-----------------------------------------------------------------------------
(* The provider. *)

AddContact(s) ==
    /\ s \in OAuth /\ book[s] < MaxContacts
    /\ book' = [book EXCEPT ![s] = @ + 1]
    /\ UNCHANGED <<valid, issued, account, graph, phase, sync, history, syncs, aborts>>

ExpireAccess(s) ==
    /\ s \in OAuth /\ account[s].status # "none" /\ ~account[s].expired
    /\ account' = [account EXCEPT ![s].expired = TRUE]
    /\ UNCHANGED <<provider, graph, phase, sync, history, syncs, aborts>>

Next ==
    \/ \E s \in Source : Connect(s) \/ Create(s) \/ SetPooling(s) \/ AddContact(s) \/ ExpireAccess(s)
    \/ \E j \in Sync :
          \/ \E s \in Source : Start(j, s) \/ Import(j, s)
          \/ Refresh(j) \/ Fails(j) \/ Fetch(j) \/ Resolve(j)
          \/ Commit(j) \/ CommitConflict(j) \/ Crash(j)

Spec == Init /\ [][Next]_vars
-----------------------------------------------------------------------------
(* Properties. *)

\* The stored refresh token is one the provider accepts, unless a sync that has just got
\* another one is still to commit, or was rolled back.
TokenKept ==
    \A s \in OAuth :
        \/ account[s].status = "none" \/ lost[s]
        \/ account[s].token \in valid[s]
        \/ \E j \in Sync : sync[j].source = s /\ sync[j].token # sync[j].account.token

\* The member of s has an edge to contact n.
InGraph(s, n) == \E e \in edges : e.source \in Sharing(s) /\ e.contact = n

\* s is the only one of the accounts that share its edges to have put in contact n.
Only(s, n) == \A t \in Sharing(s) \ {s} : <<t, n>> \notin identities

\* Whatever syncs and imports overlap, fail or die:
\* the graph has every contact up to a cursor that syncs have set, so that the next
\* incremental sync misses nobody - a cursor that a client has sent is taken at its word;
\* the edges to contacts that a member has through one account alone are pooled if and only
\* if the account is, so that nobody sees what is kept private, unless the member switched
\* during a sync - those that two accounts share have the pooling of the last one written;
\* and one person is one row, unless two syncs were about to add it.
GraphAgrees ==
    /\ \A s \in Source : account[s].given \/ \A n \in 1 .. account[s].cursor : InGraph(s, n)
    /\ \A e \in edges : \/ switched[e.source] \/ ~Only(e.source, e.contact)
                        \/ e.pooling = account[e.source].pooling
    /\ \A n \in Contact : \A p, q \in Sync :
          <<n, p>> \in persons /\ <<n, q>> \in persons => p = q \/ n \in doubled

\* Not so: what is pooled is in an account that is pooled.  An edge keeps the pooling that an
\* import of another account has given it, whatever that one is switched to then.
PooledByAnAccount ==
    \A e \in edges : e.pooling = "pooled" =>
        \E t \in Sharing(e.source) : account[t].pooling = "pooled" \/ switched[t]
=============================================================================

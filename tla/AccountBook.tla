----------------------------- MODULE AccountBook ----------------------------
(***************************************************************************)
(* One company in a tenant's book of accounts, under each spelling of its  *)
(* domain, and the people of each account: what reps, imports, the CRM,    *)
(* enrichment from the web, the re-screen of auto-discovery, look-alikes   *)
(* and the search for contacts write to them.                              *)
(*                                                                         *)
(* A transaction loads the row, may wait for the web, and writes back the  *)
(* columns it has changed: a JSON column as a whole.  The first flush      *)
(* takes the row's lock, an insert that of the unique (tenant, domain).    *)
(* Whether an account is archived is in two columns, archived_at and the   *)
(* legacy flag in custom_fields, "so a rollback to code that still reads   *)
(* the JSON flag stays correct".                                           *)
(***************************************************************************)
EXTENDS Naturals, FiniteSets

CONSTANTS
    Session,     \* transactions that run at the same time
    Domain,      \* spellings that domain_from_url makes the same
    CrmDomain,   \* the one the CRM has
    Person,      \* who may be found, by name
    Persona,     \* the titles that the stub provider gives for people
    MaxRequests, \* bound: requests and jobs
    Nobody

VARIABLES
    book,      \* book[d]: the committed account whose domain is spelt d
    people,    \* people[d]: the names of its committed contacts
    lock,      \* lock[d]: who has flushed a change of that row
    pc, op, on,
    base, mem, \* the row as loaded, and as changed since
    seen,      \* the names that were looked up before the search for people
    found,     \* the contacts to insert
    overtaken, \* accounts where one wrote what another's commit had changed since it looked
    twice,     \* accounts where a search has added somebody who was there
    requests

rows == <<book, people>>
session == <<pc, op, on, base, mem, seen, found>>
history == <<overtaken, twice>>
vars == <<rows, lock, session, history, requests>>

\* An account, or the absence of one; custom_fields has the legacy flag and a description.
Absent == [source |-> "none", crm |-> FALSE, archived |-> FALSE, size |-> "unknown",
           fields |-> [flag |-> "unset", reason |-> FALSE, description |-> "blank"]]
New(source) == [Absent EXCEPT !.source = source]
Exists(row) == row.source # "none"

\* Account.set_archived; screened: with a reason.
Archived(row, screened) ==
    [row EXCEPT !.archived = TRUE, !.fields.flag = "yes", !.fields.reason = @ \/ screened]

\* Mutant of Unarchived: the column alone.
UnarchivedColumn(row) == [row EXCEPT !.archived = FALSE]

Unarchived(row) ==
    [row EXCEPT !.archived = FALSE, !.fields.flag = "no", !.fields.reason = FALSE]

\* What the session's flushes have changed; archived_at gets a new time whenever it is set.
Dirty(s) == {c \in DOMAIN mem[s] : mem[s][c] # base[s][c]}
                \cup (IF op[s] = "archive" THEN {"archived"} ELSE {})
Inserts(s) == Exists(mem[s]) /\ ~Exists(base[s])
Screened(s) == mem[s].fields.reason /\ ~base[s].fields.reason

Goto(s, label) == pc' = [pc EXCEPT ![s] = label]

Init ==
    /\ \E row \in {Absent, New("auto_discovery")} :
          book = [d \in Domain |-> IF d = CrmDomain THEN row ELSE Absent]
    /\ people = [d \in Domain |-> {}]
    /\ lock = [d \in Domain |-> Nobody]
    /\ pc = [s \in Session |-> "idle"] /\ op = [s \in Session |-> "none"]
    /\ on = [s \in Session |-> CrmDomain]
    /\ base = [s \in Session |-> Absent] /\ mem = [s \in Session |-> Absent]
    /\ seen = [s \in Session |-> {}] /\ found = [s \in Session |-> {}]
    /\ overtaken = {} /\ twice = {}
    /\ requests = 0

-----------------------------------------------------------------------------
(* Requests and jobs *)

\* s loads the account of d, or will insert one, and goes on with it as changed.
Submit(s, name, d, loaded, changed, label) ==
    /\ pc[s] = "idle" /\ requests < MaxRequests
    /\ requests' = requests + 1
    /\ op' = [op EXCEPT ![s] = name]
    /\ on' = [on EXCEPT ![s] = d]
    /\ base' = [base EXCEPT ![s] = loaded]
    /\ mem' = [mem EXCEPT ![s] = changed]
    /\ Goto(s, label)
    /\ UNCHANGED <<rows, lock, seen, history>>

\* A rep takes an account from the list, or back.
Archive(s, d) ==
    /\ Exists(book[d])
    /\ \/ Submit(s, "archive", d, book[d], Archived(book[d], FALSE), "flush")
       \/ Submit(s, "unarchive", d, book[d], Unarchived(book[d]), "flush")
    /\ UNCHANGED found

\* A rep adds an account, as it is spelt.
Create(s, d) ==
    /\ Submit(s, "create", d, Absent, New("manual"), "flush")
    /\ UNCHANGED found

\* Add a look-alike: an account under any spelling is taken back, or there is a new one.
AddLookalike(s, d) ==
    /\ \/ /\ Exists(book[d])
          /\ IF book[d].archived
             THEN Submit(s, "add", d, book[d], Unarchived(book[d]), "flush")
             ELSE Submit(s, "add", d, book[d], book[d], "commit")
       \/ /\ \A v \in Domain : ~Exists(book[v])
          /\ Submit(s, "add", d, Absent, New("lookalike"), "flush")
    /\ UNCHANGED found

\* A CSV with a column that is mapped to a field: what the rep has overwrites.
Import(s, d) ==
    /\ Exists(book[d]) /\ book[d].fields.description # "imported"
    /\ Submit(s, "import", d, book[d], [book[d] EXCEPT !.fields.description = "imported"], "flush")
    /\ UNCHANGED found

\* Upsert from the CRM, by its id; what it knows overwrites.
CrmAccounts(s, size) ==
    LET d == CrmDomain
        loaded == IF book[d].crm THEN book[d] ELSE Absent
        row == IF book[d].crm THEN book[d] ELSE [New("manual") EXCEPT !.crm = TRUE]
    IN  /\ Submit(s, "crm", d, loaded, [row EXCEPT !.size = IF size = "unknown" THEN @ ELSE size],
                  "flush")
        /\ UNCHANGED found

\* Enrichment of one account, the refresh of the sweep, and a rep's run of the pipeline.
StartWeb(s, d) ==
    /\ Exists(book[d])
    /\ \E name \in {"enrich", "refresh", "pipeline"} : Submit(s, name, d, book[d], book[d], "fetch")
    /\ UNCHANGED found

\* Find contacts for the account, a campaign's one contact, or those of a chat.
StartPeople(s, d) ==
    /\ Exists(book[d])
    /\ \E name \in {"source", "ensure", "discover"} : Submit(s, name, d, book[d], book[d], "people")
    /\ UNCHANGED found

\* A rep enters a contact.
AddContact(s, d) ==
    /\ Exists(book[d])
    /\ Submit(s, "contact", d, book[d], book[d], "commit")
    /\ \E p \in Person \ Persona : found' = [found EXCEPT ![s] = {p}]

-----------------------------------------------------------------------------
(* Their steps *)

\* Nobody else has flushed a change of the row, or inserted it.
Free(s) == lock[on[s]] \in {Nobody, s}

\* The row is written, or inserted; a new look-alike is processed then.
Flush(s) ==
    /\ pc[s] = "flush" /\ Free(s)
    /\ Inserts(s) => ~Exists(book[on[s]])
    /\ lock' = [lock EXCEPT ![on[s]] = s]
    /\ Goto(s, CASE op[s] = "add" /\ Inserts(s) /\ lock[on[s]] # s -> "fetch"
                 [] op[s] = "add" /\ Inserts(s) /\ lock[on[s]] = s -> "screen"
                 [] op[s] \in {"refresh", "pipeline"} -> "screen"
                 [] OTHER -> "commit")
    /\ UNCHANGED <<rows, op, on, base, mem, seen, found, history, requests>>

\* The enricher fills what is blank with what it finds, if it finds anything.
Apply(row, size, described) ==
    [row EXCEPT !.size = IF @ = "unknown" THEN size ELSE @,
                !.fields.description = IF @ = "blank" /\ described THEN "found" ELSE @]

Fetch(s) ==
    /\ pc[s] = "fetch"
    /\ \E size \in {"unknown", "in", "out"}, described \in BOOLEAN :
          LET row == Apply(mem[s], size, described)
          IN  /\ mem' = [mem EXCEPT ![s] = row]
              /\ Goto(s, IF row # mem[s] THEN "flush"
                         ELSE IF op[s] = "enrich" THEN "commit" ELSE "screen")
    /\ UNCHANGED <<rows, lock, op, on, base, seen, found, history, requests>>

\* An auto-discovered account whose size is known to be out of the band, and that nobody
\* has engaged with, is archived.
OutOfBand(s) ==
    /\ mem[s].source = "auto_discovery" /\ mem[s].size = "out" /\ ~mem[s].archived
    /\ people[on[s]] = {}

\* Where a rep runs the pipeline, people are looked for if it was not archived.
AfterScreen(s) == IF op[s] = "pipeline" THEN "people" ELSE "commit"

Screen(s) ==
    /\ pc[s] = "screen"
    /\ IF OutOfBand(s)
       THEN /\ Free(s)
            /\ lock' = [lock EXCEPT ![on[s]] = s]
            /\ mem' = [mem EXCEPT ![s] = Archived(@, TRUE)]
            /\ Goto(s, "commit")
       ELSE /\ Goto(s, AfterScreen(s))
            /\ UNCHANGED <<lock, mem>>
    /\ UNCHANGED <<rows, op, on, base, seen, found, history, requests>>

\* Who is there: a campaign and a chat search for nobody where somebody is.
LookUpPeople(s) ==
    /\ pc[s] = "people"
    /\ seen' = [seen EXCEPT ![s] = people[on[s]]]
    /\ Goto(s, IF op[s] \in {"ensure", "discover"} /\ people[on[s]] # {} THEN "commit" ELSE "search")
    /\ UNCHANGED <<rows, lock, op, on, base, mem, found, history, requests>>

\* Whom of those that the providers give the session inserts: a campaign the first, a chat
\* all of them, a rep those who are people and not there yet.
EnsureContact(given) == {chosen \in SUBSET given : Cardinality(chosen) = 1 \/ given = {}}
DiscoverContacts(given) == {given}
SourceContacts(s, given) == {(given \ Persona) \ seen[s]}

Chosen(s, given) ==
    CASE op[s] = "ensure"   -> EnsureContact(given)
      [] op[s] = "discover" -> DiscoverContacts(given)
      [] OTHER              -> SourceContacts(s, given)

SearchPeople(s) ==
    /\ pc[s] = "search"
    /\ \E given \in SUBSET Person : \E chosen \in Chosen(s, given) :
          found' = [found EXCEPT ![s] = chosen]
    /\ Goto(s, "commit")
    /\ UNCHANGED <<rows, lock, op, on, base, mem, seen, history, requests>>

-----------------------------------------------------------------------------
(* The end of a transaction *)

Close(s) ==
    /\ Goto(s, "idle")
    /\ op' = [op EXCEPT ![s] = "none"]
    /\ on' = [on EXCEPT ![s] = CrmDomain]
    /\ base' = [base EXCEPT ![s] = Absent] /\ mem' = [mem EXCEPT ![s] = Absent]
    /\ seen' = [seen EXCEPT ![s] = {}] /\ found' = [found EXCEPT ![s] = {}]
    /\ lock' = [d \in Domain |-> IF lock[d] = s THEN Nobody ELSE lock[d]]

\* s writes what was changed after it looked, or has looked at what was changed since to
\* screen, or lets in people whom a screen has missed.
Overtakes(s) ==
    \/ \E c \in Dirty(s) : book[on[s]][c] # base[s][c]
    \/ Screened(s) /\ book[on[s]].size # base[s].size
    \/ found[s] # {} /\ op[s] # "contact" /\ people[on[s]] # seen[s]
    \/ found[s] # {} /\ \E t \in Session : on[t] = on[s] /\ Screened(t)

Commit(s) ==
    LET d == on[s]
    IN  /\ pc[s] = "commit"
        /\ book' = [book EXCEPT ![d] = [c \in DOMAIN @ |-> IF c \in Dirty(s) THEN mem[s][c] ELSE @[c]]]
        /\ people' = [people EXCEPT ![d] = @ \cup found[s]]
        /\ overtaken' = IF Overtakes(s) THEN overtaken \cup {d} ELSE overtaken
        /\ twice' = IF op[s] # "contact" /\ found[s] \cap people[d] # {} THEN twice \cup {d} ELSE twice
        /\ Close(s)
        /\ UNCHANGED requests

\* The unique (tenant, domain) is taken: the transaction fails.
InsertConflict(s) ==
    /\ pc[s] = "flush" /\ Free(s)
    /\ Inserts(s) /\ Exists(book[on[s]])
    /\ Close(s)
    /\ UNCHANGED <<rows, history, requests>>

\* An exception, or a death: what was flushed is rolled back.
Fail(s) ==
    /\ pc[s] # "idle"
    /\ Close(s)
    /\ UNCHANGED <<rows, history, requests>>

Next ==
    \E s \in Session :
        \/ \E d \in Domain :
              \/ Archive(s, d) \/ Create(s, d) \/ AddLookalike(s, d) \/ Import(s, d)
              \/ StartWeb(s, d) \/ StartPeople(s, d) \/ AddContact(s, d)
        \/ \E size \in {"unknown", "in"} : CrmAccounts(s, size)
        \/ Flush(s) \/ InsertConflict(s) \/ Fetch(s) \/ Screen(s)
        \/ LookUpPeople(s) \/ SearchPeople(s) \/ Commit(s) \/ Fail(s)

Spec == Init /\ [][Next]_vars

-----------------------------------------------------------------------------
(* Properties *)

\* An account is archived in both columns or in neither, unless a transaction has written
\* back a custom_fields that it had loaded before another's change (Account.set_archived).
MirrorAgrees ==
    \A d \in Domain \ overtaken : book[d].archived <=> book[d].fields.flag = "yes"

\* Nobody is found twice: unless searches overlap, a person who is a contact of the account
\* is not added to it again, whoever searches (source_account_contacts, ensure_contact and
\* the contacts of a discovery look before they ask the providers).
NobodyTwice == twice \subseteq overtaken

\* "Existing values are never overwritten": what a rep has imported stays, whatever the
\* enricher finds, unless it was imported after the enricher's request had loaded the row.
ImportStays ==
    \A d \in Domain :
        book[d].fields.description = "imported" /\ book'[d].fields.description # "imported"
            => d \in overtaken'

\* The re-screen archives what auto-discovery has brought, is out of the band and nobody
\* has engaged with, and nothing else (rescreen_discovered_account).
ScreenSparesTheChosen ==
    \A d \in Domain : book'[d].fields.reason /\ ~book[d].fields.reason /\ d \notin overtaken' =>
        book[d].source = "auto_discovery" /\ book'[d].size = "out" /\ people'[d] = {}

\* A company that a rep adds from the look-alikes is in the list afterwards, also if it was
\* tracked under another spelling or archived, unless somebody archives it meanwhile.
AddShows ==
    \A s \in Session :
        Commit(s) /\ op[s] = "add" /\ (Inserts(s) \/ book[on[s]] = base[s])
        => Exists(book'[on[s]]) /\ ~book'[on[s]].archived

\* Every step leaves the archive, the people and what reps have entered in order.
InOrder == MirrorAgrees' /\ NobodyTwice' /\ ImportStays /\ ScreenSparesTheChosen /\ AddShows

\* Not so: an account that a rep has taken back from the archive stays.  The next refresh
\* screens it again.
RestoredStays ==
    [][\A d \in Domain : book[d].fields.flag = "no" => ~(book'[d].fields.reason)]_vars
=============================================================================

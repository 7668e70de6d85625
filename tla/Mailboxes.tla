----------------------------- MODULE Mailboxes ------------------------------
(***************************************************************************)
(* The mailboxes a workspace sends from                                    *)
(* (src/nexus/api/routers/workspace.py, the e-mail endpoints, and          *)
(* src/nexus/integrations/email_sender.py).                                *)
(*                                                                         *)
(* All of them are one JSON column of the tenant: a request loads it,      *)
(* perhaps awaits a test message, and writes it as a whole.  The list of   *)
(* mailboxes was preceded by a single one, kept in the top-level fields,   *)
(* which is shown as a list of one until a list is saved.                  *)
(*                                                                         *)
(* Credentials are numbered; 0 is none.  "verified" is the credential that *)
(* was stored when a test passed, 0 if it has to be tested.                *)
(***************************************************************************)
EXTENDS Naturals, Sequences, FiniteSets, SequencesExt

CONSTANTS
    Admin,          \* requests at work
    MaxBoxes,       \* bound: mailboxes created
    MaxPasswords,   \* bound: credentials entered
    MaxChanges      \* bound: requests started

NoFields == [id |-> 0, password |-> 0, verified |-> 0, enabled |-> FALSE, default |-> TRUE]

VARIABLES
    settings,   \* Tenant.email_settings: the single mailbox, whether there is a list, and the list
    request, held,  \* per request: what it is about to do, and the settings it has loaded
    tried,      \* <<mailbox, credential>> whose test message was sent
    single,     \* the endpoint of the single mailbox has been used to write
    boxes, passwords, changes

vars == <<settings, request, held, tried, single, boxes, passwords, changes>>

NoSettings == [fields |-> NoFields, listed |-> FALSE, list |-> << >>]
Idle == [op |-> "idle", id |-> 0, password |-> 0, enabled |-> FALSE]

\* A new workspace has nothing, an old one a single mailbox.
Init ==
    /\ \E enabled \in BOOLEAN, password \in 0 .. 1 :
          /\ settings = [NoSettings EXCEPT !.fields.password = password, !.fields.enabled = enabled]
          /\ passwords = password
          /\ password = 0 => ~enabled
    /\ request = [a \in Admin |-> Idle]
    /\ held = [a \in Admin |-> NoSettings]
    /\ tried = {}
    /\ single = FALSE
    /\ boxes = 0
    /\ changes = 0

\* The single mailbox is the default one; without credentials it is not shown.
LoadAccounts(s) ==
    IF s.listed THEN s.list ELSE IF s.fields.password # 0 THEN <<s.fields>> ELSE << >>

SaveAccounts(s, accounts) == [s EXCEPT !.listed = TRUE, !.list = accounts,
                                       !.fields.enabled = \E i \in DOMAIN accounts : accounts[i].enabled]

\* An id is listed once, so that what has it is one mailbox.
Ids(accounts) == {accounts[i].id : i \in DOMAIN accounts}
Position(accounts, id) == CHOOSE i \in DOMAIN accounts : accounts[i].id = id
Account(accounts, id) == accounts[Position(accounts, id)]
Changed(accounts, id, account) ==
    [i \in DOMAIN accounts |-> IF accounts[i].id = id THEN account ELSE accounts[i]]

-----------------------------------------------------------------------------
(* What each endpoint makes of the settings it has loaded. *)

\* The first mailbox becomes the default.
Added(s, r) ==
    LET accounts == LoadAccounts(s)
    IN  SaveAccounts(s, Append(accounts,
            [id |-> r.id, password |-> r.password, verified |-> 0, enabled |-> r.enabled,
             default |-> \A i \in DOMAIN accounts : ~accounts[i].default]))

\* A blank password keeps the stored one, another one has to be verified again.
Updated(s, r) ==
    LET accounts == LoadAccounts(s)
        old == Account(accounts, r.id)
    IN  SaveAccounts(s, Changed(accounts, r.id,
            IF r.password = 0 THEN [old EXCEPT !.enabled = r.enabled]
            ELSE [old EXCEPT !.enabled = r.enabled, !.password = r.password, !.verified = 0]))

\* Mutant: the default is deleted like any other.
DeletedOnly(s, r) ==
    LET accounts == LoadAccounts(s)
    IN  SaveAccounts(s, RemoveAt(accounts, Position(accounts, r.id)))

\* Another mailbox becomes the default in place of a deleted one.
Deleted(s, r) ==
    LET accounts == LoadAccounts(s)
        left == RemoveAt(accounts, Position(accounts, r.id))
        lacking == left # << >> /\ \A i \in DOMAIN left : ~left[i].default
    IN  SaveAccounts(s, IF lacking THEN [left EXCEPT ![1].default = TRUE] ELSE left)

Preferred(s, r) ==
    LET accounts == LoadAccounts(s)
    IN  SaveAccounts(s, [i \in DOMAIN accounts |-> [accounts[i] EXCEPT !.default = (accounts[i].id = r.id)]])

Verified(s, r) ==
    LET accounts == LoadAccounts(s)
        old == Account(accounts, r.id)
    IN  SaveAccounts(s, Changed(accounts, r.id, [old EXCEPT !.verified = old.password]))

\* The list is not among the fields that are written.
SingleSaved(s, r) ==
    [NoSettings EXCEPT !.fields = [s.fields EXCEPT !.enabled = r.enabled,
        !.password = IF r.password = 0 THEN @ ELSE r.password]]

SingleVerified(s, r) == [s EXCEPT !.fields.verified = s.fields.password]

-----------------------------------------------------------------------------
(* Requests. *)

Begin(a, r) ==
    /\ request[a].op = "idle"
    /\ changes < MaxChanges /\ changes' = changes + 1
    /\ request' = [request EXCEPT ![a] = r]
    /\ held' = [held EXCEPT ![a] = settings]

Passwords(ids) == IF passwords < MaxPasswords THEN ids \cup {passwords + 1} ELSE ids

Add(a, password, enabled) ==
    /\ boxes < MaxBoxes /\ password \in Passwords({0})
    /\ Begin(a, [op |-> "add", id |-> boxes + 1, password |-> password, enabled |-> enabled])
    /\ boxes' = boxes + 1
    /\ passwords' = IF password = 0 THEN passwords ELSE password
    /\ UNCHANGED <<settings, tried, single>>

Update(a, id, password, enabled) ==
    /\ id \in Ids(LoadAccounts(settings)) /\ password \in Passwords({0})
    /\ Begin(a, [op |-> "update", id |-> id, password |-> password, enabled |-> enabled])
    /\ passwords' = IF password = 0 THEN passwords ELSE password
    /\ UNCHANGED <<settings, tried, single, boxes>>

Choose(a, op, id) ==
    /\ op \in {"delete", "prefer"} /\ id \in Ids(LoadAccounts(settings))
    /\ Begin(a, [op |-> op, id |-> id, password |-> 0, enabled |-> FALSE])
    /\ UNCHANGED <<settings, tried, single, boxes, passwords>>

\* Looking at the list saves the single mailbox as a list of one.
List(a) ==
    /\ ~settings.listed /\ LoadAccounts(settings) # << >>
    /\ Begin(a, [Idle EXCEPT !.op = "list"])
    /\ UNCHANGED <<settings, tried, single, boxes, passwords>>

PutSingle(a, password, enabled) ==
    /\ password \in Passwords({0})
    /\ Begin(a, [op |-> "single", id |-> 0, password |-> password, enabled |-> enabled])
    /\ passwords' = IF password = 0 THEN passwords ELSE password
    /\ UNCHANGED <<settings, tried, single, boxes>>

\* A test logs in with the stored credential, and sends.
Test(a, id) ==
    /\ id \in Ids(LoadAccounts(settings)) /\ Account(LoadAccounts(settings), id).password # 0
    /\ Begin(a, [Idle EXCEPT !.op = "test", !.id = id])
    /\ UNCHANGED <<settings, tried, single, boxes, passwords>>

TestSingle(a) ==
    /\ settings.fields.password # 0
    /\ Begin(a, [Idle EXCEPT !.op = "test single"])
    /\ UNCHANGED <<settings, tried, single, boxes, passwords>>

TestFails(a) ==
    /\ request[a].op \in {"test", "test single"}
    /\ request' = [request EXCEPT ![a] = Idle]
    /\ held' = [held EXCEPT ![a] = NoSettings]
    /\ UNCHANGED <<settings, tried, single, boxes, passwords, changes>>

Result(s, r) ==
    CASE r.op = "add" -> Added(s, r)
      [] r.op = "update" -> Updated(s, r)
      [] r.op = "delete" -> Deleted(s, r)
      [] r.op = "prefer" -> Preferred(s, r)
      [] r.op = "list" -> SaveAccounts(s, LoadAccounts(s))
      [] r.op = "test" -> Verified(s, r)
      [] r.op = "single" -> SingleSaved(s, r)
      [] r.op = "test single" -> SingleVerified(s, r)

\* The column is written only if its value has changed since it was loaded; a test
\* that has passed changes the date of the verification.
Write(a) ==
    LET s == held[a]
        r == request[a]
        new == Result(s, r)
    IN  /\ r.op # "idle"
        /\ settings' = IF new # s \/ r.op \in {"test", "test single"} THEN new ELSE settings
        /\ tried' = CASE r.op = "test" -> tried \cup {<<r.id, Account(LoadAccounts(s), r.id).password>>}
                      [] r.op = "test single" -> tried \cup {<<0, s.fields.password>>}
                      [] OTHER -> tried
        /\ single' = (single \/ r.op = "single")
        /\ request' = [request EXCEPT ![a] = Idle]
        /\ held' = [held EXCEPT ![a] = NoSettings]
        /\ UNCHANGED <<boxes, passwords, changes>>

Next ==
    \E a \in Admin :
        \/ List(a) \/ TestSingle(a) \/ TestFails(a) \/ Write(a)
        \/ \E id \in 0 .. MaxBoxes : Test(a, id) \/ \E op \in {"delete", "prefer"} : Choose(a, op, id)
        \/ \E password \in 0 .. MaxPasswords, enabled \in BOOLEAN :
              \/ Add(a, password, enabled) \/ PutSingle(a, password, enabled)
              \/ \E id \in 0 .. MaxBoxes : Update(a, id, password, enabled)

Spec == Init /\ [][Next]_vars
-----------------------------------------------------------------------------
(* Properties. *)

\* However requests overlap, one mailbox of a workspace that has any is the
\* default, a mailbox is listed once, and mail is switched on if and only if one
\* of the list is enabled ("never leave the workspace without a default mailbox",
\* "master switch follows accounts", workspace.py).
OneDefault ==
    LET accounts == LoadAccounts(settings)
    IN  accounts # << >> =>
            /\ \E i \in DOMAIN accounts : accounts[i].default
            /\ \A i, j \in DOMAIN accounts :
                  i # j => accounts[i].id # accounts[j].id /\ ~(accounts[i].default /\ accounts[j].default)
            /\ settings.fields.enabled <=> \E i \in DOMAIN accounts : accounts[i].enabled

\* The credential of a mailbox that is shown as verified was tested, even if it
\* was changed during the test; unless the single mailbox was written, which keeps
\* the mark when the password changes (workspace.py: "creds changed -> must
\* re-verify").
VerifiedWasTried ==
    LET accounts == LoadAccounts(settings)
    IN  single \/ \A i \in DOMAIN accounts :
            accounts[i].verified # 0 => <<accounts[i].id, accounts[i].password>> \in tried

\* Both: what the mailbox list says can be relied on when mail is sent.
MailboxesAgree == OneDefault /\ VerifiedWasTried
=============================================================================

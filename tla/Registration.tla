---------------------------- MODULE Registration ----------------------------
(***************************************************************************)
(* How a person gets an account and gets back into it: registration with   *)
(* a mailed code (src/nexus/auth/registration.py) and password resets with *)
(* a mailed token (src/nexus/auth/password_reset.py).                      *)
(*                                                                         *)
(* One address.  Both tables keep one row for it, under a unique index,    *)
(* with the code that was mailed last.  A request that issues a code reads *)
(* the row, flushes its replacement - and thereby locks it until it        *)
(* commits -, mails the code, and commits.  Code 0 is a wrong guess, the   *)
(* others are numbered as they are generated; a row is known by the code   *)
(* it was created with.                                                    *)
(***************************************************************************)
EXTENDS Naturals

CONSTANTS
    Request,        \* requests at work
    Slug,           \* the workspace URLs people ask for
    MaxAttempts,    \* otp_max_attempts
    MaxResends,     \* _MAX_RESENDS
    MaxCodes,       \* bound: codes generated
    MaxGuesses,     \* bound: codes entered
    MaxCrashes      \* bound: requests that are rolled back half-way

Table == {"pending", "reset"}
NoRow == [id |-> 0, code |-> 0, slug |-> "none", attempts |-> 0, resends |-> 0, used |-> FALSE,
          expired |-> FALSE, cooling |-> FALSE]

VARIABLES
    rows,           \* the committed row of each table
    user,           \* the account: none, registered or invited
    slugs,          \* taken
    doing, step,    \* per request: its operation; how far it is
    entered, seen, next,    \* the code it was given, the row it has read, the row it has flushed
    newest,         \* the code mailed last
    orphaned,       \* the request that mailed it was rolled back
    codes, guesses, crashes

mail == <<newest, orphaned>>
request == <<doing, step, entered, seen, next>>
limits == <<codes, guesses, crashes>>
vars == <<rows, user, slugs, request, mail, limits>>

Init ==
    /\ rows = [t \in Table |-> NoRow]
    /\ user = "none"
    /\ slugs = {}
    /\ doing = [r \in Request |-> "none"]
    /\ step = [r \in Request |-> "idle"]
    /\ entered = [r \in Request |-> 0]
    /\ seen = [r \in Request |-> NoRow]
    /\ next = [r \in Request |-> NoRow]
    /\ newest = [t \in Table |-> 0]
    /\ orphaned = [t \in Table |-> FALSE]
    /\ codes = 0
    /\ guesses = 0
    /\ crashes = 0

TableOf(op) == IF op \in {"start", "resend", "verify"} THEN "pending" ELSE "reset"

Begin(r, op, row, code) ==
    /\ step[r] = "idle"
    /\ step' = [step EXCEPT ![r] = "read"]
    /\ doing' = [doing EXCEPT ![r] = op]
    /\ seen' = [seen EXCEPT ![r] = row]
    /\ entered' = [entered EXCEPT ![r] = code]

End(r) ==
    /\ step' = [step EXCEPT ![r] = "idle"]
    /\ doing' = [doing EXCEPT ![r] = "none"]
    /\ seen' = [seen EXCEPT ![r] = NoRow]
    /\ next' = [next EXCEPT ![r] = NoRow]
    /\ entered' = [entered EXCEPT ![r] = 0]

\* Mutant: the row is flushed only after the mail is sent.
LockedNever(t) == FALSE

\* A flushed row is locked: whoever writes that table waits.
Locked(t) == \E r \in Request : step[r] \in {"flushed", "mailed"} /\ TableOf(doing[r]) = t

Exists(row) == row.id # 0

-----------------------------------------------------------------------------
(* Issuing a code: start, resend and forgot. *)

\* Within the cool-down nothing is issued.
StartRead(r, slug) ==
    /\ user = "none" /\ slug \notin slugs
    /\ ~rows["pending"].cooling
    /\ Begin(r, "start", rows["pending"], 0)
    /\ next' = [next EXCEPT ![r].slug = slug]
    /\ UNCHANGED <<rows, user, slugs, mail, limits>>

ResendRead(r) ==
    /\ Exists(rows["pending"]) /\ ~rows["pending"].cooling
    /\ rows["pending"].resends < MaxResends
    /\ Begin(r, "resend", rows["pending"], 0)
    /\ UNCHANGED <<rows, user, slugs, next, mail, limits>>

ForgotRead(r) ==
    /\ user # "none" /\ ~rows["reset"].cooling
    /\ Begin(r, "forgot", rows["reset"], 0)
    /\ UNCHANGED <<rows, user, slugs, next, mail, limits>>

Flushed(r, row) ==
    /\ next' = [next EXCEPT ![r] = row]
    /\ step' = [step EXCEPT ![r] = "flushed"]
    /\ codes < MaxCodes /\ codes' = codes + 1
    /\ UNCHANGED <<rows, user, slugs, doing, seen, entered, mail, guesses, crashes>>

\* start and forgot delete the row they have read and insert a fresh one; a row
\* somebody else has inserted meanwhile fails the insert.
ReplaceFlush(r) ==
    LET t == TableOf(doing[r])
    IN  /\ step[r] = "read" /\ doing[r] \in {"start", "forgot"} /\ ~Locked(t)
        /\ rows[t].id \in {0, seen[r].id}
        /\ Flushed(r, [NoRow EXCEPT !.id = codes + 1, !.code = codes + 1, !.cooling = TRUE,
                                    !.slug = next[r].slug])

ReplaceConflict(r) ==
    LET t == TableOf(doing[r])
    IN  /\ step[r] = "read" /\ doing[r] \in {"start", "forgot"} /\ ~Locked(t)
        /\ rows[t].id \notin {0, seen[r].id}
        /\ End(r)
        /\ UNCHANGED <<rows, user, slugs, mail, limits>>

\* A resend updates the row: the columns it has changed.
ResendFlush(r) ==
    /\ step[r] = "read" /\ doing[r] = "resend" /\ ~Locked("pending")
    /\ Exists(rows["pending"]) /\ rows["pending"].id = seen[r].id
    /\ Flushed(r, [rows["pending"] EXCEPT !.code = codes + 1, !.expired = FALSE, !.cooling = TRUE,
                      !.resends = seen[r].resends + 1,
                      !.attempts = IF seen[r].attempts = 0 THEN @ ELSE 0])

\* The row it wants to write is gone.
Vanished(r) ==
    /\ step[r] = "read" /\ doing[r] \in {"resend", "reset"} /\ ~Locked(TableOf(doing[r]))
    /\ rows[TableOf(doing[r])].id # seen[r].id
    /\ End(r)
    /\ UNCHANGED <<rows, user, slugs, mail, limits>>

Mail(r) ==
    /\ step[r] = "flushed"
    /\ newest' = [newest EXCEPT ![TableOf(doing[r])] = next[r].code]
    /\ orphaned' = [orphaned EXCEPT ![TableOf(doing[r])] = FALSE]
    /\ step' = [step EXCEPT ![r] = "mailed"]
    /\ UNCHANGED <<rows, user, slugs, doing, seen, entered, next, limits>>

Commit(r) ==
    /\ step[r] = "mailed"
    /\ rows' = [rows EXCEPT ![TableOf(doing[r])] = next[r]]
    /\ End(r)
    /\ UNCHANGED <<user, slugs, mail, limits>>

\* The process dies, or the commit fails.
Rollback(r) ==
    /\ step[r] \in {"flushed", "mailed"}
    /\ crashes < MaxCrashes /\ crashes' = crashes + 1
    /\ orphaned' = [orphaned EXCEPT ![TableOf(doing[r])] = @ \/ step[r] = "mailed"]
    /\ End(r)
    /\ UNCHANGED <<rows, user, slugs, newest, codes, guesses>>

-----------------------------------------------------------------------------
(* Entering a code: verify and reset. *)

VerifyRead(r, code) ==
    /\ Exists(rows["pending"])
    /\ guesses < MaxGuesses /\ guesses' = guesses + 1
    /\ Begin(r, "verify", rows["pending"], code)
    /\ UNCHANGED <<rows, user, slugs, next, mail, codes, crashes>>

\* The row that has been read is deleted, unless it has been replaced.
Dropped(r) == IF rows["pending"].id = seen[r].id THEN [rows EXCEPT !["pending"] = NoRow] ELSE rows

VerifyWrites(r) == step[r] = "read" /\ doing[r] = "verify" /\ ~Locked("pending")

\* An expired row and one that has been guessed at too often are dropped.
VerifyRefused(r) ==
    LET row == seen[r]
    IN  /\ VerifyWrites(r)
        /\ \/ row.expired \/ row.attempts >= MaxAttempts
           \/ entered[r] # row.code /\ row.attempts + 1 >= MaxAttempts
        /\ rows' = Dropped(r)
        /\ End(r)
        /\ UNCHANGED <<user, slugs, mail, limits>>

VerifyWrong(r) ==
    LET row == seen[r]
    IN  /\ VerifyWrites(r)
        /\ ~row.expired /\ entered[r] # row.code /\ row.attempts + 1 < MaxAttempts
        /\ rows' = IF rows["pending"].id = row.id
                   THEN [rows EXCEPT !["pending"].attempts = row.attempts + 1] ELSE rows
        /\ End(r)
        /\ UNCHANGED <<user, slugs, mail, limits>>

\* The account is created, unless its address or its URL has been taken.
VerifyRight(r) ==
    LET row == seen[r]
        free == user = "none" /\ row.slug \notin slugs
    IN  /\ VerifyWrites(r)
        /\ ~row.expired /\ row.attempts < MaxAttempts /\ entered[r] = row.code
        /\ IF free THEN /\ user' = "registered"
                        /\ slugs' = slugs \cup {row.slug}
                        /\ rows' = Dropped(r)
                   ELSE UNCHANGED <<user, slugs, rows>>
        /\ End(r)
        /\ UNCHANGED <<mail, limits>>

\* A token that is used, expired or another one is refused.
ResetRead(r, code) ==
    LET row == rows["reset"]
    IN  /\ Exists(row) /\ ~row.used /\ ~row.expired /\ code = row.code
        /\ guesses < MaxGuesses /\ guesses' = guesses + 1
        /\ Begin(r, "reset", row, code)
        /\ UNCHANGED <<rows, user, slugs, next, mail, codes, crashes>>

ResetExpired ==
    /\ Exists(rows["reset"]) /\ ~rows["reset"].used /\ rows["reset"].expired
    /\ ~Locked("reset")
    /\ rows' = [rows EXCEPT !["reset"] = NoRow]
    /\ UNCHANGED <<user, slugs, request, mail, limits>>

ResetWrite(r) ==
    /\ step[r] = "read" /\ doing[r] = "reset" /\ ~Locked("reset")
    /\ rows["reset"].id = seen[r].id
    /\ rows' = [rows EXCEPT !["reset"].used = TRUE]
    /\ End(r)
    /\ UNCHANGED <<user, slugs, mail, limits>>

-----------------------------------------------------------------------------
(* Others, and time. *)

\* Somebody else's workspace takes a URL.
TakeSlug(slug) ==
    /\ slug \notin slugs
    /\ slugs' = slugs \cup {slug}
    /\ UNCHANGED <<rows, user, request, mail, limits>>

\* An administrator invites the address and thereby creates its user.
Invite ==
    /\ user = "none"
    /\ user' = "invited"
    /\ UNCHANGED <<rows, slugs, request, mail, limits>>

CoolDown(t) ==
    /\ rows[t].cooling
    /\ rows' = [rows EXCEPT ![t].cooling = FALSE]
    /\ UNCHANGED <<user, slugs, request, mail, limits>>

\* A code lives longer than the cool-down.
Expire(t) ==
    /\ Exists(rows[t]) /\ ~rows[t].cooling /\ ~rows[t].expired
    /\ rows' = [rows EXCEPT ![t].expired = TRUE]
    /\ UNCHANGED <<user, slugs, request, mail, limits>>

-----------------------------------------------------------------------------
Next ==
    \/ \E r \in Request :
          \/ \E slug \in Slug : StartRead(r, slug)
          \/ ResendRead(r) \/ ForgotRead(r)
          \/ ReplaceFlush(r) \/ ReplaceConflict(r) \/ ResendFlush(r) \/ Vanished(r)
          \/ Mail(r) \/ Commit(r) \/ Rollback(r)
          \/ \E code \in 0 .. MaxCodes : VerifyRead(r, code) \/ ResetRead(r, code)
          \/ VerifyRefused(r) \/ VerifyWrong(r) \/ VerifyRight(r) \/ ResetWrite(r)
    \/ ResetExpired \/ Invite
    \/ \E slug \in Slug : TakeSlug(slug)
    \/ \E t \in Table : CoolDown(t) \/ Expire(t)

Spec == Init /\ [][Next]_vars
-----------------------------------------------------------------------------
(* Properties. *)

\* The code in the mailbox that came last is the one that is stored, whatever
\* requests overlap, unless the request that mailed it was rolled back (a code is
\* mailed under the lock of its row, and the row is committed after it).
NewestCodeStands ==
    \A t \in Table :
        \/ ~Exists(rows[t])
        \/ \E r \in Request : step[r] \in {"flushed", "mailed"} /\ TableOf(doing[r]) = t
        \/ orphaned[t]
        \/ rows[t].code = newest[t]

=============================================================================

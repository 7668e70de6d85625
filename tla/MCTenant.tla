------------------------------ MODULE MCTenant ------------------------------
(***************************************************************************)
(* Five components that keep records of a tenant and its users, and share *)
(* none: registration, members, mailboxes, the relationship graph and the  *)
(* address of a contact.  Each behaviour is one of one of them, so that a  *)
(* single run explores the union of their states and not the product.  Of  *)
(* the relationship graph it is one account that is synced, or those of    *)
(* one member that are imported into and share their edges.                *)
(***************************************************************************)
EXTENDS Naturals, TLC

CONSTANTS
    Request, Slug, MaxAttempts, MaxResends, MaxCodes, MaxGuesses, MaxCrashes,
    Member, Editor, MaxEdits,
    Admin, MaxBoxes, MaxPasswords, MaxChanges,
    OAuth, Rotating, Manual, Sync, MaxContacts, MaxTokens, MaxSyncs, MaxAborts,
    Job, NumCandidates, Budget, FailThreshold, MaxRequests, MaxFailures, MaxMonths

\* Address books are finite, an account is synced or imported into, and the finder has a candidate to try (email_finder_max_candidates).
ASSUME ContactsAssumption == MaxContacts \in Nat
ASSUME SourcesAssumption == OAuth \cap Manual = {}
ASSUME CandidatesAssumption == NumCandidates \in Nat \ {0}

VARIABLES
    part,       \* the component at work
    rows, user, slugs, doing, step, entered, seen, next, newest, orphaned, codes, guesses, crashes,
    role, token, at, edit, version, crossed, edits,
    settings, request, held, tried, single, boxes, passwords, changes,
    book, valid, issued, account, identities, persons, edges, phase, sync, lost, switched, doubled, syncs,
    aborts,
    truth, catchAll, row, cache, calls, fails, tripped, kind, pc, loaded, asked, verdict, found, best,
    stage, phone, sent, missed, overlapped, requests, failures, months

Registered == INSTANCE Registration
Membership == INSTANCE Members
Mail == INSTANCE Mailboxes
Network == INSTANCE NetworkSync
Contact == INSTANCE ContactEmail

registration == <<rows, user, slugs, doing, step, entered, seen, next, newest, orphaned, codes, guesses,
                  crashes>>
members == <<role, token, at, edit, version, crossed, edits>>
mailboxes == <<settings, request, held, tried, single, boxes, passwords, changes>>
network == <<book, valid, issued, account, identities, persons, edges, phase, sync, lost, switched,
             doubled, syncs, aborts>>
contact == <<truth, catchAll, row, cache, calls, fails, tripped, kind, pc, loaded, asked, verdict, found,
             best, stage, phone, sent, missed, overlapped, requests, failures, months>>
vars == <<part, registration, members, mailboxes, network, contact>>

\* What a component that is not at work starts from is of no account: one state will do.
\* Only the candidates, which are ranked, may be risky; another address is good or bad.
Init ==
    /\ part \in {"registration", "members", "mailboxes", "shared", "contact"} \cup OAuth
    /\ Registered!Init /\ Membership!Init /\ Mail!Init /\ Network!Init /\ Contact!Init
    /\ part # "members" => role[CHOOSE m \in Member : TRUE] = "owner"
    /\ part # "mailboxes" => passwords = 0
    /\ part # "contact" => ~catchAll /\ \A a \in DOMAIN truth : truth[a] = "valid"
    /\ truth[Contact!Other] # "risky"

\* Of the relationship graph: an account whose provider rotates tokens, with one contact
\* and nothing pooled; one whose provider does not, connected once; or those that share
\* their edges.  Jobs die where there is a token to lose.
Untouched(sources) == \A s \in sources : account'[s] = account[s] /\ book'[s] = book[s]
Focused ==
    \/ /\ part \in Rotating /\ Untouched(Network!Source \ {part})
       /\ book'[part] <= 1 /\ account'[part].pooling = "private"
    \/ part \in OAuth \ Rotating /\ Untouched(Network!Source \ {part}) /\ issued' <= 1 /\ aborts' = 0
    \/ part = "shared" /\ Untouched(OAuth) /\ aborts' = 0

Next ==
    \/ /\ part = "registration" /\ Registered!Next
       /\ UNCHANGED <<part, members, mailboxes, network, contact>>
    \/ /\ part = "members" /\ Membership!Next
       /\ UNCHANGED <<part, registration, mailboxes, network, contact>>
    \/ /\ part = "mailboxes" /\ Mail!Next
       /\ UNCHANGED <<part, registration, members, network, contact>>
    \/ /\ Network!Next
       /\ Focused
       /\ UNCHANGED <<part, registration, members, mailboxes, contact>>
    \/ /\ part = "contact" /\ Contact!Next
       /\ UNCHANGED <<part, registration, members, mailboxes, network>>

Spec == Init /\ [][Next]_vars

\* The code that was mailed last is the one that is stored (Registration).
NewestCodeStands == Registered!NewestCodeStands

\* A tenant keeps an owner (Members).
OwnerStays == Membership!OwnerStays

\* One mailbox is the default, and one shown as verified was tested (Mailboxes).
MailboxesAgree == Mail!MailboxesAgree

\* The graph has every contact up to a cursor that syncs have set, an edge of one account alone
\* is pooled as the account is, and the stored token is one the provider accepts (NetworkSync).
GraphHolds == Network!GraphAgrees /\ Network!TokenKept

\* The verdict is on the address that is written to, and the best one is found (ContactEmail).
AddressesHold == Contact!AddressesHold

\* The two actors of each component change places, all at once: one component is at work.
Swap(S) == CHOOSE p \in Permutations(S) : \A x \in S : p[x] # x
Swaps == Swap(Request) @@ Swap(Editor) @@ Swap(Admin) @@ Swap(Sync) @@ Swap(Manual) @@ Swap(Job)
Alike == {IF swapped THEN Swaps ELSE [x \in DOMAIN Swaps |-> x] : swapped \in BOOLEAN}
=============================================================================

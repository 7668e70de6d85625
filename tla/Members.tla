------------------------------- MODULE Members -------------------------------
(***************************************************************************)
(* The members of a tenant and their roles                                 *)
(* (src/nexus/api/routers/workspace.py, the members' endpoints, and        *)
(* src/nexus/api/routers/auth.py, login and switch).                       *)
(*                                                                         *)
(* A request is authorised by the role in its token, which is the one the  *)
(* member had at sign-in.  It loads the membership, counts the owners if   *)
(* one is about to go, and writes; other requests run in between.          *)
(***************************************************************************)
EXTENDS Naturals, FiniteSets

CONSTANTS
    Member,     \* users who are, or may become, members
    Editor,     \* requests at work
    MaxEdits    \* bound: requests started

Role == {"owner", "admin", "manager", "rep"}
None == "none"
Managing == {"owner", "admin"}   \* the roles with manage_workspace

NoEdit == [target |-> None, role |-> None, held |-> None, version |-> 0]

VARIABLES
    role,       \* the memberships
    token,      \* the role in each user's token
    at, edit,   \* per request: how far it is; whom it changes to what, and what it has read
    version,    \* membership writes so far
    crossed,    \* a request has written although the members had changed since it looked
    edits

vars == <<role, token, at, edit, version, crossed, edits>>

\* Whoever registers the tenant owns it.
Init ==
    /\ \E founder \in Member : role = [m \in Member |-> IF m = founder THEN "owner" ELSE None]
    /\ token = role
    /\ at = [e \in Editor |-> "idle"]
    /\ edit = [e \in Editor |-> NoEdit]
    /\ version = 0
    /\ crossed = FALSE
    /\ edits = 0

Owners == {m \in Member : role[m] = "owner"}

\* Login and switch issue a token with the role of the day.
SignIn(m) ==
    /\ role[m] # None /\ token[m] # role[m]
    /\ token' = [token EXCEPT ![m] = role[m]]
    /\ UNCHANGED <<role, at, edit, version, crossed, edits>>

Authorised == \E m \in Member : token[m] \in Managing

Invite(m, new) ==
    /\ Authorised /\ role[m] = None
    /\ edits < MaxEdits /\ edits' = edits + 1
    /\ role' = [role EXCEPT ![m] = new]
    /\ version' = version + 1
    /\ UNCHANGED <<token, at, edit, crossed>>

\* new is the role to give, None to remove the member.
Load(e, m, new) ==
    /\ at[e] = "idle" /\ Authorised /\ role[m] # None
    /\ edits < MaxEdits /\ edits' = edits + 1
    /\ at' = [at EXCEPT ![e] = "loaded"]
    /\ edit' = [edit EXCEPT ![e] = [target |-> m, role |-> new, held |-> role[m], version |-> version]]
    /\ UNCHANGED <<role, token, version, crossed>>

LosesOwner(e) == edit[e].held = "owner" /\ edit[e].role # "owner"

\* Mutant: one owner is counted as enough.
LastOwnerOff(e) == Cardinality(Owners) < 1

LastOwner(e) == Cardinality(Owners) <= 1

Refuse(e) ==
    /\ at[e] = "loaded" /\ LosesOwner(e) /\ LastOwner(e)
    /\ at' = [at EXCEPT ![e] = "idle"]
    /\ edit' = [edit EXCEPT ![e] = NoEdit]
    /\ UNCHANGED <<role, token, version, crossed, edits>>

Check(e) ==
    /\ at[e] = "loaded" /\ (LosesOwner(e) => ~LastOwner(e))
    /\ at' = [at EXCEPT ![e] = "checked"]
    /\ UNCHANGED <<role, token, edit, version, crossed, edits>>

\* The role it has read is not written again; the row may be gone.
Write(e) ==
    LET m == edit[e].target
        writes == role[m] # None /\ edit[e].role # edit[e].held
    IN  /\ at[e] = "checked"
        /\ role' = IF writes THEN [role EXCEPT ![m] = edit[e].role] ELSE role
        /\ version' = IF writes THEN version + 1 ELSE version
        /\ crossed' = (crossed \/ (writes /\ version # edit[e].version))
        /\ at' = [at EXCEPT ![e] = "idle"]
        /\ edit' = [edit EXCEPT ![e] = NoEdit]
        /\ UNCHANGED <<token, edits>>

Next ==
    \/ \E m \in Member : SignIn(m)
    \/ \E m \in Member, new \in Role : Invite(m, new)
    \/ \E e \in Editor, m \in Member, new \in Role \cup {None} : Load(e, m, new)
    \/ \E e \in Editor : Refuse(e) \/ Check(e) \/ Write(e)

Spec == Init /\ [][Next]_vars
-----------------------------------------------------------------------------
TypeOK ==
    /\ role \in [Member -> Role \cup {None}]
    /\ token \in [Member -> Role \cup {None}]
    /\ at \in [Editor -> {"idle", "loaded", "checked"}]
    /\ edit \in [Editor -> [target : Member \cup {None}, role : Role \cup {None},
                            held : Role \cup {None}, version : Nat]]
    /\ version \in Nat
    /\ crossed \in BOOLEAN
    /\ edits \in 0 .. MaxEdits

\* A tenant keeps an owner, unless a request wrote what it had decided on before
\* another one wrote ("a tenant can never be locked out", workspace.py).
OwnerStays == crossed \/ Owners # {}
=============================================================================

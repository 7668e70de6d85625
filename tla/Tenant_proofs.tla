---------------------------- MODULE Tenant_proofs ----------------------------
(***************************************************************************)
(* What holds of the records of a tenant and its users - its members,      *)
(* registration, mailboxes, the relationship graph and the address of a    *)
(* contact - for every set of requests and jobs at work and every bound    *)
(* of the model.                                                           *)
(*                                                                         *)
(* Each component has an inductive invariant of its own, kept by the steps *)
(* of that component.  A behaviour of MCTenant is a behaviour of each      *)
(* component (OnItsOwn), because a step of one leaves the others alone, so *)
(* the theorems of the last section hold of the whole.                     *)
(***************************************************************************)
EXTENDS MCTenant, Sequences, FiniteSetTheorems, TLAPS

\* Whichever component is at work, a step of the whole is a step of each component or
\* leaves it as it is.
LEMMA OnItsOwn ==
    [Next]_vars =>
        /\ [Registered!Next]_Registered!vars
        /\ [Membership!Next]_Membership!vars
        /\ [Mail!Next]_Mail!vars
        /\ [Network!Next]_Network!vars
        /\ [Contact!Next]_Contact!vars
<1> SUFFICES ASSUME [Next]_vars
             PROVE  /\ Registered!Next \/ UNCHANGED registration
                    /\ Membership!Next \/ UNCHANGED members
                    /\ Mail!Next \/ UNCHANGED mailboxes
                    /\ Network!Next \/ UNCHANGED network
                    /\ Contact!Next \/ UNCHANGED contact
  BY DEF registration, members, mailboxes, network, contact, Registered!vars,
         Registered!request, Registered!mail, Registered!limits, Membership!vars, Mail!vars,
         Network!vars, Network!provider, Network!graph, Network!history, Contact!vars,
         Contact!world, Contact!circuit, Contact!finder, Contact!job, Contact!bounds
<1> QED
  BY DEF Next, vars

-----------------------------------------------------------------------------
(* Members.
   An owner stays.  That is not inductive: a request may have been let through and be
   about to write.  OwnerInv says of every request what it still knows as long as
   nobody has written since it loaded: that the member has the role it read, and, if
   it was let through to take an owner away, that there is another one. *)

MembersTyped ==
    /\ role \in [Member -> Membership!Role \cup {Membership!None}]
    /\ at \in [Editor -> {"idle", "loaded", "checked"}]
    /\ edit \in [Editor -> [target : Member \cup {Membership!None}, role : Membership!Role \cup {Membership!None},
                            held : Membership!Role \cup {Membership!None}, version : Nat]]
    /\ version \in Nat
    /\ crossed \in BOOLEAN

\* Nobody has written since e loaded.
Current(e) == at[e] # "idle" /\ edit[e].version = version

ReadIsTrue ==
    \A e \in Editor :
        /\ edit[e].version <= version
        /\ Current(e) => edit[e].target \in Member /\ role[edit[e].target] = edit[e].held

AnotherOwner ==
    \A e \in Editor : Current(e) /\ at[e] = "checked" /\ Membership!LosesOwner(e) =>
        \E m \in Member : role[m] = "owner" /\ m # edit[e].target

OwnerInv == MembersTyped /\ ReadIsTrue /\ AnotherOwner /\ Membership!OwnerStays

LEMMA OwnerInit == Membership!Init => OwnerInv
<1> SUFFICES ASSUME Membership!Init PROVE OwnerInv
  OBVIOUS
<1>1. PICK founder \in Member : role = [m \in Member |-> IF m = founder THEN "owner" ELSE Membership!None]
  BY DEF Membership!Init
<1>2. MembersTyped
  BY <1>1 DEF Membership!Init, MembersTyped, Membership!NoEdit, Membership!Role, Membership!None
<1>3. ReadIsTrue /\ AnotherOwner
  BY DEF Membership!Init, ReadIsTrue, AnotherOwner, Current, Membership!NoEdit
<1>4. founder \in Membership!Owners
  BY <1>1 DEF Membership!Owners
<1> QED
  BY <1>2, <1>3, <1>4 DEF OwnerInv, Membership!OwnerStays

\* What Members counts with is what the theorems on cardinality are about.
LEMMA SameCount == \A S : Membership!Cardinality(S) = Cardinality(S)
BY Zenon DEF Membership!Cardinality, Cardinality

\* Who is not the last owner is not the only one.
LEMMA NotTheLast ==
    ASSUME NEW e \in Editor, NEW m, ~Membership!LastOwner(e)
    PROVE  \E o \in Member : role[o] = "owner" /\ o # m
<1> SUFFICES ASSUME \A o \in Member : role[o] = "owner" => o = m
             PROVE  Cardinality(Membership!Owners) \in {0, 1}
  BY SameCount DEF Membership!LastOwner
<1>1. Membership!Owners = {} \/ Membership!Owners = {m}
  BY DEF Membership!Owners
<1> QED
  BY <1>1, FS_EmptySet, FS_Singleton, SameCount

\* After a write no request is current that had loaded before.
LEMMA WriteOutdates ==
    ASSUME MembersTyped, ReadIsTrue, version' = version + 1, NEW e \in Editor, edit'[e] = edit[e]
    PROVE  edit'[e].version <= version' /\ edit'[e].version # version'
BY DEF MembersTyped, ReadIsTrue

LEMMA OwnerStep == OwnerInv /\ [Membership!Next]_Membership!vars => OwnerInv'
<1> SUFFICES ASSUME OwnerInv, [Membership!Next]_Membership!vars PROVE OwnerInv'
  OBVIOUS
<1> USE DEF OwnerInv
<1>1. ASSUME NEW m \in Member, Membership!SignIn(m) PROVE OwnerInv'
  BY <1>1 DEF Membership!SignIn, MembersTyped, ReadIsTrue, AnotherOwner, Current,
     Membership!LosesOwner, Membership!OwnerStays, Membership!Owners
<1>2. ASSUME NEW m \in Member, NEW new \in Membership!Role, Membership!Invite(m, new)
      PROVE  OwnerInv'
  <2>1. MembersTyped'
    BY <1>2 DEF Membership!Invite, MembersTyped
  <2>2. \A e \in Editor : edit'[e].version <= version' /\ edit'[e].version # version'
    BY <1>2, WriteOutdates DEF Membership!Invite
  <2>3. ReadIsTrue' /\ AnotherOwner'
    BY <2>2 DEF ReadIsTrue, AnotherOwner, Current
  <2>4. Membership!Owners \subseteq Membership!Owners'
    BY <1>2 DEF Membership!Invite, Membership!Owners, MembersTyped, Membership!None
  <2> QED
    BY <1>2, <2>1, <2>3, <2>4 DEF Membership!Invite, Membership!OwnerStays
<1>3. ASSUME NEW e \in Editor, NEW m \in Member, NEW new \in Membership!Role \cup {Membership!None},
             Membership!Load(e, m, new)
      PROVE  OwnerInv'
  <2>1. MembersTyped'
    BY <1>3 DEF Membership!Load, MembersTyped
  <2>2. \A f \in Editor : f # e => at'[f] = at[f] /\ edit'[f] = edit[f]
    BY <1>3 DEF Membership!Load, MembersTyped
  <2>3. /\ at'[e] = "loaded"
        /\ edit'[e].target = m /\ edit'[e].held = role[m] /\ edit'[e].version = version
    BY <1>3 DEF Membership!Load, MembersTyped
  <2>4. ReadIsTrue'
    BY <1>3, <2>2, <2>3 DEF Membership!Load, ReadIsTrue, Current, MembersTyped
  <2>5. AnotherOwner'
    BY <1>3, <2>2, <2>3 DEF Membership!Load, AnotherOwner, Current, Membership!LosesOwner
  <2>6. Membership!OwnerStays'
    BY <1>3 DEF Membership!Load, Membership!OwnerStays, Membership!Owners
  <2> QED
    BY <2>1, <2>4, <2>5, <2>6
<1>4. ASSUME NEW e \in Editor, Membership!Refuse(e) PROVE OwnerInv'
  <2>1. MembersTyped'
    BY <1>4 DEF Membership!Refuse, MembersTyped, Membership!NoEdit
  <2>2. \A f \in Editor : f # e => at'[f] = at[f] /\ edit'[f] = edit[f]
    BY <1>4 DEF Membership!Refuse, MembersTyped
  <2>3. at'[e] = "idle" /\ edit'[e].version = 0
    BY <1>4 DEF Membership!Refuse, MembersTyped, Membership!NoEdit
  <2>4. ReadIsTrue' /\ AnotherOwner'
    BY <1>4, <2>2, <2>3 DEF Membership!Refuse, ReadIsTrue, AnotherOwner, Current,
       Membership!LosesOwner, MembersTyped
  <2>5. Membership!OwnerStays'
    BY <1>4 DEF Membership!Refuse, Membership!OwnerStays, Membership!Owners
  <2> QED
    BY <2>1, <2>4, <2>5
<1>5. ASSUME NEW e \in Editor, Membership!Check(e) PROVE OwnerInv'
  <2>1. MembersTyped'
    BY <1>5 DEF Membership!Check, MembersTyped
  <2>2. \A f \in Editor : f # e => at'[f] = at[f]
    BY <1>5 DEF Membership!Check, MembersTyped
  <2>3. ReadIsTrue'
    BY <1>5, <2>2 DEF Membership!Check, ReadIsTrue, Current
  <2>4. AnotherOwner'
    <3>1. Membership!LosesOwner(e) => \E o \in Member : role[o] = "owner" /\ o # edit[e].target
      BY <1>5, NotTheLast DEF Membership!Check
    <3> QED
      BY <1>5, <2>2, <3>1 DEF Membership!Check, AnotherOwner, Current, Membership!LosesOwner
  <2>5. Membership!OwnerStays'
    BY <1>5 DEF Membership!Check, Membership!OwnerStays, Membership!Owners
  <2> QED
    BY <2>1, <2>3, <2>4, <2>5
<1>6. ASSUME NEW e \in Editor, Membership!Write(e) PROVE OwnerInv'
  <2> DEFINE m == edit[e].target
             writes == role[m] # Membership!None /\ edit[e].role # edit[e].held
  <2>1. \A f \in Editor : f # e => at'[f] = at[f] /\ edit'[f] = edit[f]
    BY <1>6 DEF Membership!Write, MembersTyped
  <2>2. at'[e] = "idle" /\ edit'[e].version = 0
    BY <1>6 DEF Membership!Write, MembersTyped, Membership!NoEdit
  <2>3. MembersTyped'
    <3>1. at' \in [Editor -> {"idle", "loaded", "checked"}]
      BY <1>6 DEF Membership!Write, MembersTyped
    <3>2. Membership!NoEdit \in [target : Member \cup {Membership!None}, role : Membership!Role \cup {Membership!None},
                      held : Membership!Role \cup {Membership!None}, version : Nat]
      BY DEF Membership!NoEdit
    <3>3. edit' \in [Editor -> [target : Member \cup {Membership!None}, role : Membership!Role \cup {Membership!None},
                               held : Membership!Role \cup {Membership!None}, version : Nat]]
      BY <1>6, <3>2 DEF Membership!Write, MembersTyped
    <3>4. edit[e].role \in Membership!Role \cup {Membership!None}
      BY DEF MembersTyped
    <3>5. role' \in [Member -> Membership!Role \cup {Membership!None}]
      <4>1. role' = role \/ role' = [role EXCEPT ![m] = edit[e].role]
        BY <1>6 DEF Membership!Write
      <4> QED
        BY <3>4, <4>1 DEF MembersTyped
    <3>6. version' \in Nat /\ crossed' \in BOOLEAN
      BY <1>6 DEF Membership!Write, MembersTyped
    <3> QED
      BY <3>1, <3>3, <3>5, <3>6 DEF MembersTyped
  <2>4. CASE ~writes
    <3>1. role' = role /\ version' = version /\ crossed' = crossed
      BY <1>6, <2>4 DEF Membership!Write, MembersTyped
    <3>2. ReadIsTrue' /\ AnotherOwner'
      BY <2>1, <2>2, <3>1 DEF ReadIsTrue, AnotherOwner, Current, Membership!LosesOwner,
         MembersTyped
    <3> QED
      BY <2>3, <3>1, <3>2 DEF Membership!OwnerStays, Membership!Owners
  <2>5. CASE writes
    <3>1. /\ role' = [role EXCEPT ![m] = edit[e].role]
          /\ version' = version + 1
          /\ crossed' = (crossed \/ version # edit[e].version)
      BY <1>6, <2>5 DEF Membership!Write
    <3>2. \A f \in Editor \ {e} : edit'[f].version <= version' /\ edit'[f].version # version'
      BY <2>1, <3>1, WriteOutdates
    <3>3. ReadIsTrue' /\ AnotherOwner'
      BY <2>2, <3>1, <3>2 DEF ReadIsTrue, AnotherOwner, Current, MembersTyped
    <3>4. ASSUME ~crossed' PROVE Membership!Owners' # {}
      <4>1. Current(e) /\ ~crossed /\ at[e] = "checked"
        BY <1>6, <3>1, <3>4 DEF Membership!Write, Current, MembersTyped
      <4>2. m \in Member /\ role[m] = edit[e].held
        BY <4>1 DEF ReadIsTrue
      <4>3. CASE Membership!LosesOwner(e)
        BY <3>1, <4>1, <4>3 DEF AnotherOwner, Membership!Owners, MembersTyped
      <4>4. CASE ~Membership!LosesOwner(e)
        <5>1. edit[e].held # "owner" \/ edit[e].role = "owner"
          BY <4>4 DEF Membership!LosesOwner
        <5>2. PICK o \in Member : role[o] = "owner"
          BY <4>1 DEF Membership!OwnerStays, Membership!Owners
        <5> QED
          BY <3>1, <4>2, <5>1, <5>2 DEF Membership!Owners, MembersTyped
      <4> QED
        BY <4>3, <4>4
    <3> QED
      BY <2>3, <3>3, <3>4 DEF Membership!OwnerStays
  <2> QED
    BY <2>4, <2>5
<1>7. CASE UNCHANGED Membership!vars
  BY <1>7 DEF Membership!vars, MembersTyped, ReadIsTrue, AnotherOwner, Current,
     Membership!LosesOwner, Membership!OwnerStays, Membership!Owners
<1> QED
  BY <1>1, <1>2, <1>3, <1>4, <1>5, <1>6, <1>7 DEF Membership!Next

\* A tenant keeps an owner however many members, roles and requests there are, unless
\* a request wrote what another's write had overtaken (workspace.py counts the owners
\* before it writes).
THEOREM OwnerStaysSafe == Membership!Spec => []Membership!OwnerStays
<1>1. OwnerInv => Membership!OwnerStays
  BY DEF OwnerInv
<1> QED
  BY OwnerInit, OwnerStep, <1>1, PTL DEF Membership!Spec

-----------------------------------------------------------------------------
(* Registration.
   The newest code stands.  That is not inductive: a request that has flushed its row
   might mail any code, and one that has mailed might commit any row.  CodeInv adds
   that at most one request holds the row of a table, and that the one that has mailed
   is about to commit what it mailed; a flushed row that is not mailed excuses nothing. *)

Row == [id : Nat, code : Nat, slug : Slug \cup {"none"}, attempts : Nat, resends : Nat,
        used : BOOLEAN, expired : BOOLEAN, cooling : BOOLEAN]

Op == {"none", "start", "resend", "forgot", "verify", "reset"}

CodesTyped ==
    /\ rows \in [Registered!Table -> Row]
    /\ step \in [Request -> {"idle", "read", "flushed", "mailed"}]
    /\ doing \in [Request -> Op]
    /\ seen \in [Request -> Row] /\ next \in [Request -> Row]
    /\ newest \in [Registered!Table -> Nat] /\ orphaned \in [Registered!Table -> BOOLEAN]
    /\ codes \in Nat

Holds(r, t) == step[r] \in {"flushed", "mailed"} /\ Registered!TableOf(doing[r]) = t

HolderAlone == \A t \in Registered!Table : \A q, r \in Request : Holds(q, t) /\ Holds(r, t) => q = r

MailedIsNewest ==
    \A r \in Request : step[r] = "mailed" => newest[Registered!TableOf(doing[r])] = next[r].code

Accounted(t) ==
    \/ ~Registered!Exists(rows[t])
    \/ \E r \in Request : step[r] = "mailed" /\ Registered!TableOf(doing[r]) = t
    \/ orphaned[t]
    \/ rows[t].code = newest[t]

CodeInv == CodesTyped /\ HolderAlone /\ MailedIsNewest /\ \A t \in Registered!Table : Accounted(t)

LEMMA TableFacts == Registered!NoRow \in Row /\ \A op : Registered!TableOf(op) \in Registered!Table
BY DEF Registered!NoRow, Row, Registered!TableOf, Registered!Table

\* A row that changes in one field is a row with the same id and code.
Same(new, entry) == new \in Row /\ new.id = entry.id /\ new.code = entry.code

LEMMA Fields ==
    ASSUME NEW entry \in Row
    PROVE  /\ entry.code \in Nat /\ entry.id \in Nat /\ entry.attempts \in Nat
           /\ entry.resends \in Nat
           /\ entry.slug \in Slug \cup {"none"}
BY DEF Row

LEMMA OneField ==
    ASSUME NEW entry \in Row
    PROVE  /\ \A slug \in Slug : Same([entry EXCEPT !.slug = slug], entry)
           /\ \A n \in Nat : Same([entry EXCEPT !.attempts = n], entry)
           /\ Same([entry EXCEPT !.used = TRUE], entry)
           /\ Same([entry EXCEPT !.expired = TRUE], entry)
           /\ Same([entry EXCEPT !.cooling = FALSE], entry)
<1>1. /\ \A slug \in Slug : Same([entry EXCEPT !.slug = slug], entry)
      /\ \A n \in Nat : Same([entry EXCEPT !.attempts = n], entry)
  BY DEF Row, Same
<1>2. /\ Same([entry EXCEPT !.used = TRUE], entry)
      /\ Same([entry EXCEPT !.expired = TRUE], entry)
      /\ Same([entry EXCEPT !.cooling = FALSE], entry)
  BY DEF Row, Same
<1> QED
  BY <1>1, <1>2

LEMMA CodeInit == Registered!Init => CodeInv
<1> SUFFICES ASSUME Registered!Init PROVE CodeInv
  OBVIOUS
<1>1. CodesTyped
  <2>1. rows \in [Registered!Table -> Row] /\ seen \in [Request -> Row] /\ next \in [Request -> Row]
    BY TableFacts DEF Registered!Init
  <2>2. /\ step \in [Request -> {"idle", "read", "flushed", "mailed"}]
        /\ doing \in [Request -> Op]
    BY DEF Registered!Init, Op
  <2>3. /\ newest \in [Registered!Table -> Nat] /\ orphaned \in [Registered!Table -> BOOLEAN]
        /\ codes \in Nat
    BY DEF Registered!Init
  <2> QED
    BY <2>1, <2>2, <2>3 DEF CodesTyped
<1>2. HolderAlone /\ MailedIsNewest
  BY DEF Registered!Init, HolderAlone, MailedIsNewest, Holds
<1>3. \A t \in Registered!Table : Accounted(t)
  BY DEF Registered!Init, Accounted, Registered!Exists, Registered!NoRow
<1> QED
  BY <1>1, <1>2, <1>3 DEF CodeInv

\* What a step that commits no code does to a row: it keeps its code, or is gone.
Kept(t) == Registered!Exists(rows'[t]) => Registered!Exists(rows[t]) /\ rows'[t].code = rows[t].code

\* A step that is neither Mail, Commit nor Rollback: no request mails, or stops having mailed.
LEMMA Quiet ==
    ASSUME CodeInv, CodesTyped', UNCHANGED Registered!mail, \A t \in Registered!Table : Kept(t),
           \A r \in Request : step[r] = "mailed" <=> step'[r] = "mailed",
           \A r \in Request : step[r] = "mailed" => doing'[r] = doing[r] /\ next'[r] = next[r],
           HolderAlone'
    PROVE  CodeInv'
<1>1. MailedIsNewest'
  BY DEF CodeInv, MailedIsNewest, Registered!mail
<1>2. ASSUME NEW t \in Registered!Table PROVE Accounted(t)'
  <2>1. Accounted(t) /\ Kept(t)
    BY DEF CodeInv
  <2>2. CASE \E r \in Request : step[r] = "mailed" /\ Registered!TableOf(doing[r]) = t
    BY <2>2 DEF Accounted
  <2>3. CASE ~\E r \in Request : step[r] = "mailed" /\ Registered!TableOf(doing[r]) = t
    BY <2>1, <2>3 DEF Accounted, Kept, Registered!mail, Registered!Exists
  <2> QED
    BY <2>2, <2>3
<1> QED
  BY <1>1, <1>2 DEF CodeInv

\* A request that holds no row begins, or is over.
LEMMA Moves ==
    ASSUME CodeInv, CodesTyped', UNCHANGED Registered!mail, \A t \in Registered!Table : Kept(t),
           NEW r \in Request,
           step[r] \in {"idle", "read"}, step'[r] \in {"idle", "read"},
           \A q \in Request \ {r} : step'[q] = step[q] /\ doing'[q] = doing[q] /\ next'[q] = next[q]
    PROVE  CodeInv'
<1>1. \A q \in Request : step[q] = "mailed" <=> step'[q] = "mailed"
  OBVIOUS
<1>2. HolderAlone'
  BY DEF CodeInv, HolderAlone, Holds
<1> QED
  BY <1>1, <1>2, Quiet

\* The first half of a request.
LEMMA Begins ==
    ASSUME CodeInv, NEW r \in Request, NEW op \in Op, NEW t \in Registered!Table, NEW code,
           Registered!Begin(r, op, rows[t], code), UNCHANGED <<rows, Registered!mail, codes>>,
           UNCHANGED next \/ \E slug \in Slug : next' = [next EXCEPT ![r].slug = slug]
    PROVE  CodeInv'
<1>1. next' \in [Request -> Row] /\ \A q \in Request \ {r} : next'[q] = next[q]
  <2>1. next \in [Request -> Row] /\ next[r] \in Row
    BY DEF CodeInv, CodesTyped
  <2>2. ASSUME NEW slug \in Slug, next' = [next EXCEPT ![r].slug = slug]
        PROVE  next' \in [Request -> Row] /\ \A q \in Request \ {r} : next'[q] = next[q]
    <3>1. [next[r] EXCEPT !.slug = slug] \in Row
      BY <2>1, OneField DEF Same
    <3>2. next' = [next EXCEPT ![r] = [next[r] EXCEPT !.slug = slug]]
      BY <2>2
    <3> QED
      BY <2>1, <3>1, <3>2
  <2> QED
    BY <2>1, <2>2
<1>2. CodesTyped'
  BY <1>1 DEF CodeInv, CodesTyped, Registered!Begin, Registered!mail
<1>3. /\ step[r] = "idle" /\ step'[r] = "read"
      /\ \A q \in Request \ {r} : step'[q] = step[q] /\ doing'[q] = doing[q]
  BY DEF CodeInv, CodesTyped, Registered!Begin
<1> QED
  BY <1>1, <1>2, <1>3, Moves DEF Kept

LEMMA EndTyped ==
    ASSUME CodesTyped, NEW r \in Request, Registered!End(r), UNCHANGED <<newest, codes>>,
           rows' \in [Registered!Table -> Row], orphaned' \in [Registered!Table -> BOOLEAN]
    PROVE  CodesTyped'
<1>1. step' \in [Request -> {"idle", "read", "flushed", "mailed"}] /\ doing' \in [Request -> Op]
  BY DEF CodesTyped, Registered!End, Op
<1>2. seen' \in [Request -> Row] /\ next' \in [Request -> Row]
  BY TableFacts DEF CodesTyped, Registered!End
<1>3. newest' \in [Registered!Table -> Nat] /\ codes' \in Nat
  BY DEF CodesTyped
<1> QED
  BY <1>1, <1>2, <1>3 DEF CodesTyped

\* A request that holds no row ends.
LEMMA Ends ==
    ASSUME CodeInv, NEW r \in Request, step[r] = "read", Registered!End(r),
           UNCHANGED <<Registered!mail, codes>>,
           rows' \in [Registered!Table -> Row], \A t \in Registered!Table : Kept(t)
    PROVE  CodeInv'
<1>1. CodesTyped'
  BY EndTyped DEF CodeInv, CodesTyped, Registered!mail
<1>2. /\ step'[r] = "idle"
      /\ \A q \in Request \ {r} : step'[q] = step[q] /\ doing'[q] = doing[q] /\ next'[q] = next[q]
  BY DEF CodeInv, CodesTyped, Registered!End
<1> QED
  BY <1>1, <1>2, Moves

\* A request flushes the row of a table that nobody holds.
LEMMA Flushes ==
    ASSUME CodeInv, NEW r \in Request, NEW entry \in Row, step[r] = "read",
           ~Registered!Locked(Registered!TableOf(doing[r])), Registered!Flushed(r, entry)
    PROVE  CodeInv'
<1>1. CodesTyped'
  BY DEF CodeInv, CodesTyped, Registered!Flushed, Registered!mail
<1>2. /\ step'[r] = "flushed" /\ UNCHANGED <<rows, Registered!mail, doing>>
      /\ \A q \in Request \ {r} : step'[q] = step[q] /\ next'[q] = next[q]
  BY DEF CodeInv, CodesTyped, Registered!Flushed
<1>3. HolderAlone'
  BY <1>2 DEF CodeInv, HolderAlone, Holds, Registered!Locked
<1> QED
  BY <1>1, <1>2, <1>3, Quiet DEF Kept

\* The changes of a row that are not a new code.
LEMMA OneChange ==
    ASSUME CodesTyped, NEW t \in Registered!Table,
           \/ rows' = rows
           \/ rows' = [rows EXCEPT ![t] = Registered!NoRow]
           \/ \E n \in Nat : rows' = [rows EXCEPT ![t].attempts = n]
           \/ rows' = [rows EXCEPT ![t].used = TRUE]
           \/ rows' = [rows EXCEPT ![t].expired = TRUE]
           \/ rows' = [rows EXCEPT ![t].cooling = FALSE]
    PROVE  rows' \in [Registered!Table -> Row] /\ \A u \in Registered!Table : Kept(u)
<1>1. rows \in [Registered!Table -> Row] /\ rows[t] \in Row
  BY DEF CodesTyped
<1>2. ASSUME NEW entry \in Row, rows' = [rows EXCEPT ![t] = entry], entry = Registered!NoRow \/ Same(entry, rows[t])
      PROVE  rows' \in [Registered!Table -> Row] /\ \A u \in Registered!Table : Kept(u)
  <2>1. rows'[t] = entry /\ \A u \in Registered!Table \ {t} : rows'[u] = rows[u]
    BY <1>1, <1>2
  <2>2. Kept(t)
    BY <1>2, <2>1 DEF Kept, Same, Registered!Exists, Registered!NoRow
  <2>3. \A u \in Registered!Table \ {t} : Kept(u)
    BY <2>1 DEF Kept
  <2> QED
    BY <1>1, <1>2, <2>2, <2>3
<1>3. CASE rows' = rows
  BY <1>1, <1>3 DEF Kept
<1>4. CASE rows' = [rows EXCEPT ![t] = Registered!NoRow]
  BY <1>2, <1>4, TableFacts
<1>5. ASSUME NEW n \in Nat, rows' = [rows EXCEPT ![t].attempts = n]
      PROVE  rows' \in [Registered!Table -> Row] /\ \A u \in Registered!Table : Kept(u)
  <2>1. rows' = [rows EXCEPT ![t] = [rows[t] EXCEPT !.attempts = n]]
    BY <1>5
  <2> QED
    BY <1>1, <1>2, <2>1, OneField DEF Same
<1>6. CASE rows' = [rows EXCEPT ![t].used = TRUE]
  <2>1. rows' = [rows EXCEPT ![t] = [rows[t] EXCEPT !.used = TRUE]]
    BY <1>6
  <2> QED
    BY <1>1, <1>2, <2>1, OneField DEF Same
<1>7. CASE rows' = [rows EXCEPT ![t].expired = TRUE]
  <2>1. rows' = [rows EXCEPT ![t] = [rows[t] EXCEPT !.expired = TRUE]]
    BY <1>7
  <2> QED
    BY <1>1, <1>2, <2>1, OneField DEF Same
<1>8. CASE rows' = [rows EXCEPT ![t].cooling = FALSE]
  <2>1. rows' = [rows EXCEPT ![t] = [rows[t] EXCEPT !.cooling = FALSE]]
    BY <1>8
  <2> QED
    BY <1>1, <1>2, <2>1, OneField DEF Same
<1> QED
  BY <1>3, <1>4, <1>5, <1>6, <1>7, <1>8

LEMMA CodeStep == CodeInv /\ [Registered!Next]_Registered!vars => CodeInv'
<1> SUFFICES ASSUME CodeInv, [Registered!Next]_Registered!vars PROVE CodeInv'
  OBVIOUS
<1>t. /\ CodesTyped /\ HolderAlone /\ MailedIsNewest /\ "pending" \in Registered!Table
      /\ "reset" \in Registered!Table
  BY DEF CodeInv, Registered!Table
<1>k. rows' = rows => rows' \in [Registered!Table -> Row] /\ \A t \in Registered!Table : Kept(t)
  BY <1>t DEF CodesTyped, Kept
<1>r. ASSUME NEW r \in Request PROVE
        /\ (\E slug \in Slug : Registered!StartRead(r, slug)) \/ Registered!ResendRead(r) \/ Registered!ForgotRead(r)
              \/ (\E code \in 0 .. MaxCodes : Registered!VerifyRead(r, code) \/ Registered!ResetRead(r, code)) => CodeInv'
        /\ Registered!ReplaceFlush(r) \/ Registered!ResendFlush(r) => CodeInv'
        /\ Registered!ReplaceConflict(r) \/ Registered!Vanished(r) => CodeInv'
        /\ Registered!Mail(r) => CodeInv'
        /\ Registered!Commit(r) => CodeInv'
        /\ Registered!Rollback(r) => CodeInv'
        /\ Registered!VerifyRefused(r) \/ Registered!VerifyWrong(r) \/ Registered!VerifyRight(r) \/ Registered!ResetWrite(r) => CodeInv'
  <2>1. ASSUME (\E slug \in Slug : Registered!StartRead(r, slug)) \/ Registered!ResendRead(r) \/ Registered!ForgotRead(r)
                 \/ (\E code \in 0 .. MaxCodes : Registered!VerifyRead(r, code) \/ Registered!ResetRead(r, code))
        PROVE  CodeInv'
    <3>1. /\ UNCHANGED <<rows, Registered!mail, codes>>
          /\ UNCHANGED next \/ \E slug \in Slug : next' = [next EXCEPT ![r].slug = slug]
      BY <2>1 DEF Registered!StartRead, Registered!ResendRead, Registered!ForgotRead,
         Registered!VerifyRead, Registered!ResetRead, Registered!limits
    <3>2. {"start", "resend", "forgot", "verify", "reset"} \subseteq Op
      BY DEF Op
    <3>3. ASSUME NEW slug \in Slug, Registered!StartRead(r, slug) PROVE CodeInv'
      BY <1>t, <3>1, <3>2, <3>3, Begins DEF Registered!StartRead
    <3>4. CASE Registered!ResendRead(r)
      BY <1>t, <3>1, <3>2, <3>4, Begins DEF Registered!ResendRead
    <3>5. CASE Registered!ForgotRead(r)
      BY <1>t, <3>1, <3>2, <3>5, Begins DEF Registered!ForgotRead
    <3>6. ASSUME NEW code \in 0 .. MaxCodes, Registered!VerifyRead(r, code) PROVE CodeInv'
      BY <1>t, <3>1, <3>2, <3>6, Begins DEF Registered!VerifyRead
    <3>7. ASSUME NEW code \in 0 .. MaxCodes, Registered!ResetRead(r, code) PROVE CodeInv'
      BY <1>t, <3>1, <3>2, <3>7, Begins DEF Registered!ResetRead
    <3> QED
      BY <2>1, <3>3, <3>4, <3>5, <3>6, <3>7
  <2>2. ASSUME Registered!ReplaceFlush(r) PROVE CodeInv'
    <3> DEFINE entry == [Registered!NoRow EXCEPT !.id = codes + 1, !.code = codes + 1, !.cooling = TRUE,
                                    !.slug = next[r].slug]
    <3>1. codes + 1 \in Nat /\ next[r].slug \in Slug \cup {"none"}
      <4>1. next[r] \in Row /\ codes \in Nat
        BY <1>t DEF CodesTyped
      <4> QED
        BY <4>1, Fields
    <3>2. entry \in Row
      BY <3>1 DEF Row, Registered!NoRow
    <3> QED
      BY <2>2, <3>2, Flushes DEF Registered!ReplaceFlush
  <2>3. ASSUME Registered!ResendFlush(r) PROVE CodeInv'
    <3> DEFINE entry == [rows["pending"] EXCEPT !.code = codes + 1, !.expired = FALSE, !.cooling = TRUE,
                          !.resends = seen[r].resends + 1,
                          !.attempts = IF seen[r].attempts = 0 THEN @ ELSE 0]
    <3>1. entry \in Row
      <4>1. rows["pending"] \in Row /\ codes + 1 \in Nat /\ seen[r] \in Row
        BY <1>t DEF CodesTyped
      <4>2. seen[r].resends + 1 \in Nat
        BY <4>1, Fields
      <4> QED
        BY <4>1, <4>2 DEF Row
    <3>2. Registered!TableOf(doing[r]) = "pending"
      BY <2>3 DEF Registered!ResendFlush, Registered!TableOf
    <3> QED
      BY <2>3, <3>1, <3>2, Flushes DEF Registered!ResendFlush
  <2>4. ASSUME Registered!ReplaceConflict(r) \/ Registered!Vanished(r) PROVE CodeInv'
    BY <1>k, <2>4, Ends DEF Registered!ReplaceConflict, Registered!Vanished, Registered!limits
  <2>5. ASSUME Registered!Mail(r) PROVE CodeInv'
    <3>t. PICK t \in Registered!Table : t = Registered!TableOf(doing[r])
      BY TableFacts
    <3>1. next[r].code \in Nat
      BY <1>t, Fields DEF CodesTyped
    <3>2. CodesTyped'
      BY <1>t, <3>t, <2>5, <3>1 DEF Registered!Mail, CodesTyped, Registered!limits
    <3>3. /\ step'[r] = "mailed" /\ UNCHANGED <<rows, doing, next>>
          /\ \A q \in Request \ {r} : step'[q] = step[q]
          /\ newest'[t] = next[r].code
          /\ \A u \in Registered!Table \ {t} : newest'[u] = newest[u] /\ orphaned'[u] = orphaned[u]
      BY <1>t, <3>t, <2>5, <3>1 DEF Registered!Mail, CodesTyped
    <3>4. HolderAlone'
      BY <1>t, <3>t, <2>5, <3>3 DEF Registered!Mail, HolderAlone, Holds
    <3>5. MailedIsNewest'
      <4> SUFFICES ASSUME NEW q \in Request \ {r}, step[q] = "mailed"
                   PROVE  newest'[Registered!TableOf(doing[q])] = next[q].code
        BY <3>t, <3>3 DEF MailedIsNewest
      <4>1. Registered!TableOf(doing[q]) # t
        BY <1>t, <3>t, <2>5, <3>1 DEF Registered!Mail, HolderAlone, Holds
      <4> QED
        BY <1>t, <3>t, <3>3, <4>1, TableFacts DEF MailedIsNewest
    <3>6. ASSUME NEW u \in Registered!Table PROVE Accounted(u)'
      <4>1. CASE u = t
        BY <3>t, <3>3, <4>1 DEF Accounted
      <4>2. CASE u # t
        BY <3>3, <4>2 DEF CodeInv, Accounted
      <4> QED
        BY <4>1, <4>2
    <3> QED
      BY <3>2, <3>4, <3>5, <3>6 DEF CodeInv
  <2>6. ASSUME Registered!Commit(r) \/ Registered!Rollback(r) PROVE CodeInv'
    <3>t. PICK t \in Registered!Table : t = Registered!TableOf(doing[r])
      BY TableFacts
    <3>1. next[r] \in Row
      BY <1>t DEF CodesTyped
    <3>2. /\ Registered!End(r) /\ newest' = newest /\ codes' = codes
          /\ step[r] \in {"flushed", "mailed"}
          /\ \A u \in Registered!Table \ {t} : rows'[u] = rows[u] /\ orphaned'[u] = orphaned[u]
          /\ rows' \in [Registered!Table -> Row] /\ orphaned' \in [Registered!Table -> BOOLEAN]
      BY <1>t, <3>t, <2>6, <3>1 DEF Registered!Commit, Registered!Rollback, CodesTyped,
         Registered!mail, Registered!limits
    <3>3. CodesTyped'
      BY <1>t, <3>2, EndTyped
    <3>4. /\ step'[r] = "idle"
          /\ \A q \in Request \ {r} : step'[q] = step[q] /\ doing'[q] = doing[q] /\ next'[q] = next[q]
      BY <1>t, <3>2 DEF Registered!End, CodesTyped
    <3>5. HolderAlone' /\ MailedIsNewest'
      BY <1>t, <3>2, <3>4 DEF HolderAlone, Holds, MailedIsNewest
    <3>6. ASSUME NEW u \in Registered!Table, u # t PROVE Accounted(u)'
      BY <3>t, <3>2, <3>4, <3>6 DEF CodeInv, Accounted
    <3>7. Accounted(t)'
      <4>1. CASE Registered!Commit(r)
        <5>1. rows'[t] = next[r] /\ newest[t] = next[r].code
          BY <1>t, <3>t, <3>1, <4>1 DEF Registered!Commit, MailedIsNewest, CodesTyped
        <5> QED
          BY <3>2, <5>1 DEF Accounted
      <4>2. CASE Registered!Rollback(r) /\ step[r] = "mailed"
        <5>1. orphaned'[t]
          BY <1>t, <3>t, <3>1, <4>2 DEF Registered!Rollback, CodesTyped
        <5> QED
          BY <5>1 DEF Accounted
      <4>3. CASE Registered!Rollback(r) /\ step[r] # "mailed"
        <5>1. UNCHANGED rows /\ orphaned'[t] = orphaned[t]
          BY <1>t, <3>t, <3>1, <4>3 DEF Registered!Rollback, CodesTyped
        <5>2. \A q \in Request : step[q] = "mailed" => step'[q] = "mailed" /\ doing'[q] = doing[q]
          BY <3>4, <4>3
        <5>3. Accounted(t)
          BY <3>1 DEF CodeInv
        <5> QED
          BY <3>1, <3>2, <5>1, <5>2, <5>3 DEF Accounted
      <4> QED
        BY <2>6, <4>1, <4>2, <4>3
    <3>8. \A u \in Registered!Table : Accounted(u)'
      BY <3>6, <3>7
    <3> QED
      BY <3>3, <3>5, <3>8 DEF CodeInv
  <2>7. ASSUME Registered!VerifyRefused(r) \/ Registered!VerifyWrong(r) \/ Registered!VerifyRight(r) \/ Registered!ResetWrite(r)
        PROVE  CodeInv'
    <3>1. \/ rows' = rows
          \/ rows' = [rows EXCEPT !["pending"] = Registered!NoRow]
          \/ \E n \in Nat : rows' = [rows EXCEPT !["pending"].attempts = n]
          \/ rows' = [rows EXCEPT !["reset"].used = TRUE]
      <4>1. seen[r].attempts + 1 \in Nat
        BY <1>t DEF CodesTyped, Row
      <4> QED
        BY <2>7, <4>1 DEF Registered!VerifyRefused, Registered!VerifyWrong,
           Registered!VerifyRight, Registered!ResetWrite, Registered!Dropped
    <3>2. rows' \in [Registered!Table -> Row] /\ \A t \in Registered!Table : Kept(t)
      BY <1>t, <3>1, OneChange
    <3> QED
      BY <2>7, <3>2, Ends
         DEF Registered!VerifyRefused, Registered!VerifyWrong, Registered!VerifyRight,
             Registered!ResetWrite, Registered!VerifyWrites, Registered!limits
  <2> QED
    BY <2>1, <2>2, <2>3, <2>4, <2>5, <2>6, <2>7
\* The world changes no code.
<1>w. ASSUME rows' \in [Registered!Table -> Row], \A t \in Registered!Table : Kept(t),
             UNCHANGED <<Registered!request, Registered!mail, codes>>
      PROVE  CodeInv'
  <2>1. CodesTyped' /\ HolderAlone'
    BY <1>t, <1>w DEF CodesTyped, HolderAlone, Holds, Registered!request, Registered!mail
  <2> QED
    BY <1>w, <2>1, Quiet DEF Registered!request
<1>1. CASE Registered!ResetExpired
  BY <1>t, <1>1, <1>w, OneChange DEF Registered!ResetExpired, Registered!limits
<1>2. CASE Registered!Invite \/ \E slug \in Slug : Registered!TakeSlug(slug)
  BY <1>k, <1>2, <1>w DEF Registered!Invite, Registered!TakeSlug, Registered!limits
<1>3. CASE \E t \in Registered!Table : Registered!CoolDown(t) \/ Registered!Expire(t)
  <2>1. /\ rows' \in [Registered!Table -> Row] /\ \A t \in Registered!Table : Kept(t)
    BY <1>t, <1>3, OneChange DEF Registered!CoolDown, Registered!Expire
  <2> QED
    BY <1>3, <1>w, <2>1 DEF Registered!CoolDown, Registered!Expire, Registered!limits
<1>4. CASE UNCHANGED Registered!vars
  BY <1>k, <1>4, <1>w DEF Registered!vars, Registered!limits
<1> QED
  BY <1>r, <1>1, <1>2, <1>3, <1>4 DEF Registered!Next

\* The code that was mailed last is the one that is stored, whatever requests overlap and
\* however many, unless the request that mailed it was rolled back (a code is mailed under
\* the lock of its row).
THEOREM NewestCodeSafe == Registered!Spec => []Registered!NewestCodeStands
<1>1. CodeInv => Registered!NewestCodeStands
  BY DEF CodeInv, Accounted, Registered!NewestCodeStands
<1> QED
  BY CodeInit, CodeStep, <1>1, PTL DEF Registered!Spec

-----------------------------------------------------------------------------
(* Mailboxes.
   The mailboxes agree.  What is stored is what some request had in hand, so MailInv
   says of the settings every request holds what it says of the stored ones: a list of
   distinct ids with one default, and, until the single mailbox is written, verified
   credentials that were tried.  What a request is about is in the list it holds. *)

Box == [id : Nat, password : Nat, verified : Nat, enabled : BOOLEAN, default : BOOLEAN]
Settings == [fields : Box, listed : BOOLEAN, list : Seq(Box)]
OnOne == {"update", "delete", "prefer", "test"}
Asking == [op : {"idle", "add", "list", "single", "test single"} \cup OnOne, id : Nat, password : Nat,
           enabled : BOOLEAN]

MailTyped ==
    /\ settings \in Settings /\ held \in [Admin -> Settings]
    /\ request \in [Admin -> Asking]
    /\ boxes \in Nat /\ passwords \in Nat /\ single \in BOOLEAN

\* A list whose mailboxes are told apart, with one default.
Listing(accounts) ==
    /\ accounts \in Seq(Box)
    /\ \A i, j \in DOMAIN accounts :
          i # j => accounts[i].id # accounts[j].id /\ ~(accounts[i].default /\ accounts[j].default)
    /\ accounts # << >> => \E i \in DOMAIN accounts : accounts[i].default

AnyEnabled(accounts) == \E i \in DOMAIN accounts : accounts[i].enabled

\* Settings that could be shown and sent with.
Sound(s) ==
    /\ s \in Settings /\ s.fields.id = 0 /\ s.fields.default
    /\ Listing(Mail!LoadAccounts(s))
    /\ Mail!LoadAccounts(s) # << >> => (s.fields.enabled <=> AnyEnabled(Mail!LoadAccounts(s)))

Tried(accounts, tests) ==
    \A i \in DOMAIN accounts :
        accounts[i].verified # 0 => <<accounts[i].id, accounts[i].password>> \in tests

\* What a request is about is in the settings it holds, but for what it is about to add.
Fits(r, s) ==
    /\ r.op = "add" => r.id \notin Mail!Ids(Mail!LoadAccounts(s))
    /\ r.op \in OnOne => r.id \in Mail!Ids(Mail!LoadAccounts(s))

Issued(s, n) == \A id \in Mail!Ids(Mail!LoadAccounts(s)) : id <= n

MailInv ==
    /\ MailTyped
    /\ Sound(settings) /\ \A a \in Admin : Sound(held[a]) /\ Fits(request[a], held[a])
    /\ Issued(settings, boxes) /\ \A a \in Admin : Issued(held[a], boxes) /\ request[a].id <= boxes
    /\ ~single => /\ Tried(Mail!LoadAccounts(settings), tried)
                  /\ \A a \in Admin : Tried(Mail!LoadAccounts(held[a]), tried)

LEMMA BoxFields ==
    ASSUME NEW box \in Box
    PROVE  /\ box.id \in Nat /\ box.password \in Nat /\ box.verified \in Nat
           /\ box.enabled \in BOOLEAN /\ box.default \in BOOLEAN
BY DEF Box

LEMMA SettingsFields ==
    ASSUME NEW s \in Settings
    PROVE  s.fields \in Box /\ s.listed \in BOOLEAN /\ s.list \in Seq(Box)
BY DEF Settings

LEMMA NothingSound ==
    /\ Mail!NoFields \in Box /\ Mail!NoSettings \in Settings /\ Mail!Idle \in Asking
    /\ Mail!LoadAccounts(Mail!NoSettings) = << >> /\ Sound(Mail!NoSettings)
    /\ Mail!Ids(Mail!LoadAccounts(Mail!NoSettings)) = {}
    /\ (\A n \in Nat : Issued(Mail!NoSettings, n)) /\ Fits(Mail!Idle, Mail!NoSettings) /\ \A tests : Tried(Mail!LoadAccounts(Mail!NoSettings), tests)
<1>1. Mail!NoFields \in Box /\ Mail!NoSettings \in Settings /\ Mail!Idle \in Asking
  BY DEF Mail!NoFields, Mail!NoSettings, Mail!Idle, Box, Settings, Asking
<1>2. /\ Mail!LoadAccounts(Mail!NoSettings) = << >> /\ Mail!NoSettings.fields.id = 0
      /\ Mail!NoSettings.fields.default
      /\ Mail!Idle.op = "idle"
  BY DEF Mail!LoadAccounts, Mail!NoSettings, Mail!NoFields, Mail!Idle
<1>3. Sound(Mail!NoSettings)
  BY <1>1, <1>2 DEF Sound, Listing
<1>4. /\ Mail!Ids(Mail!LoadAccounts(Mail!NoSettings)) = {}
      /\ \A tests : Tried(Mail!LoadAccounts(Mail!NoSettings), tests)
  BY <1>2 DEF Mail!Ids, Tried
<1> QED
  BY <1>1, <1>2, <1>3, <1>4 DEF Issued, Fits, OnOne

\* Saving a list that holds together.
LEMMA Saves ==
    ASSUME NEW s, Sound(s), NEW accounts, Listing(accounts)
    PROVE  Sound(Mail!SaveAccounts(s, accounts)) /\ Mail!LoadAccounts(Mail!SaveAccounts(s, accounts)) = accounts
<1> DEFINE new == Mail!SaveAccounts(s, accounts)
<1>1. s \in Settings /\ s.fields \in Box /\ accounts \in Seq(Box)
  BY SettingsFields DEF Sound, Listing
<1>2. /\ new \in Settings /\ new.listed /\ new.list = accounts
      /\ new.fields.id = s.fields.id /\ new.fields.default = s.fields.default
      /\ new.fields.enabled = AnyEnabled(accounts)
  BY <1>1 DEF Mail!SaveAccounts, Settings, Box, AnyEnabled
<1>3. Mail!LoadAccounts(new) = accounts
  BY <1>2 DEF Mail!LoadAccounts
<1> QED
  BY <1>2, <1>3 DEF Sound

\* The mailbox with an id is found where it is.
LEMMA Found ==
    ASSUME NEW accounts, Listing(accounts), NEW id \in Mail!Ids(accounts)
    PROVE  LET k == Mail!Position(accounts, id)
           IN  /\ k \in DOMAIN accounts /\ accounts[k].id = id /\ accounts[k] \in Box
               /\ Mail!Account(accounts, id) = accounts[k]
               /\ \A i \in DOMAIN accounts : accounts[i].id = id => i = k
<1>1. \E i \in DOMAIN accounts : accounts[i].id = id
  BY DEF Mail!Ids
<1>2. /\ Mail!Position(accounts, id) \in DOMAIN accounts
      /\ accounts[Mail!Position(accounts, id)].id = id
  BY <1>1 DEF Mail!Position
<1> QED
  BY <1>2 DEF Mail!Account, Listing

\* One mailbox changes, but not its id or whether it is the default.
LEMMA ChangedListing ==
    ASSUME NEW accounts, Listing(accounts), NEW id \in Mail!Ids(accounts), NEW mailbox \in Box,
           mailbox.id = id, mailbox.default = Mail!Account(accounts, id).default
    PROVE  /\ Listing(Mail!Changed(accounts, id, mailbox))
           /\ Mail!Ids(Mail!Changed(accounts, id, mailbox)) = Mail!Ids(accounts)
<1> DEFINE new == Mail!Changed(accounts, id, mailbox)
           k == Mail!Position(accounts, id)
<1>1. k \in DOMAIN accounts /\ accounts[k].id = id /\ Mail!Account(accounts, id) = accounts[k]
  BY Found
<1>2. accounts \in Seq(Box)
  BY DEF Listing
<1>3. /\ new \in Seq(Box) /\ DOMAIN new = DOMAIN accounts
      /\ \A i \in DOMAIN accounts : new[i] = IF accounts[i].id = id THEN mailbox ELSE accounts[i]
  BY <1>2 DEF Mail!Changed
<1> HIDE DEF new, k
<1>4. \A i \in DOMAIN accounts : accounts[i].id = id => i = k
  BY <1>1 DEF Listing
<1>5. \A i \in DOMAIN accounts : new[i].id = accounts[i].id /\ new[i].default = accounts[i].default
  BY <1>1, <1>3, <1>4
<1>6. new # << >> => accounts # << >>
  BY <1>2, <1>3
<1>7. Listing(new)
  BY <1>3, <1>5, <1>6 DEF Listing
<1>8. Mail!Ids(new) = Mail!Ids(accounts)
  BY <1>3, <1>5 DEF Mail!Ids
<1> QED
  BY <1>7, <1>8 DEF new

\* A mailbox with an id of its own is added.
LEMMA AddedListing ==
    ASSUME NEW accounts, Listing(accounts), NEW box \in Box, box.id \notin Mail!Ids(accounts),
           box.default = \A i \in DOMAIN accounts : ~accounts[i].default
    PROVE  Listing(Append(accounts, box)) /\ Mail!Ids(Append(accounts, box)) = Mail!Ids(accounts) \cup {box.id}
<1> DEFINE new == Append(accounts, box)
           n == Len(accounts)
<1>1. accounts \in Seq(Box) /\ n \in Nat /\ DOMAIN accounts = 1 .. n
  BY DEF Listing
<1>2. /\ new \in Seq(Box) /\ DOMAIN new = 1 .. n + 1 /\ new[n + 1] = box
      /\ \A i \in 1 .. n : new[i] = accounts[i]
  BY <1>1
<1> HIDE DEF new, n
<1>3. \A i \in 1 .. n : accounts[i].id # box.id /\ ~(accounts[i].default /\ box.default)
  BY <1>1 DEF Mail!Ids
<1>4. \A i, j \in 1 .. n + 1 : i # j => new[i].id # new[j].id /\ ~(new[i].default /\ new[j].default)
  <2>1. \A i \in 1 .. n + 1 : i \in 1 .. n \/ i = n + 1
    BY <1>1
  <2>2. \A i, j \in 1 .. n : i # j => new[i].id # new[j].id /\ ~(new[i].default /\ new[j].default)
    BY <1>1, <1>2 DEF Listing
  <2>3. \A i \in 1 .. n : new[i].id # new[n + 1].id /\ ~(new[i].default /\ new[n + 1].default)
    BY <1>2, <1>3
  <2> QED
    BY <2>1, <2>2, <2>3
<1>5. \E i \in 1 .. n + 1 : new[i].default
  <2>1. CASE box.default
    BY <1>1, <1>2, <2>1
  <2>2. CASE ~box.default
    BY <1>1, <1>2, <2>2
  <2> QED
    BY <2>1, <2>2
<1>6. Mail!Ids(new) = Mail!Ids(accounts) \cup {box.id}
  BY <1>1, <1>2 DEF Mail!Ids
<1>7. Listing(new)
  BY <1>2, <1>4, <1>5 DEF Listing
<1> QED
  BY <1>6, <1>7 DEF new

\* What is left when one is taken out.
LEMMA Left ==
    ASSUME NEW accounts \in Seq(Box), NEW k \in DOMAIN accounts
    PROVE  LET left == Mail!RemoveAt(accounts, k)
           IN  /\ left \in Seq(Box) /\ DOMAIN left = 1 .. Len(accounts) - 1
               /\ \A i \in DOMAIN left : left[i] = accounts[IF i < k THEN i ELSE i + 1]
<1> DEFINE a == SubSeq(accounts, 1, k - 1)
           b == SubSeq(accounts, k + 1, Len(accounts))
<1>0. k \in 1 .. Len(accounts) /\ Len(accounts) \in Nat
  OBVIOUS
<1>1. a \in Seq(Box) /\ Len(a) = k - 1 /\ \A i \in 1 .. k - 1 : a[i] = accounts[i]
  BY <1>0
<1>2. /\ b \in Seq(Box) /\ Len(b) = Len(accounts) - k
      /\ \A i \in 1 .. Len(accounts) - k : b[i] = accounts[i + k]
  BY <1>0
<1> HIDE DEF a, b
<1>3. a \o b \in Seq(Box) /\ Len(a \o b) = Len(accounts) - 1
  BY <1>0, <1>1, <1>2
<1>4. \A i \in 1 .. Len(accounts) - 1 : (a \o b)[i] = IF i < k THEN a[i] ELSE b[i - k + 1]
  BY <1>0, <1>1, <1>2
<1>5. \A i \in 1 .. Len(accounts) - 1 : (a \o b)[i] = accounts[IF i < k THEN i ELSE i + 1]
  <2> SUFFICES ASSUME NEW i \in 1 .. Len(accounts) - 1
               PROVE  (a \o b)[i] = accounts[IF i < k THEN i ELSE i + 1]
    OBVIOUS
  <2>1. CASE i < k
    BY <1>0, <1>1, <1>4, <2>1
  <2>2. CASE ~(i < k)
    <3>1. i - k + 1 \in 1 .. Len(accounts) - k /\ (i - k + 1) + k = i + 1
      BY <1>0, <2>2
    <3>2. b[i - k + 1] = accounts[(i - k + 1) + k]
      BY <1>2, <3>1
    <3> QED
      BY <1>4, <2>2, <3>1, <3>2
  <2> QED
    BY <2>1, <2>2
<1>6. Mail!RemoveAt(accounts, k) = a \o b
  BY DEF Mail!RemoveAt, a, b
<1>7. DOMAIN (a \o b) = 1 .. Len(accounts) - 1
  BY <1>3
<1> QED
  BY <1>3, <1>5, <1>6, <1>7

\* Taking one out, and making the first of what is left the default if none is.
Rest(accounts, k) ==
    LET left == Mail!RemoveAt(accounts, k)
        lacking == left # << >> /\ \A i \in DOMAIN left : ~left[i].default
    IN  IF lacking THEN [left EXCEPT ![1].default = TRUE] ELSE left

LEMMA DeletedListing ==
    ASSUME NEW accounts, Listing(accounts), NEW k \in DOMAIN accounts
    PROVE  LET new == Rest(accounts, k)
           IN  /\ Listing(new) /\ Mail!Ids(new) \subseteq Mail!Ids(accounts)
               /\ \A i \in DOMAIN new : \E h \in DOMAIN accounts :
                     /\ new[i].id = accounts[h].id /\ new[i].password = accounts[h].password
                     /\ new[i].verified = accounts[h].verified
<1> DEFINE left == Mail!RemoveAt(accounts, k)
           n == Len(accounts) - 1
           from(i) == IF i < k THEN i ELSE i + 1
           lacking == left # << >> /\ \A i \in DOMAIN left : ~left[i].default
           new == IF lacking THEN [left EXCEPT ![1].default = TRUE] ELSE left
<1>1. accounts \in Seq(Box) /\ DOMAIN accounts = 1 .. n + 1 /\ n \in Nat /\ k \in 1 .. n + 1
  BY DEF Listing
<1>2. /\ left \in Seq(Box) /\ DOMAIN left = 1 .. n
      /\ \A i \in 1 .. n : left[i] = accounts[from(i)] /\ left[i] \in Box
  BY <1>1, Left
<1> HIDE DEF left, n
<1>3. \A i, j \in 1 .. n : from(i) \in DOMAIN accounts /\ (i # j => from(i) # from(j))
  BY <1>1
<1> HIDE DEF from
<1>4. \A i, j \in 1 .. n : i # j => left[i].id # left[j].id /\ ~(left[i].default /\ left[j].default)
  BY <1>2, <1>3 DEF Listing
<1>5. /\ new \in Seq(Box) /\ DOMAIN new = 1 .. n
      /\ \A i \in 1 .. n : /\ new[i].id = left[i].id /\ new[i].password = left[i].password
                          /\ new[i].verified = left[i].verified
                          /\ new[i].default = IF lacking THEN i = 1 ELSE left[i].default
  <2>1. CASE lacking
    <3>1. 1 \in 1 .. n
      BY <1>1, <1>2, <2>1
    <3>2. [left[1] EXCEPT !.default = TRUE] \in Box
      BY <1>2, <3>1 DEF Box
    <3>3. /\ new \in Seq(Box) /\ DOMAIN new = 1 .. n
          /\ \A i \in 1 .. n : new[i] = IF i = 1 THEN [left[1] EXCEPT !.default = TRUE] ELSE left[i]
      BY <1>2, <2>1, <3>1, <3>2
    <3>4. /\ left[1] \in Box /\ \A i \in 1 .. n : ~left[i].default
      BY <1>2, <2>1, <3>1
    <3>5. \A i \in 1 .. n : left[i].default = FALSE
      BY <1>2, <3>4, BoxFields
    <3>6. /\ new[1].id = left[1].id /\ new[1].password = left[1].password
          /\ new[1].verified = left[1].verified /\ new[1].default = TRUE
      BY <3>1, <3>3, <3>4 DEF Box
    <3>7. \A i \in 1 .. n : i # 1 => new[i] = left[i]
      BY <3>3
    <3> QED
      BY <2>1, <3>3, <3>5, <3>6, <3>7
  <2>2. CASE ~lacking
    BY <1>2, <2>2
  <2> QED
    BY <2>1, <2>2
<1>6. \A i, j \in 1 .. n : i # j => new[i].id # new[j].id /\ ~(new[i].default /\ new[j].default)
  <2>1. CASE lacking
    BY <1>4, <1>5, <2>1
  <2>2. CASE ~lacking
    BY <1>4, <1>5, <2>2
  <2> QED
    BY <2>1, <2>2
<1>7. new # << >> => \E i \in 1 .. n : new[i].default
  <2>1. CASE lacking
    <3>1. 1 \in 1 .. n
      BY <1>1, <1>2, <2>1
    <3> QED
      BY <1>5, <2>1, <3>1
  <2>2. CASE ~lacking
    BY <1>2, <1>5, <2>2
  <2> QED
    BY <2>1, <2>2
<1>8. \A i \in 1 .. n : \E h \in DOMAIN accounts :
          /\ new[i].id = accounts[h].id /\ new[i].password = accounts[h].password
          /\ new[i].verified = accounts[h].verified
  BY <1>2, <1>3, <1>5
<1> HIDE DEF new, lacking
<1>9. Listing(new)
  BY <1>5, <1>6, <1>7 DEF Listing
<1>10. Mail!Ids(new) \subseteq Mail!Ids(accounts)
  BY <1>5, <1>8 DEF Mail!Ids
<1> QED
  BY <1>5, <1>8, <1>9, <1>10 DEF new, lacking, left, Rest

\* One of the list becomes the default, and no other is.
Prefer(accounts, id) == [i \in DOMAIN accounts |-> [accounts[i] EXCEPT !.default = (accounts[i].id = id)]]

LEMMA PreferredListing ==
    ASSUME NEW accounts, Listing(accounts), NEW id \in Mail!Ids(accounts)
    PROVE  LET new == Prefer(accounts, id)
           IN  /\ Listing(new) /\ Mail!Ids(new) = Mail!Ids(accounts) /\ DOMAIN new = DOMAIN accounts
               /\ \A i \in DOMAIN accounts :
                     /\ new[i].id = accounts[i].id /\ new[i].password = accounts[i].password
                     /\ new[i].verified = accounts[i].verified
<1> DEFINE new == [i \in DOMAIN accounts |-> [accounts[i] EXCEPT !.default = (accounts[i].id = id)]]
<1>1. /\ accounts \in Seq(Box) /\ \A i \in DOMAIN accounts : accounts[i] \in Box
      /\ \E i \in DOMAIN accounts : accounts[i].id = id
  BY DEF Listing, Mail!Ids
<1>2. \A i \in DOMAIN accounts : [accounts[i] EXCEPT !.default = (accounts[i].id = id)] \in Box
  BY <1>1 DEF Box
<1>3. new \in Seq(Box) /\ DOMAIN new = DOMAIN accounts
  BY <1>1, <1>2
<1>4. \A i \in DOMAIN accounts :
          /\ new[i].id = accounts[i].id /\ new[i].password = accounts[i].password
          /\ new[i].verified = accounts[i].verified /\ (new[i].default <=> accounts[i].id = id)
  BY <1>1 DEF Box
<1> HIDE DEF new
<1>5. Listing(new)
  <2>1. \A i, j \in DOMAIN accounts : i # j => accounts[i].id # accounts[j].id
    BY DEF Listing
  <2>2. \A i, j \in DOMAIN new : i # j => new[i].id # new[j].id /\ ~(new[i].default /\ new[j].default)
    BY <1>3, <1>4, <2>1
  <2>3. \E i \in DOMAIN new : new[i].default
    BY <1>1, <1>3, <1>4
  <2> QED
    BY <1>3, <2>2, <2>3 DEF Listing
<1>6. Mail!Ids(new) = Mail!Ids(accounts)
  BY <1>3, <1>4 DEF Mail!Ids
<1> QED
  BY <1>3, <1>4, <1>5, <1>6 DEF new, Prefer

\* The single mailbox, as a list of one.
LEMMA OneListing ==
    ASSUME NEW box \in Box, box.id = 0, box.default
    PROVE  /\ Listing(<<box>>) /\ Mail!Ids(<<box>>) = {0} /\ (AnyEnabled(<<box>>) <=> box.enabled)
<1>1. <<box>> \in Seq(Box) /\ DOMAIN <<box>> = {1} /\ <<box>>[1] = box
  OBVIOUS
<1> QED
  BY <1>1 DEF Listing, Mail!Ids, AnyEnabled


\* What becomes of settings whose list is saved: accounts in place of what was loaded.
Saved(s, r, tests, new) ==
    /\ Sound(new)
    /\ Mail!Ids(Mail!LoadAccounts(new)) \subseteq Mail!Ids(Mail!LoadAccounts(s)) \cup {0, r.id}
    /\ Tried(Mail!LoadAccounts(s), tests) => Tried(Mail!LoadAccounts(new), tests)

LEMMA ListSaved ==
    ASSUME NEW s, Sound(s), NEW r, NEW tests, NEW accounts, Listing(accounts),
           Mail!Ids(accounts) \subseteq Mail!Ids(Mail!LoadAccounts(s)) \cup {r.id},
           Tried(Mail!LoadAccounts(s), tests) => Tried(accounts, tests)
    PROVE  Saved(s, r, tests, Mail!SaveAccounts(s, accounts))
BY Saves DEF Saved

\* What each endpoint makes of settings that are sound.
LEMMA ResultSaved ==
    ASSUME NEW s, Sound(s), NEW r \in Asking, Fits(r, s), r.op # "idle", NEW tests,
           r.op = "test" => <<r.id, Mail!Account(Mail!LoadAccounts(s), r.id).password>> \in tests
    PROVE  /\ Sound(Mail!Result(s, r))
           /\ Mail!Ids(Mail!LoadAccounts(Mail!Result(s, r))) \subseteq Mail!Ids(Mail!LoadAccounts(s)) \cup {0, r.id}
           /\ Tried(Mail!LoadAccounts(s), tests) /\ r.op \notin {"single", "test single"} =>
                 Tried(Mail!LoadAccounts(Mail!Result(s, r)), tests)
           /\ Tried(Mail!LoadAccounts(s), tests) /\ r.op = "test single" /\ <<0, s.fields.password>> \in tests =>
                 Tried(Mail!LoadAccounts(Mail!Result(s, r)), tests)
<1> DEFINE accounts == Mail!LoadAccounts(s)
           old == Mail!Account(accounts, r.id)
<1>s. /\ Listing(accounts) /\ accounts \in Seq(Box) /\ s \in Settings /\ s.fields \in Box
      /\ s.fields.id = 0 /\ s.fields.default
  BY SettingsFields DEF Sound, Listing
<1>r. r.id \in Nat /\ r.password \in Nat /\ r.enabled \in BOOLEAN
  BY DEF Asking
<1>o. r.op \in OnOne => /\ r.id \in Mail!Ids(accounts) /\ old \in Box /\ old.id = r.id
                        /\ \E k \in DOMAIN accounts : accounts[k] = old
  BY <1>s, Found DEF Fits
<1> HIDE DEF accounts, old
<1>1. ASSUME r.op = "add" PROVE Saved(s, r, tests, Mail!Result(s, r))
  <2> DEFINE box == [id |-> r.id, password |-> r.password, verified |-> 0, enabled |-> r.enabled,
                     default |-> \A i \in DOMAIN accounts : ~accounts[i].default]
             new == Append(accounts, box)
  <2>1. /\ box \in Box /\ box.id = r.id /\ box.verified = 0
        /\ box.default = \A i \in DOMAIN accounts : ~accounts[i].default
    BY <1>r DEF Box
  <2>2. Mail!Result(s, r) = Mail!SaveAccounts(s, new)
    BY <1>1 DEF Mail!Result, Mail!Added, accounts
  <2> HIDE DEF box
  <2>3. Listing(new) /\ Mail!Ids(new) = Mail!Ids(accounts) \cup {r.id}
    BY <1>1, <1>s, <2>1, AddedListing DEF Fits, accounts
  <2>4. Tried(accounts, tests) => Tried(new, tests)
    BY <1>s, <2>1 DEF Tried
  <2> QED
    BY <2>2, <2>3, <2>4, ListSaved DEF accounts
<1>2. ASSUME r.op \in {"update", "test"} PROVE Saved(s, r, tests, Mail!Result(s, r))
  <2>1. PICK box \in Box : /\ Mail!Result(s, r) = Mail!SaveAccounts(s, Mail!Changed(accounts, r.id, box))
                           /\ box.id = r.id /\ box.default = old.default
                           /\ \/ box.password = old.password /\ box.verified = old.verified
                              \/ box.verified = 0
                              \/ r.op = "test" /\ box.password = old.password
    <3>1. r.op \in OnOne /\ old \in Box /\ old.id = r.id
      BY <1>2, <1>o DEF OnOne
    <3>2. CASE r.op = "update" /\ r.password = 0
      <4> DEFINE box == [old EXCEPT !.enabled = r.enabled]
      <4>1. /\ box \in Box /\ box.id = r.id /\ box.default = old.default
            /\ box.password = old.password /\ box.verified = old.verified
        BY <1>r, <3>1 DEF Box
      <4>2. Mail!Result(s, r) = Mail!SaveAccounts(s, Mail!Changed(accounts, r.id, box))
        BY <3>2 DEF Mail!Result, Mail!Updated, accounts, old
      <4> QED
        BY <4>1, <4>2
    <3>3. CASE r.op = "update" /\ r.password # 0
      <4> DEFINE box == [old EXCEPT !.enabled = r.enabled, !.password = r.password, !.verified = 0]
      <4>1. box \in Box /\ box.id = r.id /\ box.default = old.default /\ box.verified = 0
        BY <1>r, <3>1 DEF Box
      <4>2. Mail!Result(s, r) = Mail!SaveAccounts(s, Mail!Changed(accounts, r.id, box))
        BY <3>3 DEF Mail!Result, Mail!Updated, accounts, old
      <4> QED
        BY <4>1, <4>2
    <3>4. CASE r.op = "test"
      <4> DEFINE box == [old EXCEPT !.verified = old.password]
      <4>1. box \in Box /\ box.id = r.id /\ box.default = old.default /\ box.password = old.password
        BY <3>1 DEF Box
      <4>2. Mail!Result(s, r) = Mail!SaveAccounts(s, Mail!Changed(accounts, r.id, box))
        BY <3>4 DEF Mail!Result, Mail!Verified, accounts, old
      <4> QED
        BY <3>4, <4>1, <4>2
    <3> QED
      BY <1>2, <3>2, <3>3, <3>4
  <2> DEFINE new == Mail!Changed(accounts, r.id, box)
  <2>2. r.id \in Mail!Ids(accounts) /\ \E k \in DOMAIN accounts : accounts[k] = old /\ old.id = r.id
    BY <1>2, <1>o DEF OnOne
  <2>3. Listing(new) /\ Mail!Ids(new) = Mail!Ids(accounts)
    BY <1>s, <2>1, <2>2, ChangedListing DEF old
  <2>4. /\ DOMAIN new = DOMAIN accounts
        /\ \A i \in DOMAIN accounts : new[i] = IF accounts[i].id = r.id THEN box ELSE accounts[i]
    BY <1>s DEF Mail!Changed
  <2>5. Tried(accounts, tests) => Tried(new, tests)
    <3> HIDE DEF new
    <3>1. r.op = "test" => <<r.id, old.password>> \in tests
      BY DEF accounts, old
    <3>2. Tried(accounts, tests) => (old.verified # 0 => <<r.id, old.password>> \in tests)
      BY <2>2 DEF Tried
    <3>3. Tried(accounts, tests) => (box.verified # 0 => <<box.id, box.password>> \in tests)
      BY <2>1, <3>1, <3>2
    <3> QED
      BY <2>1, <2>4, <3>3 DEF Tried
  <2> HIDE DEF new
  <2>6. Saved(s, r, tests, Mail!SaveAccounts(s, new))
    BY <2>3, <2>5, ListSaved DEF accounts
  <2> QED
    BY <2>1, <2>6 DEF new
<1>3. ASSUME r.op = "delete" PROVE Saved(s, r, tests, Mail!Result(s, r))
  <2> DEFINE k == Mail!Position(accounts, r.id)
             new == Rest(accounts, k)
  <2>1. Mail!Result(s, r) = Mail!SaveAccounts(s, new)
    BY <1>3 DEF Mail!Result, Mail!Deleted, Rest, accounts
  <2>2. k \in DOMAIN accounts
    BY <1>3, <1>o, <1>s, Found DEF OnOne
  <2>3. /\ Listing(new) /\ Mail!Ids(new) \subseteq Mail!Ids(accounts)
        /\ \A i \in DOMAIN new : \E h \in DOMAIN accounts :
              /\ new[i].id = accounts[h].id /\ new[i].password = accounts[h].password
              /\ new[i].verified = accounts[h].verified
    BY <1>s, <2>2, DeletedListing
  <2> HIDE DEF new
  <2>4. Tried(accounts, tests) => Tried(new, tests)
    BY <2>3 DEF Tried
  <2> QED
    BY <2>1, <2>3, <2>4, ListSaved DEF accounts
<1>4. ASSUME r.op = "prefer" PROVE Saved(s, r, tests, Mail!Result(s, r))
  <2> DEFINE new == Prefer(accounts, r.id)
  <2>1. Mail!Result(s, r) = Mail!SaveAccounts(s, new)
    BY <1>4 DEF Mail!Result, Mail!Preferred, Prefer, accounts
  <2>2. /\ Listing(new) /\ Mail!Ids(new) = Mail!Ids(accounts) /\ DOMAIN new = DOMAIN accounts
        /\ \A i \in DOMAIN accounts :
              /\ new[i].id = accounts[i].id /\ new[i].password = accounts[i].password
              /\ new[i].verified = accounts[i].verified
    BY <1>4, <1>o, <1>s, PreferredListing DEF OnOne
  <2> HIDE DEF new
  <2>3. Tried(accounts, tests) => Tried(new, tests)
    BY <2>2 DEF Tried
  <2> QED
    BY <2>1, <2>2, <2>3, ListSaved DEF accounts
<1>5. ASSUME r.op = "list" PROVE Saved(s, r, tests, Mail!Result(s, r))
  <2>1. Mail!Result(s, r) = Mail!SaveAccounts(s, accounts)
    BY <1>5 DEF Mail!Result, accounts
  <2> QED
    BY <1>s, <2>1, ListSaved DEF accounts
<1>6. ASSUME r.op = "single"
      PROVE  Sound(Mail!Result(s, r)) /\ Mail!Ids(Mail!LoadAccounts(Mail!Result(s, r))) \subseteq {0}
  <2> DEFINE fields == [s.fields EXCEPT !.enabled = r.enabled, !.password = IF r.password = 0 THEN @ ELSE r.password]
             new == [Mail!NoSettings EXCEPT !.fields = fields]
  <2>1. fields \in Box /\ fields.id = 0 /\ fields.default
    BY <1>s, <1>r DEF Box
  <2>2. Mail!Result(s, r) = new
    BY <1>6 DEF Mail!Result, Mail!SingleSaved
  <2> HIDE DEF fields
  <2>3. new \in Settings /\ new.fields = fields /\ ~new.listed
    BY <2>1, NothingSound DEF Settings, Mail!NoSettings
  <2>4. Mail!LoadAccounts(new) = << >> \/ Mail!LoadAccounts(new) = <<fields>>
    BY <2>3 DEF Mail!LoadAccounts
  <2>5. Listing(<< >>) /\ Mail!Ids(<< >>) = {}
    BY NothingSound DEF Sound
  <2> QED
    BY <2>1, <2>2, <2>3, <2>4, <2>5, OneListing DEF Sound
<1>7. ASSUME r.op = "test single"
      PROVE  /\ Sound(Mail!Result(s, r))
             /\ Mail!Ids(Mail!LoadAccounts(Mail!Result(s, r))) \subseteq Mail!Ids(accounts) \cup {0}
             /\ Tried(accounts, tests) /\ <<0, s.fields.password>> \in tests => Tried(Mail!LoadAccounts(Mail!Result(s, r)), tests)
  <2> DEFINE fields == [s.fields EXCEPT !.verified = s.fields.password]
             new == [s EXCEPT !.fields.verified = s.fields.password]
  <2>1. /\ fields \in Box /\ fields.id = 0 /\ fields.default /\ fields.password = s.fields.password
        /\ fields.enabled = s.fields.enabled
    BY <1>s DEF Box
  <2>2. Mail!Result(s, r) = new
    BY <1>7 DEF Mail!Result, Mail!SingleVerified
  <2>3. new \in Settings /\ new.fields = fields /\ new.listed = s.listed /\ new.list = s.list
    BY <1>s, <2>1 DEF Settings
  <2> HIDE DEF fields, new
  <2>4. CASE s.listed
    <3>1. Mail!LoadAccounts(new) = accounts
      BY <2>3, <2>4 DEF Mail!LoadAccounts, accounts
    <3> QED
      BY <1>s, <2>1, <2>2, <2>3, <3>1 DEF Sound, accounts
  <2>5. CASE ~s.listed
    <3>1. Mail!LoadAccounts(new) = << >> \/ Mail!LoadAccounts(new) = <<fields>>
      BY <2>3, <2>5 DEF Mail!LoadAccounts
    <3>2. Listing(<< >>) /\ Mail!Ids(<< >>) = {} /\ Tried(<< >>, tests)
      BY NothingSound DEF Sound
    <3>3. <<0, s.fields.password>> \in tests => Tried(<<fields>>, tests)
      BY <2>1 DEF Tried
    <3> QED
      BY <2>1, <2>2, <2>3, <3>1, <3>2, <3>3, OneListing DEF Sound
  <2> QED
    BY <2>4, <2>5, <1>s
<1>8. r.op \in {"add", "update", "delete", "prefer", "list", "test", "single", "test single"}
  BY DEF Asking, OnOne
<1>9. CASE r.op \in {"add", "update", "delete", "prefer", "list", "test"}
  <2>1. Saved(s, r, tests, Mail!Result(s, r))
    BY <1>1, <1>2, <1>3, <1>4, <1>5, <1>9
  <2> QED
    BY <1>9, <2>1 DEF Saved
<1>10. CASE r.op = "single"
  BY <1>6, <1>10
<1>11. CASE r.op = "test single"
  BY <1>7, <1>11 DEF accounts
<1> QED
  BY <1>8, <1>9, <1>10, <1>11

LEMMA MailInit == Mail!Init => MailInv
<1> SUFFICES ASSUME Mail!Init PROVE MailInv
  OBVIOUS
<1> DEFINE none == Mail!NoFields
           nothing == Mail!NoSettings
<1>0. /\ none \in Box /\ nothing \in Settings /\ nothing.fields = none
      /\ none.id = 0 /\ none.default /\ none.verified = 0 /\ ~nothing.listed
  BY NothingSound DEF Mail!NoFields, Mail!NoSettings
<1>1. PICK enabled \in BOOLEAN, password \in 0 .. 1 :
          /\ settings = [nothing EXCEPT !.fields.password = password, !.fields.enabled = enabled]
          /\ passwords = password
  BY DEF Mail!Init
<1> HIDE DEF none, nothing
<1> DEFINE fields == [none EXCEPT !.password = password, !.enabled = enabled]
<1>2. fields \in Box /\ fields.id = 0 /\ fields.default /\ fields.verified = 0
  <2>1. password \in Nat
    OBVIOUS
  <2>2. /\ fields.id = none.id /\ fields.default = none.default /\ fields.verified = none.verified
        /\ fields \in Box
    BY <1>0, <2>1 DEF Box
  <2> QED
    BY <1>0, <2>2
<1>3. settings \in Settings /\ settings.fields = fields /\ ~settings.listed
  BY <1>0, <1>1, <1>2 DEF Settings
<1> HIDE DEF fields
<1>4. Mail!LoadAccounts(settings) = << >> \/ Mail!LoadAccounts(settings) = <<fields>>
  BY <1>3 DEF Mail!LoadAccounts
<1>5. Listing(<< >>) /\ Mail!Ids(<< >>) = {} /\ Tried(<< >>, tried)
  BY NothingSound DEF Sound
<1>6. Sound(settings)
  BY <1>2, <1>3, <1>4, <1>5, OneListing DEF Sound
<1>7. boxes = 0 /\ Issued(settings, boxes) /\ Tried(Mail!LoadAccounts(settings), tried)
  <2>1. Mail!Ids(Mail!LoadAccounts(settings)) \subseteq {0} /\ boxes = 0
    BY <1>2, <1>4, <1>5, OneListing DEF Mail!Init
  <2>2. Tried(<<fields>>, tried)
    BY <1>2 DEF Tried
  <2> QED
    BY <1>4, <1>5, <2>1, <2>2 DEF Issued
<1>8. /\ request = [a \in Admin |-> Mail!Idle] /\ held = [a \in Admin |-> Mail!NoSettings]
      /\ single = FALSE
  BY DEF Mail!Init
<1>9. MailTyped
  <2>1. password \in Nat /\ passwords = password
    BY <1>1
  <2>2. boxes \in Nat /\ single \in BOOLEAN
    BY <1>7, <1>8
  <2>3. request \in [Admin -> Asking] /\ held \in [Admin -> Settings]
    BY <1>8, NothingSound
  <2> QED
    BY <1>3, <2>1, <2>2, <2>3 DEF MailTyped
<1>10. \A a \in Admin : /\ Sound(held[a]) /\ Fits(request[a], held[a]) /\ Issued(held[a], boxes)
                       /\ request[a].id <= boxes /\ Tried(Mail!LoadAccounts(held[a]), tried)
  <2>1. Mail!Idle.id = 0
    BY DEF Mail!Idle
  <2> QED
    BY <1>7, <1>8, <2>1, NothingSound
<1> QED
  BY <1>6, <1>7, <1>9, <1>10 DEF MailInv

\* More ids may be given out later.
LEMMA IssuedLater ==
    ASSUME NEW s, Sound(s), NEW n \in Nat, NEW m \in Nat, n <= m, Issued(s, n)
    PROVE  Issued(s, m)
<1>1. \A id \in Mail!Ids(Mail!LoadAccounts(s)) : id \in Nat
  BY BoxFields DEF Sound, Listing, Mail!Ids
<1> QED
  BY <1>1 DEF Issued

\* A request begins: it holds the settings as they are.
LEMMA BeginStep ==
    ASSUME MailInv, NEW a \in Admin, NEW r \in Asking, Mail!Begin(a, r), Fits(r, settings),
           boxes' \in Nat, boxes <= boxes', passwords' \in Nat, r.id <= boxes',
           UNCHANGED <<settings, tried, single>>
    PROVE  MailInv'
<1>0. /\ MailTyped /\ Sound(settings) /\ Issued(settings, boxes)
      /\ \A b \in Admin : /\ Sound(held[b]) /\ Fits(request[b], held[b]) /\ Issued(held[b], boxes)
                          /\ request[b].id <= boxes
      /\ ~single => /\ Tried(Mail!LoadAccounts(settings), tried)
                    /\ \A b \in Admin : Tried(Mail!LoadAccounts(held[b]), tried)
  BY DEF MailInv
<1>1. /\ request' \in [Admin -> Asking] /\ held' \in [Admin -> Settings]
      /\ request'[a] = r /\ held'[a] = settings
      /\ \A b \in Admin \ {a} : request'[b] = request[b] /\ held'[b] = held[b]
  BY <1>0 DEF Mail!Begin, MailTyped
<1>2. MailTyped'
  BY <1>0, <1>1 DEF MailTyped
<1>3. boxes \in Nat /\ \A b \in Admin : request[b].id \in Nat
  BY <1>0 DEF MailTyped, Asking
<1>4. /\ Issued(settings, boxes')
      /\ \A b \in Admin : Issued(held[b], boxes') /\ request[b].id <= boxes'
  BY <1>0, <1>3, IssuedLater
<1>5. \A b \in Admin : /\ Sound(held'[b]) /\ Fits(request'[b], held'[b]) /\ Issued(held'[b], boxes')
                       /\ request'[b].id <= boxes'
                       /\ ~single => Tried(Mail!LoadAccounts(held'[b]), tried)
  BY <1>0, <1>1, <1>4
<1>6. Sound(settings)' /\ Issued(settings, boxes)' /\ (single' <=> single)
  BY <1>0, <1>4
<1>7. \A b \in Admin : /\ Sound(held[b])' /\ Fits(request[b], held[b])' /\ Issued(held[b], boxes)'
                       /\ (request[b].id <= boxes)'
  <2>1. \A b \in Admin : Sound(held[b])' /\ Issued(held[b], boxes)'
    BY <1>5
  <2>2. \A b \in Admin : Fits(request[b], held[b])'
    BY <1>5
  <2>3. \A b \in Admin : (request[b].id <= boxes)'
    BY <1>5
  <2> QED
    BY <2>1, <2>2, <2>3
<1>8. ~single' => /\ Tried(Mail!LoadAccounts(settings), tried)'
                  /\ \A b \in Admin : Tried(Mail!LoadAccounts(held[b]), tried)'
  BY <1>0, <1>5, <1>6
<1> QED
  BY <1>2, <1>6, <1>7, <1>8 DEF MailInv

\* A request ends: it holds nothing any more.
LEMMA EndStep ==
    ASSUME MailInv, NEW a \in Admin,
           request' = [request EXCEPT ![a] = Mail!Idle], held' = [held EXCEPT ![a] = Mail!NoSettings],
           UNCHANGED <<boxes, passwords>>, single' \in BOOLEAN, single => single', tried \subseteq tried',
           Sound(settings'), Issued(settings', boxes), ~single' => Tried(Mail!LoadAccounts(settings'), tried')
    PROVE  MailInv'
<1>0. /\ MailTyped
      /\ \A b \in Admin : /\ Sound(held[b]) /\ Fits(request[b], held[b]) /\ Issued(held[b], boxes)
                          /\ request[b].id <= boxes
      /\ ~single => \A b \in Admin : Tried(Mail!LoadAccounts(held[b]), tried)
  BY DEF MailInv
<1>1. /\ request' \in [Admin -> Asking] /\ held' \in [Admin -> Settings]
      /\ request'[a] = Mail!Idle /\ held'[a] = Mail!NoSettings
      /\ \A b \in Admin \ {a} : request'[b] = request[b] /\ held'[b] = held[b]
  BY <1>0, NothingSound DEF MailTyped
<1>2. MailTyped'
  BY <1>0, <1>1 DEF MailTyped, Sound
<1>3. boxes \in Nat /\ Mail!Idle.id <= boxes
  BY <1>0 DEF MailTyped, Mail!Idle
<1>4. ~single' => \A b \in Admin : Tried(Mail!LoadAccounts(held[b]), tried')
  BY <1>0 DEF Tried
<1>5. \A b \in Admin : /\ Sound(held'[b]) /\ Fits(request'[b], held'[b]) /\ Issued(held'[b], boxes)
                       /\ request'[b].id <= boxes
                       /\ ~single' => Tried(Mail!LoadAccounts(held'[b]), tried')
  BY <1>0, <1>1, <1>3, <1>4, NothingSound
<1>6. \A b \in Admin : /\ Sound(held[b])' /\ Fits(request[b], held[b])' /\ Issued(held[b], boxes)'
                       /\ (request[b].id <= boxes)'
                       /\ (~single => Tried(Mail!LoadAccounts(held[b]), tried))'
  <2>1. \A b \in Admin : Sound(held[b])' /\ Issued(held[b], boxes)'
    BY <1>5
  <2>2. \A b \in Admin : Fits(request[b], held[b])'
    BY <1>5
  <2>3. \A b \in Admin : (request[b].id <= boxes)'
    BY <1>5
  <2>4. ~single' => \A b \in Admin : Tried(Mail!LoadAccounts(held[b]), tried)'
    BY <1>5
  <2> QED
    BY <2>1, <2>2, <2>3, <2>4
<1>7. /\ Sound(settings)' /\ Issued(settings, boxes)'
      /\ (~single => Tried(Mail!LoadAccounts(settings), tried))'
  OBVIOUS
<1> QED
  BY <1>2, <1>6, <1>7 DEF MailInv

\* The settings a request has made are written, or those that were left alone stay.
LEMMA WriteStep ==
    ASSUME MailInv, NEW a \in Admin, Mail!Write(a)
    PROVE  MailInv'
<1> DEFINE s == held[a]
           r == request[a]
           new == Mail!Result(s, r)
<1>0. /\ MailTyped /\ Sound(settings) /\ Issued(settings, boxes)
      /\ Sound(s) /\ Fits(r, s) /\ Issued(s, boxes) /\ r.id <= boxes /\ r \in Asking
      /\ boxes \in Nat
      /\ ~single => Tried(Mail!LoadAccounts(settings), tried) /\ Tried(Mail!LoadAccounts(s), tried)
  BY DEF MailInv, MailTyped
<1>1. /\ r.op # "idle" /\ settings' \in {new, settings} /\ single' = (single \/ r.op = "single")
      /\ tried \subseteq tried'
      /\ r.op = "test" => <<r.id, Mail!Account(Mail!LoadAccounts(s), r.id).password>> \in tried'
      /\ r.op = "test single" => <<0, s.fields.password>> \in tried'
      /\ request' = [request EXCEPT ![a] = Mail!Idle]
      /\ held' = [held EXCEPT ![a] = Mail!NoSettings]
      /\ UNCHANGED <<boxes, passwords>>
  <2>1. /\ r.op # "idle" /\ settings' \in {new, settings} /\ single' = (single \/ r.op = "single")
        /\ request' = [request EXCEPT ![a] = Mail!Idle]
        /\ held' = [held EXCEPT ![a] = Mail!NoSettings]
        /\ UNCHANGED <<boxes, passwords>>
    BY DEF Mail!Write
  <2>2. CASE r.op = "test"
    BY <2>1, <2>2 DEF Mail!Write
  <2>3. CASE r.op = "test single"
    BY <2>1, <2>3 DEF Mail!Write
  <2>4. CASE r.op \notin {"test", "test single"}
    BY <2>1, <2>4 DEF Mail!Write
  <2> QED
    BY <2>1, <2>2, <2>3, <2>4
<1> HIDE DEF new
<1>2. /\ Sound(new)
      /\ Mail!Ids(Mail!LoadAccounts(new)) \subseteq Mail!Ids(Mail!LoadAccounts(s)) \cup {0, r.id}
      /\ Tried(Mail!LoadAccounts(s), tried') /\ r.op # "single" => Tried(Mail!LoadAccounts(new), tried')
  BY <1>0, <1>1, ResultSaved DEF new
<1>3. Issued(new, boxes)
  BY <1>0, <1>2 DEF Issued
<1>4. ~single' => Tried(Mail!LoadAccounts(settings), tried') /\ Tried(Mail!LoadAccounts(s), tried')
  BY <1>0, <1>1 DEF Tried
<1>5. ~single' => Tried(Mail!LoadAccounts(new), tried')
  BY <1>1, <1>2, <1>4
<1>6. single' \in BOOLEAN /\ (single => single')
  BY <1>0, <1>1 DEF MailTyped
<1> QED
  BY <1>0, <1>1, <1>2, <1>3, <1>4, <1>5, <1>6, EndStep

LEMMA MailStep == MailInv /\ [Mail!Next]_Mail!vars => MailInv'
<1> SUFFICES ASSUME MailInv, [Mail!Next]_Mail!vars PROVE MailInv'
  OBVIOUS
<1>0. /\ MailTyped /\ Issued(settings, boxes) /\ Sound(settings) /\ boxes \in Nat
      /\ passwords \in Nat
      /\ \A id \in Mail!Ids(Mail!LoadAccounts(settings)) : id \in Nat /\ id <= boxes
      /\ \A password \in Mail!Passwords({0}) : password \in Nat
  <2>1. /\ MailTyped /\ Issued(settings, boxes) /\ Sound(settings) /\ boxes \in Nat
        /\ passwords \in Nat
    BY DEF MailInv, MailTyped
  <2>2. \A id \in Mail!Ids(Mail!LoadAccounts(settings)) : id \in Nat
    BY <2>1, BoxFields DEF Sound, Listing, Mail!Ids
  <2> QED
    BY <2>1, <2>2 DEF Issued, Mail!Passwords
<1>1. ASSUME NEW a \in Admin, NEW password, NEW enabled \in BOOLEAN, Mail!Add(a, password, enabled)
      PROVE  MailInv'
  <2> DEFINE r == [op |-> "add", id |-> boxes + 1, password |-> password, enabled |-> enabled]
  <2>1. /\ password \in Nat /\ Mail!Begin(a, r) /\ boxes' = boxes + 1 /\ passwords' \in Nat
        /\ UNCHANGED <<settings, tried, single>>
    BY <1>0, <1>1 DEF Mail!Add
  <2>2. r \in Asking /\ r.op = "add" /\ r.id = boxes + 1
    BY <1>0, <2>1 DEF Asking
  <2> HIDE DEF r
  <2>3. Fits(r, settings)
    BY <1>0, <2>2 DEF Fits, OnOne
  <2> QED
    BY <1>0, <2>1, <2>2, <2>3, BeginStep
<1>2. ASSUME NEW a \in Admin, NEW id, NEW password, NEW enabled \in BOOLEAN,
             Mail!Update(a, id, password, enabled)
      PROVE  MailInv'
  <2> DEFINE r == [op |-> "update", id |-> id, password |-> password, enabled |-> enabled]
  <2>1. /\ password \in Nat /\ id \in Mail!Ids(Mail!LoadAccounts(settings)) /\ Mail!Begin(a, r)
        /\ passwords' \in Nat
        /\ UNCHANGED <<settings, tried, single, boxes>>
    BY <1>0, <1>2 DEF Mail!Update
  <2>2. r \in Asking /\ r.op = "update" /\ r.id = id
    BY <1>0, <2>1 DEF Asking, OnOne
  <2> HIDE DEF r
  <2>3. Fits(r, settings)
    BY <2>1, <2>2 DEF Fits
  <2> QED
    BY <1>0, <2>1, <2>2, <2>3, BeginStep
<1>3. ASSUME NEW a \in Admin, NEW op, NEW id, Mail!Choose(a, op, id) PROVE MailInv'
  <2> DEFINE r == [op |-> op, id |-> id, password |-> 0, enabled |-> FALSE]
  <2>1. /\ op \in {"delete", "prefer"} /\ id \in Mail!Ids(Mail!LoadAccounts(settings))
        /\ Mail!Begin(a, r)
        /\ UNCHANGED <<settings, tried, single, boxes, passwords>>
    BY <1>3 DEF Mail!Choose
  <2>2. r \in Asking /\ r.op # "add" /\ r.id = id
    BY <1>0, <2>1 DEF Asking, OnOne
  <2> HIDE DEF r
  <2>3. Fits(r, settings)
    BY <2>1, <2>2 DEF Fits
  <2> QED
    BY <1>0, <2>1, <2>2, <2>3, BeginStep
<1>4. ASSUME NEW a \in Admin, NEW r, Mail!Begin(a, r), r.op # "add", r.op \notin OnOne,
             r \in Asking,
             r.id = 0, passwords' \in Nat, UNCHANGED <<settings, tried, single, boxes>>
      PROVE  MailInv'
  <2>1. Fits(r, settings)
    BY <1>4 DEF Fits
  <2>2. boxes' \in Nat /\ boxes <= boxes' /\ r.id <= boxes'
    BY <1>0, <1>4
  <2> QED
    BY <1>4, <2>1, <2>2, BeginStep
<1>5. ASSUME NEW op \in {"list", "test single"} PROVE LET r == [Mail!Idle EXCEPT !.op = op]
                                                           IN  r \in Asking /\ r.op = op /\ r.id = 0
  BY DEF Mail!Idle, Asking
<1>o. {"list", "single", "test single"} \cap (OnOne \cup {"add"}) = {}
  BY DEF OnOne
<1>6. ASSUME NEW a \in Admin, Mail!List(a) PROVE MailInv'
  <2> DEFINE r == [Mail!Idle EXCEPT !.op = "list"]
  <2>1. Mail!Begin(a, r) /\ UNCHANGED <<settings, tried, single, boxes, passwords>>
    BY <1>6 DEF Mail!List
  <2>2. r \in Asking /\ r.op = "list" /\ r.id = 0
    BY <1>5
  <2> HIDE DEF r
  <2> QED
    BY <1>0, <1>4, <1>o, <2>1, <2>2
<1>7. ASSUME NEW a \in Admin, Mail!TestSingle(a) PROVE MailInv'
  <2> DEFINE r == [Mail!Idle EXCEPT !.op = "test single"]
  <2>1. Mail!Begin(a, r) /\ UNCHANGED <<settings, tried, single, boxes, passwords>>
    BY <1>7 DEF Mail!TestSingle
  <2>2. r \in Asking /\ r.op = "test single" /\ r.id = 0
    BY <1>5
  <2> HIDE DEF r
  <2> QED
    BY <1>0, <1>4, <1>o, <2>1, <2>2
<1>8. ASSUME NEW a \in Admin, NEW password, NEW enabled \in BOOLEAN,
             Mail!PutSingle(a, password, enabled)
      PROVE  MailInv'
  <2> DEFINE r == [op |-> "single", id |-> 0, password |-> password, enabled |-> enabled]
  <2>1. /\ password \in Nat /\ Mail!Begin(a, r) /\ passwords' \in Nat
        /\ UNCHANGED <<settings, tried, single, boxes>>
    BY <1>0, <1>8 DEF Mail!PutSingle
  <2>2. r \in Asking /\ r.op = "single" /\ r.id = 0
    BY <2>1 DEF Asking
  <2> HIDE DEF r
  <2> QED
    BY <1>4, <1>o, <2>1, <2>2
<1>9. ASSUME NEW a \in Admin, NEW id, Mail!Test(a, id) PROVE MailInv'
  <2> DEFINE none == Mail!Idle
             r == [none EXCEPT !.op = "test", !.id = id]
  <2>1. /\ id \in Mail!Ids(Mail!LoadAccounts(settings)) /\ Mail!Begin(a, r)
        /\ UNCHANGED <<settings, tried, single, boxes, passwords>>
    BY <1>9 DEF Mail!Test
  <2>2. id \in Nat /\ "test" \in {"idle", "add", "list", "single", "test single"} \cup OnOne
    BY <1>0, <2>1 DEF OnOne
  <2>3. none \in Asking
    BY NothingSound
  <2> HIDE DEF none
  <2>4. r \in Asking /\ r.op = "test" /\ r.id = id
    BY <2>2, <2>3 DEF Asking
  <2> HIDE DEF r
  <2>5. Fits(r, settings)
    BY <2>1, <2>4 DEF Fits
  <2> QED
    BY <1>0, <2>1, <2>4, <2>5, BeginStep
<1>10. ASSUME NEW a \in Admin, Mail!TestFails(a) PROVE MailInv'
  BY <1>0, <1>10, EndStep DEF Mail!TestFails, MailInv, MailTyped
<1>11. CASE UNCHANGED Mail!vars
  BY <1>11 DEF Mail!vars, MailInv, MailTyped
<1>12. CASE Mail!Next
  <2> SUFFICES ASSUME NEW a \in Admin,
                      \/ Mail!List(a) \/ Mail!TestSingle(a) \/ Mail!TestFails(a) \/ Mail!Write(a)
                      \/ \E id \in 0 .. MaxBoxes : Mail!Test(a, id) \/ \E op \in {"delete", "prefer"} : Mail!Choose(a, op, id)
                      \/ \E password \in 0 .. MaxPasswords, enabled \in BOOLEAN :
                            \/ Mail!Add(a, password, enabled) \/ Mail!PutSingle(a, password, enabled)
                            \/ \E id \in 0 .. MaxBoxes : Mail!Update(a, id, password, enabled)
               PROVE  MailInv'
    BY <1>12 DEF Mail!Next
  <2> QED
    BY <1>1, <1>2, <1>3, <1>6, <1>7, <1>8, <1>9, <1>10, WriteStep
<1> QED
  BY <1>11, <1>12

LEMMA MailHolds == MailInv => Mail!MailboxesAgree
BY DEF MailInv, Mail!MailboxesAgree, Mail!OneDefault, Mail!VerifiedWasTried, Sound, Listing,
   AnyEnabled, Tried

\* However requests overlap, the list keeps one default, and mail is on when one of it is
\* enabled; what it shows as verified was tested, until the single mailbox is written.
THEOREM MailSafe == Mail!Spec => []Mail!MailboxesAgree
BY MailInit, MailStep, MailHolds, PTL DEF Mail!Spec

-----------------------------------------------------------------------------
(* NetworkSync.
   The graph holds.  NetworkInv relates every job at work to the account it has loaded:
   a token it has rotated is accepted and nobody else's, its cursor is one up to which
   the graph is whole, its batch closes the gap to the cursor it is about to store, and
   whom it is about to add nobody else is. *)

AccountRow == [status : {"none", "connected"}, token : Nat, expired : BOOLEAN,
               cursor : 0 .. MaxContacts, given : BOOLEAN, pooling : Network!Pooling]

Edge == [source : Network!Source, contact : Network!Contact, person : Sync, pooling : Network!Pooling]

Rows == UNION {[batch -> Sync] : batch \in SUBSET Network!Contact}

Work == [source : Network!Source \cup {"none"}, account : AccountRow, token : Nat, refreshed : BOOLEAN,
         upto : 0 .. MaxContacts, given : BOOLEAN, batch : SUBSET Network!Contact,
         mine : SUBSET Network!Contact, fresh : SUBSET Network!Contact, person : Rows, known : SUBSET Edge]

Phase == {"idle", "refresh", "fetch", "resolve", "commit"}

NetworkTyped ==
    /\ book \in [Network!Source -> 0 .. MaxContacts]
    /\ valid \in [Network!Source -> SUBSET Nat] /\ issued \in Nat
    /\ account \in [Network!Source -> AccountRow]
    /\ edges \subseteq Edge
    /\ phase \in [Sync -> Phase]
    /\ sync \in [Sync -> Work]
    /\ lost \in [Network!Source -> BOOLEAN] /\ switched \in [Network!Source -> BOOLEAN]
    /\ doubled \subseteq Network!Contact

\* A job that is not at work holds nothing, one that is holds an account that is connected;
\* the edges it has found are of its batch and to be found still.
AtWork(j) == phase[j] # "idle"

EdgesFound(j) ==
    /\ sync[j].person \in [sync[j].batch -> Sync]
    /\ \A e \in sync[j].known :
          /\ e.source \in Network!Sharing(sync[j].source) /\ e.contact \in sync[j].batch
          /\ \E f \in edges : f.source = e.source /\ f.contact = e.contact

WorkIsOnAccount ==
    \A j \in Sync :
        /\ ~AtWork(j) => sync[j] = Network!NoSync
        /\ AtWork(j) => sync[j].source \in Network!Source /\ account[sync[j].source].status # "none"
        /\ phase[j] \in {"refresh", "fetch"} => sync[j].source \in OAuth
        /\ phase[j] = "commit" => EdgesFound(j)

\* j holds a token its account does not have yet.
Rotated(j) == AtWork(j) /\ sync[j].token # sync[j].account.token

TokensIssued ==
    /\ \A s \in Network!Source : account[s].token <= issued
    /\ \A j \in Sync : sync[j].token <= issued /\ sync[j].account.token <= issued

\* Such a token is accepted, and nobody else can use it up.
RotatedIsMine ==
    \A j \in Sync : Rotated(j) =>
        /\ sync[j].refreshed /\ sync[j].token # 0
        /\ sync[j].token \in valid[sync[j].source]
        /\ \A s \in Network!Source : account[s].token # sync[j].token
        /\ \A k \in Sync : k # j => sync[k].token # sync[j].token

\* A token that is not rotated stays accepted.
StaysValid ==
    /\ \A s \in OAuth \ Rotating : account[s].status # "none" => account[s].token \in valid[s]
    /\ \A j \in Sync : AtWork(j) =>
          /\ sync[j].source \in OAuth \ Rotating => sync[j].token \in valid[sync[j].source]
          /\ sync[j].source \in Rotating /\ sync[j].refreshed => Rotated(j)
          /\ phase[j] = "refresh" => ~Rotated(j)

TokenStands ==
    \A s \in OAuth :
        \/ account[s].status = "none" \/ lost[s]
        \/ account[s].token \in valid[s]
        \/ \E j \in Sync : sync[j].source = s /\ Rotated(j)

\* A job's work begins at a cursor up to which the graph is whole, and what it is
\* about to add leads without a gap to the cursor it is about to store, unless a client
\* has sent the one or the other.
NoGap ==
    /\ \A s \in Network!Source : account[s].given \/ \A n \in 1 .. account[s].cursor : Network!InGraph(s, n)
    /\ \A j \in Sync : AtWork(j) =>
          LET s == sync[j].source
          IN  /\ sync[j].account.given \/ \A n \in 1 .. sync[j].account.cursor : Network!InGraph(s, n)
              /\ sync[j].given \/ \A n \in 1 .. sync[j].upto : n \in sync[j].batch \/ Network!InGraph(s, n)

\* The edges that are of one account alone follow it, and a job has read the pooling that its
\* account has, unless the member switched meanwhile.
EdgesFollow ==
    \A e \in edges : \/ switched[e.source] \/ ~Network!Only(e.source, e.contact)
                     \/ e.pooling = account[e.source].pooling

PoolingRead ==
    /\ EdgesFollow
    /\ \A j \in Sync : AtWork(j) =>
          switched[sync[j].source] \/ sync[j].account.pooling = account[sync[j].source].pooling

\* Whom a job is about to add nobody has and nobody else is about to add.
AddedOnce ==
    /\ \A n \in Network!Contact : \A p, q \in Sync :
          <<n, p>> \in persons /\ <<n, q>> \in persons => p = q \/ n \in doubled
    /\ \A n \in Network!Contact \ doubled : \A j \in Sync : n \in sync[j].fresh =>
          /\ \A p \in Sync : <<n, p>> \notin persons
          /\ \A k \in Sync : n \in sync[k].fresh => k = j

NetworkInv ==
    /\ NetworkTyped /\ WorkIsOnAccount
    /\ TokensIssued /\ RotatedIsMine /\ StaysValid /\ TokenStands
    /\ NoGap /\ PoolingRead /\ AddedOnce

LEMMA NoWork ==
    /\ Network!NoSync \in Work /\ Network!NoAccount \in AccountRow
    /\ Network!NoSync.source = "none" /\ Network!NoSync.token = 0
    /\ Network!NoSync.account.token = 0
    /\ Network!NoSync.fresh = {} /\ Network!NoSync.batch = {} /\ Network!NoSync.upto = 0
    /\ ~Network!NoSync.refreshed /\ ~Network!NoSync.given
    /\ Network!NoAccount.status = "none" /\ Network!NoAccount.token = 0
    /\ Network!NoAccount.cursor = 0
<1>1. Network!NoAccount \in AccountRow
  BY ContactsAssumption DEF Network!NoAccount, AccountRow, Network!Pooling
<1>2. <<>> \in Rows
  <2>1. <<>> \in [{} -> Sync] /\ {} \in SUBSET Network!Contact
    OBVIOUS
  <2> QED
    BY <2>1 DEF Rows
<1> QED
  BY <1>1, <1>2, ContactsAssumption DEF Network!NoSync, Work, Network!NoAccount

LEMMA Shares ==
    ASSUME NEW s \in Network!Source
    PROVE  /\ s \in Network!Sharing(s) /\ Network!Sharing(s) \subseteq Network!Source
           /\ \A t \in Network!Sharing(s) : s \in Network!Sharing(t) /\ Network!Sharing(t) = Network!Sharing(s)
BY DEF Network!Sharing, Network!Source

\* An account that is the only one to have a contact was so before another contact came.
LEMMA OnlyBefore ==
    ASSUME NEW s, NEW n, identities \subseteq identities', Network!Only(s, n)'
    PROVE  Network!Only(s, n)
BY DEF Network!Only

\* An edge that stays keeps its contact in the graph.
LEMMA StaysInGraph ==
    ASSUME NEW s, NEW n, Network!InGraph(s, n),
           \A e \in edges : \E f \in edges' : f.source = e.source /\ f.contact = e.contact
    PROVE  Network!InGraph(s, n)'
BY DEF Network!InGraph

LEMMA NetworkInit == Network!Init => NetworkInv
<1> SUFFICES ASSUME Network!Init PROVE NetworkInv
  OBVIOUS
<1>1. NetworkTyped
  BY NoWork, ContactsAssumption DEF Network!Init, NetworkTyped, Phase
<1>2. WorkIsOnAccount /\ TokensIssued
  BY NoWork DEF Network!Init, WorkIsOnAccount, AtWork, TokensIssued
<1>3. RotatedIsMine /\ StaysValid /\ TokenStands
  BY NoWork DEF Network!Init, RotatedIsMine, Rotated, StaysValid, TokenStands, AtWork, Network!Source
<1>4. NoGap
  BY NoWork DEF Network!Init, NoGap, AtWork
<1>5. PoolingRead
  BY DEF Network!Init, PoolingRead, EdgesFollow, AtWork
<1>6. AddedOnce
  BY NoWork DEF Network!Init, AddedOnce
<1> QED
  BY <1>1, <1>2, <1>3, <1>4, <1>5, <1>6 DEF NetworkInv

\* The fields of a row.
LEMMA RowFields ==
    ASSUME NEW entry \in AccountRow
    PROVE  /\ entry.status \in {"none", "connected"} /\ entry.token \in Nat
           /\ entry.expired \in BOOLEAN /\ entry.cursor \in 0 .. MaxContacts
           /\ entry.given \in BOOLEAN /\ entry.pooling \in Network!Pooling
BY DEF AccountRow

LEMMA WorkFields ==
    ASSUME NEW w \in Work
    PROVE  /\ w.source \in Network!Source \cup {"none"} /\ w.account \in AccountRow /\ w.token \in Nat
           /\ w.refreshed \in BOOLEAN /\ w.upto \in 0 .. MaxContacts /\ w.given \in BOOLEAN
           /\ w.batch \subseteq Network!Contact
           /\ w.fresh \subseteq Network!Contact /\ w.known \subseteq Edge
BY DEF Work

\* An account whose row is replaced.
LEMMA RowReplaced ==
    ASSUME NetworkTyped, NEW s \in Network!Source, NEW entry \in AccountRow,
           account' = [account EXCEPT ![s] = entry]
    PROVE  /\ account' \in [Network!Source -> AccountRow] /\ account'[s] = entry
           /\ \A t \in Network!Source \ {s} : account'[t] = account[t]
BY DEF NetworkTyped

\* What a job has found is still there while the edges and the job stay as they are.
LEMMA GraphStays ==
    ASSUME NetworkInv, UNCHANGED <<identities, persons, edges, switched, doubled>>
    PROVE  /\ \A s, n : Network!InGraph(s, n)' <=> Network!InGraph(s, n)
           /\ \A s, n : Network!Only(s, n)' <=> Network!Only(s, n)
           /\ \A j \in Sync : sync'[j] = sync[j] => (EdgesFound(j)' <=> EdgesFound(j))
BY DEF Network!InGraph, Network!Only, EdgesFound

LEMMA ConnectStep == ASSUME NetworkInv, NEW s \in Network!Source, Network!Connect(s) PROVE NetworkInv'
<1> USE DEF NetworkInv
<1> DEFINE entry == [account[s] EXCEPT !.status = "connected", !.token = issued', !.expired = FALSE]
<1>1. /\ issued' = issued + 1 /\ issued \in Nat /\ valid' = [valid EXCEPT ![s] = @ \cup {issued'}]
      /\ account' = [account EXCEPT ![s] = entry] /\ lost' = [lost EXCEPT ![s] = FALSE]
      /\ UNCHANGED <<book, identities, persons, edges, phase, sync, switched, doubled>>
  BY DEF Network!Connect, Network!graph, NetworkTyped
<1>2. /\ entry \in AccountRow /\ entry.status = "connected" /\ entry.token = issued'
      /\ entry.cursor = account[s].cursor /\ entry.pooling = account[s].pooling
      /\ entry.given = account[s].given
  <2>1. account[s] \in AccountRow /\ issued' \in Nat
    BY <1>1 DEF NetworkTyped
  <2> QED
    BY <2>1 DEF AccountRow
<1>3. /\ account' \in [Network!Source -> AccountRow] /\ account'[s] = entry
      /\ \A t \in Network!Source \ {s} : account'[t] = account[t]
  BY <1>1, <1>2, RowReplaced
<1> HIDE DEF entry
<1>4. /\ valid' \in [Network!Source -> SUBSET Nat] /\ valid'[s] = valid[s] \cup {issued'}
      /\ \A t \in Network!Source : valid[t] \subseteq valid'[t]
  BY <1>1 DEF NetworkTyped
<1>5. NetworkTyped'
  BY <1>1, <1>3, <1>4 DEF NetworkTyped
<1>6. WorkIsOnAccount'
  BY <1>1, <1>2, <1>3, GraphStays DEF WorkIsOnAccount, AtWork
<1>7. TokensIssued'
  <2>1. \A j \in Sync : sync[j].token \in Nat /\ sync[j].account.token \in Nat
    BY WorkFields, RowFields DEF NetworkTyped
  <2>2. \A t \in Network!Source : account[t].token \in Nat
    BY RowFields DEF NetworkTyped
  <2> QED
    BY <1>1, <1>2, <1>3, <2>1, <2>2 DEF TokensIssued
<1>8. RotatedIsMine'
  <2>1. \A j \in Sync : sync[j].token # issued'
    BY <1>1, WorkFields DEF TokensIssued, NetworkTyped
  <2> QED
    BY <1>1, <1>2, <1>3, <1>4, <2>1 DEF RotatedIsMine, Rotated, AtWork, WorkIsOnAccount
<1>9. StaysValid'
  BY <1>1, <1>2, <1>3, <1>4 DEF StaysValid, Rotated, AtWork, WorkIsOnAccount, Network!Source
<1>10. TokenStands'
  BY <1>1, <1>2, <1>3, <1>4 DEF TokenStands, Rotated, AtWork, NetworkTyped, Network!Source
<1>11. NoGap'
  BY <1>1, <1>2, <1>3, GraphStays DEF NoGap, AtWork
<1>12. EdgesFollow'
  <2>1. \A t \in Network!Source : account'[t].pooling = account[t].pooling
    BY <1>2, <1>3
  <2>2. \A e \in edges : e.source \in Network!Source
    BY DEF NetworkTyped, Edge
  <2> QED
    BY <1>1, <2>1, <2>2, GraphStays DEF PoolingRead, EdgesFollow
<1>13. PoolingRead' /\ AddedOnce'
  BY <1>1, <1>2, <1>3, <1>12 DEF PoolingRead, AddedOnce, AtWork, WorkIsOnAccount
<1> QED
  BY <1>5, <1>6, <1>7, <1>8, <1>9, <1>10, <1>11, <1>13

\* An account whose tokens, cursor and pooling stay as they are.
LEMMA RowTouched ==
    ASSUME NetworkInv, NEW s \in Network!Source, NEW entry \in AccountRow,
           account' = [account EXCEPT ![s] = entry],
           entry.token = account[s].token, entry.cursor = account[s].cursor,
           entry.given = account[s].given, entry.pooling = account[s].pooling,
           account[s].status # "none" => entry.status # "none",
           s \in OAuth => entry.status = account[s].status,
           UNCHANGED <<book, valid, issued, identities, persons, edges, phase, sync, lost, switched, doubled>>
    PROVE  NetworkInv'
<1> USE DEF NetworkInv
<1>3. /\ account' \in [Network!Source -> AccountRow] /\ account'[s] = entry
      /\ \A t \in Network!Source \ {s} : account'[t] = account[t]
  BY RowReplaced
<1>4. NetworkTyped'
  BY <1>3 DEF NetworkTyped
<1>5. WorkIsOnAccount'
  BY <1>3, GraphStays DEF WorkIsOnAccount, AtWork
<1>6. TokensIssued' /\ RotatedIsMine'
  BY <1>3 DEF AtWork, TokensIssued, RotatedIsMine, Rotated
<1>7. StaysValid' /\ TokenStands'
  BY <1>3 DEF StaysValid, TokenStands, Rotated, AtWork, Network!Source
<1>8. NoGap'
  BY <1>3, GraphStays DEF NoGap, AtWork
<1>9. EdgesFollow'
  <2>1. \A t \in Network!Source : account'[t].pooling = account[t].pooling
    BY <1>3
  <2>2. \A e \in edges : e.source \in Network!Source
    BY DEF NetworkTyped, Edge
  <2> QED
    BY <2>1, <2>2, GraphStays DEF PoolingRead, EdgesFollow
<1>10. PoolingRead' /\ AddedOnce'
  BY <1>3, <1>9 DEF PoolingRead, AddedOnce, AtWork, WorkIsOnAccount
<1> QED
  BY <1>4, <1>5, <1>6, <1>7, <1>8, <1>10

LEMMA CreateStep == ASSUME NetworkInv, NEW s \in Network!Source, Network!Create(s) PROVE NetworkInv'
<1> DEFINE entry == [account[s] EXCEPT !.status = "connected"]
<1>1. /\ account' = [account EXCEPT ![s] = entry] /\ s \in Manual
      /\ UNCHANGED <<book, valid, issued, identities, persons, edges, phase, sync, lost, switched, doubled>>
  BY DEF Network!Create, Network!provider, Network!graph, Network!history
<1>2. account[s] \in AccountRow
  BY DEF NetworkInv, NetworkTyped
<1>3. /\ entry \in AccountRow /\ entry.status = "connected" /\ entry.token = account[s].token
      /\ entry.cursor = account[s].cursor /\ entry.pooling = account[s].pooling
      /\ entry.given = account[s].given
  BY <1>2 DEF AccountRow
<1>4. s \notin OAuth
  BY <1>1, SourcesAssumption
<1> HIDE DEF entry
<1> QED
  BY <1>1, <1>3, <1>4, RowTouched

LEMMA ExpireAccessStep ==
    ASSUME NetworkInv, NEW s \in Network!Source, Network!ExpireAccess(s)
    PROVE  NetworkInv'
<1> DEFINE entry == [account[s] EXCEPT !.expired = TRUE]
<1>1. /\ account' = [account EXCEPT ![s] = entry]
      /\ UNCHANGED <<book, valid, issued, identities, persons, edges, phase, sync, lost, switched, doubled>>
  BY DEF Network!ExpireAccess, Network!provider, Network!graph, Network!history
<1>2. account[s] \in AccountRow
  BY DEF NetworkInv, NetworkTyped
<1>3. /\ entry \in AccountRow /\ entry.status = account[s].status /\ entry.token = account[s].token
      /\ entry.cursor = account[s].cursor /\ entry.pooling = account[s].pooling
      /\ entry.given = account[s].given
  BY <1>2 DEF AccountRow
<1> HIDE DEF entry
<1> QED
  BY <1>1, <1>3, RowTouched

LEMMA SetPoolingStep == ASSUME NetworkInv, NEW s \in Network!Source, Network!SetPooling(s) PROVE NetworkInv'
<1> USE DEF NetworkInv
<1>0. PICK enabled \in Network!Pooling :
         /\ account' = [account EXCEPT ![s].pooling = enabled]
         /\ edges' = {IF e.source = s THEN [e EXCEPT !.pooling = enabled] ELSE e : e \in edges}
  BY DEF Network!SetPooling
<1> DEFINE entry == [account[s] EXCEPT !.pooling = enabled]
           Follow(e) == IF e.source = s THEN [e EXCEPT !.pooling = enabled] ELSE e
<1>1. /\ account' = [account EXCEPT ![s] = entry] /\ edges' = {Follow(e) : e \in edges}
      /\ switched' = [switched EXCEPT ![s] = Network!Working(s)]
      /\ UNCHANGED <<book, valid, issued, identities, persons, phase, sync, lost, doubled>>
  BY <1>0 DEF Network!SetPooling, Network!provider
<1>2. /\ entry \in AccountRow /\ entry.status = account[s].status /\ entry.token = account[s].token
      /\ entry.cursor = account[s].cursor /\ entry.given = account[s].given /\ entry.pooling = enabled
  <2>1. account[s] \in AccountRow
    BY DEF NetworkTyped
  <2> QED
    BY <2>1 DEF AccountRow
<1>3. /\ account' \in [Network!Source -> AccountRow] /\ account'[s] = entry
      /\ \A t \in Network!Source \ {s} : account'[t] = account[t]
  BY <1>1, <1>2, RowReplaced
<1> HIDE DEF entry
<1>4. \A e \in edges : /\ Follow(e) \in Edge /\ Follow(e).source = e.source
                       /\ Follow(e).contact = e.contact
                       /\ Follow(e).pooling = IF e.source = s THEN enabled ELSE e.pooling
  BY DEF Edge, NetworkTyped
<1> HIDE DEF Follow
<1>5. /\ switched' \in [Network!Source -> BOOLEAN] /\ switched'[s] = Network!Working(s)
      /\ \A t \in Network!Source \ {s} : switched'[t] = switched[t]
  BY <1>1 DEF NetworkTyped, Network!Working
<1>6. edges' \subseteq Edge
  BY <1>1, <1>4
<1>7. NetworkTyped'
  BY <1>1, <1>3, <1>5, <1>6 DEF NetworkTyped
<1>8. \A e \in edges : \E f \in edges' : f.source = e.source /\ f.contact = e.contact
  BY <1>1, <1>4
<1>9. WorkIsOnAccount'
  <2>1. \A j \in Sync : EdgesFound(j) => EdgesFound(j)'
    <3> SUFFICES ASSUME NEW j \in Sync, EdgesFound(j) PROVE EdgesFound(j)'
      OBVIOUS
    <3>1. \A e \in sync[j].known : \E f \in edges' : f.source = e.source /\ f.contact = e.contact
      BY <1>8 DEF EdgesFound
    <3> QED
      BY <1>1, <3>1 DEF EdgesFound
  <2> QED
    BY <1>1, <1>2, <1>3, <2>1 DEF WorkIsOnAccount, AtWork
<1>10. TokensIssued' /\ RotatedIsMine'
  BY <1>1, <1>2, <1>3 DEF AtWork, TokensIssued, RotatedIsMine, Rotated
<1>11. StaysValid' /\ TokenStands'
  BY <1>1, <1>2, <1>3 DEF Rotated, AtWork, StaysValid, TokenStands, Network!Source
<1>12. NoGap'
  <2>1. \A t, n : Network!InGraph(t, n) => Network!InGraph(t, n)'
    BY <1>8, StaysInGraph
  <2>2. \A t \in Network!Source : account'[t].cursor = account[t].cursor /\ account'[t].given = account[t].given
    BY <1>2, <1>3
  <2> QED
    BY <1>1, <2>1, <2>2 DEF NoGap, AtWork
<1>13. EdgesFollow'
  <2> SUFFICES ASSUME NEW f \in edges', Network!Only(f.source, f.contact)', ~switched'[f.source]
               PROVE  f.pooling = account'[f.source].pooling
    BY DEF EdgesFollow
  <2>1. PICK e \in edges : f = Follow(e)
    BY <1>1
  <2>2. e.source \in Network!Source /\ e \in Edge
    BY DEF NetworkTyped, Edge
  <2>3. CASE e.source = s
    BY <1>2, <1>3, <1>4, <2>1, <2>3
  <2>4. CASE e.source # s
    <3>1. f.source = e.source /\ f.contact = e.contact /\ f.pooling = e.pooling
      BY <1>4, <2>1, <2>4
    <3>2. ~switched[e.source] /\ Network!Only(e.source, e.contact)
      BY <1>1, <1>5, <2>2, <2>4, <3>1 DEF Network!Only
    <3> QED
      BY <1>3, <2>2, <2>4, <3>1, <3>2 DEF PoolingRead, EdgesFollow
  <2> QED
    BY <2>3, <2>4
<1>14. PoolingRead'
  BY <1>1, <1>3, <1>5, <1>13 DEF PoolingRead, AtWork, Network!Working, WorkIsOnAccount
<1>15. AddedOnce'
  BY <1>1 DEF AddedOnce
<1> QED
  BY <1>7, <1>9, <1>10, <1>11, <1>12, <1>14, <1>15

LEMMA AddContactStep == ASSUME NetworkInv, NEW s \in Network!Source, Network!AddContact(s) PROVE NetworkInv'
<1> USE DEF NetworkInv
<1>1. UNCHANGED <<valid, issued, account, identities, persons, edges, phase, sync, lost, switched, doubled>>
  BY DEF Network!AddContact, Network!graph, Network!history
<1>2. book' \in [Network!Source -> 0 .. MaxContacts]
  BY ContactsAssumption DEF Network!AddContact, NetworkTyped
<1>3. NetworkTyped'
  BY <1>1, <1>2 DEF NetworkTyped
<1>4. WorkIsOnAccount'
  BY <1>1, GraphStays DEF WorkIsOnAccount, AtWork
<1>5. TokensIssued' /\ RotatedIsMine' /\ StaysValid' /\ TokenStands'
  BY <1>1 DEF AtWork, TokensIssued, RotatedIsMine, Rotated, StaysValid, TokenStands
<1>6. NoGap'
  BY <1>1, GraphStays DEF NoGap, AtWork
<1>7. PoolingRead' /\ AddedOnce'
  BY <1>1, GraphStays DEF PoolingRead, EdgesFollow, AddedOnce, AtWork
<1> QED
  BY <1>3, <1>4, <1>5, <1>6, <1>7

\* A job begins with what it has loaded.
LEMMA Loads ==
    ASSUME NetworkInv, NEW j \in Sync, NEW s \in Network!Source, NEW w \in Work,
           NEW to \in {"refresh", "fetch", "resolve"}, Network!Goto(j, "idle", to, w),
           account[s].status # "none", to \in {"refresh", "fetch"} => s \in OAuth,
           w.source = s, w.account = account[s], w.token = account[s].token, ~w.refreshed,
           w.upto # 0 => w.given, w.fresh = {},
           UNCHANGED <<book, valid, issued, account, identities, persons, edges, lost, switched, doubled>>
    PROVE  NetworkInv'
<1> USE DEF NetworkInv
<1>0. to \in Phase
  BY DEF Phase
<1>1. /\ phase' \in [Sync -> Phase] /\ sync' \in [Sync -> Work]
      /\ phase[j] = "idle" /\ phase'[j] = to /\ sync'[j] = w
      /\ \A k \in Sync \ {j} : phase'[k] = phase[k] /\ sync'[k] = sync[k]
  BY <1>0 DEF Network!Goto, NetworkTyped
<1>2. NetworkTyped'
  BY <1>1 DEF NetworkTyped
<1>3. WorkIsOnAccount' /\ TokensIssued'
  BY <1>1, GraphStays DEF WorkIsOnAccount, AtWork, TokensIssued
<1>4. RotatedIsMine'
  BY <1>1 DEF RotatedIsMine, Rotated, AtWork
<1>5. StaysValid'
  BY <1>1 DEF StaysValid, Rotated, AtWork
<1>6. TokenStands'
  BY <1>1 DEF TokenStands, Rotated, AtWork
<1>7. NoGap'
  <2>1. /\ w.account.given \/ \A n \in 1 .. w.account.cursor : Network!InGraph(s, n)
        /\ w.given \/ \A n \in 1 .. w.upto : n \in w.batch \/ Network!InGraph(s, n)
    BY WorkFields DEF NoGap
  <2> QED
    BY <1>1, <2>1, GraphStays DEF NoGap, AtWork
<1>8. PoolingRead' /\ AddedOnce'
  BY <1>1, GraphStays DEF PoolingRead, EdgesFollow, AddedOnce, AtWork
<1> QED
  BY <1>2, <1>3, <1>4, <1>5, <1>6, <1>7, <1>8

LEMMA LoadSteps ==
    ASSUME NetworkInv, NEW j \in Sync, NEW s \in Network!Source, Network!Start(j, s) \/ Network!Import(j, s)
    PROVE  NetworkInv'
<1>1. account[s] \in AccountRow /\ account[s].token \in Nat
  BY RowFields DEF NetworkInv, NetworkTyped
<1>2. CASE Network!Start(j, s)
  <2> DEFINE w == [Network!NoSync EXCEPT !.source = s, !.account = account[s], !.token = account[s].token]
  <2>1. /\ w \in Work /\ w.source = s /\ w.account = account[s] /\ w.token = account[s].token
        /\ ~w.refreshed /\ w.upto = 0 /\ w.fresh = {}
    BY <1>1, NoWork DEF Work
  <2> QED
    BY <1>2, <2>1, Loads DEF Network!Start, Network!provider, Network!graph, Network!history
<1>3. CASE Network!Import(j, s)
  <2>0. PICK batch \in SUBSET Network!Contact, upto \in 0 .. MaxContacts :
           Network!Goto(j, "idle", "resolve", [Network!NoSync EXCEPT !.source = s,
           !.account = account[s], !.token = account[s].token, !.batch = batch,
           !.upto = upto, !.given = upto # 0])
    BY <1>3 DEF Network!Import
  <2> DEFINE w == [Network!NoSync EXCEPT !.source = s, !.account = account[s], !.token = account[s].token,
                                 !.batch = batch, !.upto = upto, !.given = upto # 0]
  <2>1. /\ w \in Work /\ w.source = s /\ w.account = account[s] /\ w.token = account[s].token
        /\ ~w.refreshed /\ (w.upto # 0 => w.given) /\ w.fresh = {}
    BY <1>1, NoWork DEF Work
  <2> QED
    BY <1>3, <2>0, <2>1, Loads DEF Network!Import, Network!provider, Network!graph,
       Network!history
<1> QED
  BY <1>2, <1>3

\* A refresh that brings no new refresh token.
LEMMA RefreshKeeps ==
    ASSUME NetworkInv, NEW j \in Sync, NEW w \in Work, Network!Goto(j, "refresh", "fetch", w),
           sync[j].source \notin Rotating,
           w.source = sync[j].source, w.account = sync[j].account, w.token = sync[j].token,
           w.upto = sync[j].upto, w.given = sync[j].given, w.batch = sync[j].batch,
           w.fresh = sync[j].fresh,
           UNCHANGED <<book, valid, issued, account, identities, persons, edges, lost, switched, doubled>>
    PROVE  NetworkInv'
<1> USE DEF NetworkInv
<1>1. /\ phase' \in [Sync -> Phase] /\ sync' \in [Sync -> Work]
      /\ phase[j] = "refresh" /\ phase'[j] = "fetch" /\ sync'[j] = w
      /\ \A k \in Sync \ {j} : phase'[k] = phase[k] /\ sync'[k] = sync[k]
  BY DEF Network!Goto, NetworkTyped, Phase
<1>2. NetworkTyped' /\ ~Rotated(j)
  BY <1>1 DEF NetworkTyped, StaysValid, AtWork
<1>3. WorkIsOnAccount' /\ TokensIssued'
  BY <1>1, GraphStays DEF WorkIsOnAccount, AtWork, TokensIssued
<1>4. RotatedIsMine'
  BY <1>1, <1>2 DEF RotatedIsMine, Rotated, AtWork
<1>5. StaysValid'
  BY <1>1, <1>2 DEF StaysValid, Rotated, AtWork
<1>6. TokenStands'
  BY <1>1, <1>2 DEF TokenStands, Rotated, AtWork
<1>7. NoGap' /\ PoolingRead' /\ AddedOnce'
  BY <1>1, GraphStays DEF NoGap, PoolingRead, EdgesFollow, AddedOnce, AtWork
<1> QED
  BY <1>2, <1>3, <1>4, <1>5, <1>6, <1>7

\* A refresh that brings a new one, and voids the old one.
LEMMA RefreshRotates ==
    ASSUME NetworkInv, NEW j \in Sync, NEW w \in Work, Network!Goto(j, "refresh", "fetch", w),
           sync[j].source \in Rotating, issued' = issued + 1,
           valid' = [valid EXCEPT ![sync[j].source] = (@ \ {sync[j].token}) \cup {issued'}],
           w.source = sync[j].source, w.account = sync[j].account, w.token = issued', w.refreshed,
           w.upto = sync[j].upto, w.given = sync[j].given, w.batch = sync[j].batch,
           w.fresh = sync[j].fresh,
           UNCHANGED <<book, account, identities, persons, edges, lost, switched, doubled>>
    PROVE  NetworkInv'
<1> USE DEF NetworkInv
<1> DEFINE s == sync[j].source
<1>1. /\ phase' \in [Sync -> Phase] /\ sync' \in [Sync -> Work]
      /\ phase[j] = "refresh" /\ phase'[j] = "fetch" /\ sync'[j] = w
      /\ \A k \in Sync \ {j} : phase'[k] = phase[k] /\ sync'[k] = sync[k]
  BY DEF Network!Goto, NetworkTyped, Phase
<1>2. s \in Network!Source /\ ~Rotated(j)
  BY <1>1 DEF StaysValid, WorkIsOnAccount, AtWork
<1>3. /\ issued' \in Nat /\ issued \in Nat
      /\ \A k \in Sync : /\ sync[k].token \in Nat /\ sync[k].account.token \in Nat
                         /\ sync[k].token < issued' /\ sync[k].account.token < issued'
      /\ \A t \in Network!Source : account[t].token \in Nat /\ account[t].token < issued'
  <2>1. \A k \in Sync : sync[k].token \in Nat /\ sync[k].account.token \in Nat
    BY WorkFields, RowFields DEF NetworkTyped
  <2>2. \A t \in Network!Source : account[t].token \in Nat
    BY RowFields DEF NetworkTyped
  <2> QED
    BY <2>1, <2>2 DEF TokensIssued, NetworkTyped
<1>4. /\ valid' \in [Network!Source -> SUBSET Nat]
      /\ valid'[s] = (valid[s] \ {sync[j].token}) \cup {issued'}
      /\ \A t \in Network!Source \ {s} : valid'[t] = valid[t]
  BY <1>2, <1>3 DEF NetworkTyped
<1>5. NetworkTyped'
  BY <1>1, <1>3, <1>4 DEF NetworkTyped
<1>6. WorkIsOnAccount' /\ TokensIssued'
  BY <1>1, <1>3, GraphStays DEF WorkIsOnAccount, AtWork, TokensIssued
<1>7. RotatedIsMine'
  <2>1. ASSUME NEW k \in Sync, Rotated(k)' PROVE
            /\ sync'[k].refreshed /\ sync'[k].token # 0
            /\ sync'[k].token \in valid'[sync'[k].source]
            /\ \A t \in Network!Source : account[t].token # sync'[k].token
            /\ \A q \in Sync : q # k => sync'[q].token # sync'[k].token
    <3>1. CASE k = j
      BY <1>1, <1>3, <1>4, <3>1
    <3>2. CASE k # j
      <4>1. Rotated(k) /\ sync'[k] = sync[k]
        BY <1>1, <2>1, <3>2 DEF Rotated, AtWork
      <4>2. sync[k].token \in valid'[sync[k].source]
        BY <1>4, <3>2, <4>1 DEF RotatedIsMine, WorkIsOnAccount, Rotated
      <4> QED
        BY <1>1, <1>3, <3>2, <4>1, <4>2 DEF RotatedIsMine
    <3> QED
      BY <3>1, <3>2
  <2> QED
    BY <2>1 DEF RotatedIsMine
<1>8. StaysValid'
  BY <1>1, <1>3, <1>4 DEF StaysValid, Rotated, AtWork, WorkIsOnAccount, Network!Source
<1>9. TokenStands'
  BY <1>1, <1>2, <1>3, <1>4 DEF TokenStands, Rotated, AtWork, Network!Source
<1>10. NoGap' /\ PoolingRead' /\ AddedOnce'
  BY <1>1, GraphStays DEF NoGap, PoolingRead, EdgesFollow, AddedOnce, AtWork
<1> QED
  BY <1>5, <1>6, <1>7, <1>8, <1>9, <1>10

LEMMA RefreshStep == ASSUME NetworkInv, NEW j \in Sync, Network!Refresh(j) PROVE NetworkInv'
<1>1. sync[j] \in Work /\ issued + 1 \in Nat
  BY DEF NetworkInv, NetworkTyped
<1>2. CASE sync[j].source \notin Rotating
  <2> DEFINE w == [sync[j] EXCEPT !.refreshed = TRUE]
  <2>1. /\ w \in Work /\ w.source = sync[j].source /\ w.account = sync[j].account
        /\ w.token = sync[j].token /\ w.given = sync[j].given
        /\ w.upto = sync[j].upto /\ w.batch = sync[j].batch /\ w.fresh = sync[j].fresh
    BY <1>1 DEF Work
  <2> QED
    BY <1>2, <2>1, RefreshKeeps DEF Network!Refresh, Network!graph, Network!history
<1>3. CASE sync[j].source \in Rotating
  <2> DEFINE w == [sync[j] EXCEPT !.refreshed = TRUE, !.token = issued']
  <2>1. issued' = issued + 1 /\ Network!Goto(j, "refresh", "fetch", w)
    BY <1>3 DEF Network!Refresh
  <2>2. /\ w \in Work /\ w.source = sync[j].source /\ w.account = sync[j].account
        /\ w.token = issued' /\ w.given = sync[j].given
        /\ w.refreshed /\ w.upto = sync[j].upto /\ w.batch = sync[j].batch
        /\ w.fresh = sync[j].fresh
    BY <1>1, <2>1 DEF Work
  <2> QED
    BY <1>3, <2>1, <2>2, RefreshRotates DEF Network!Refresh, Network!graph, Network!history
<1> QED
  BY <1>2, <1>3

\* A job goes on with the account and the tokens it has.
LEMMA GoesOn ==
    ASSUME NetworkInv, NEW j \in Sync, NEW from \in {"fetch", "resolve"},
           NEW to \in {"resolve", "commit"},
           NEW w \in Work, Network!Goto(j, from, to, w),
           w.source = sync[j].source, w.account = sync[j].account, w.token = sync[j].token,
           w.refreshed = sync[j].refreshed,
           UNCHANGED <<book, valid, issued, account, identities, persons, edges, lost, switched>>,
           doubled' \subseteq Network!Contact, to = "commit" => EdgesFound(j)', NoGap', AddedOnce'
    PROVE  NetworkInv'
<1> USE DEF NetworkInv
<1>1. /\ phase' \in [Sync -> Phase] /\ sync' \in [Sync -> Work]
      /\ phase[j] = from /\ phase'[j] = to /\ sync'[j] = w
      /\ \A k \in Sync \ {j} : phase'[k] = phase[k] /\ sync'[k] = sync[k]
  BY DEF Network!Goto, NetworkTyped, Phase
<1>2. NetworkTyped'
  BY <1>1 DEF NetworkTyped
<1>3. \A k \in Sync \ {j} : EdgesFound(k) => EdgesFound(k)'
  BY <1>1 DEF EdgesFound
<1>4. WorkIsOnAccount' /\ TokensIssued'
  BY <1>1, <1>3 DEF WorkIsOnAccount, AtWork, TokensIssued
<1>5. \A k \in Sync : Rotated(k)' <=> Rotated(k)
  BY <1>1 DEF Rotated, AtWork
<1>6. RotatedIsMine' /\ StaysValid'
  BY <1>1, <1>5 DEF RotatedIsMine, StaysValid, AtWork
<1>7. TokenStands'
  BY <1>1, <1>5 DEF TokenStands
<1>8. PoolingRead'
  BY <1>1 DEF PoolingRead, EdgesFollow, AtWork, Network!Only
<1> QED
  BY <1>2, <1>4, <1>6, <1>7, <1>8

LEMMA FetchStep == ASSUME NetworkInv, NEW j \in Sync, Network!Fetch(j) PROVE NetworkInv'
<1> DEFINE s == sync[j].source
<1>1. PICK since \in {0, sync[j].account.cursor}, last \in 0 .. book[s] :
          Network!Goto(j, "fetch", "resolve", [sync[j] EXCEPT !.batch = (since + 1) .. last,
                                                      !.upto = IF last = book[s] THEN last ELSE 0,
                                                      !.given = since # 0 /\ sync[j].account.given])
  BY DEF Network!Fetch
<1> DEFINE batch == (since + 1) .. last
           upto == IF last = book[s] THEN last ELSE 0
           given == since # 0 /\ sync[j].account.given
           w == [sync[j] EXCEPT !.batch = batch, !.upto = upto, !.given = given]
<1>2. /\ sync[j] \in Work /\ phase[j] = "fetch" /\ s \in Network!Source
      /\ UNCHANGED <<book, valid, issued, account, identities, persons, edges, lost, switched, doubled>>
  BY <1>1 DEF Network!Fetch, Network!Goto, Network!provider, Network!graph, Network!history,
     NetworkInv, NetworkTyped, WorkIsOnAccount, AtWork
<1>3. /\ book[s] \in 0 .. MaxContacts /\ since \in Nat /\ last \in 0 .. MaxContacts
      /\ batch \in SUBSET Network!Contact
      /\ sync[j].account.given \in BOOLEAN
  BY <1>2, WorkFields, RowFields, ContactsAssumption DEF NetworkInv, NetworkTyped, Network!Contact
<1>4. upto \in 0 .. MaxContacts /\ given \in BOOLEAN
  BY <1>3, ContactsAssumption
<1>5. /\ phase'[j] = "resolve" /\ sync'[j] = w
      /\ \A k \in Sync \ {j} : phase'[k] = phase[k] /\ sync'[k] = sync[k]
  BY <1>1 DEF Network!Goto, NetworkInv, NetworkTyped
<1>6. /\ w \in Work /\ w.source = s /\ w.account = sync[j].account /\ w.token = sync[j].token
      /\ w.refreshed = sync[j].refreshed /\ w.fresh = sync[j].fresh
      /\ w.batch = batch /\ w.upto = upto /\ w.given = given
  <2> HIDE DEF batch, upto, given
  <2> QED
    BY <1>2, <1>3, <1>4 DEF Work
<1> HIDE DEF w
<1>7. NoGap'
  <2>1. \A n \in 1 .. upto : n \in batch \/ n \in 1 .. since
    BY <1>3, ContactsAssumption
  <2>2. w.account.given \/ \A n \in 1 .. w.account.cursor : Network!InGraph(s, n)
    BY <1>2, <1>6 DEF NetworkInv, NoGap, AtWork
  <2>3. w.given \/ \A n \in 1 .. w.upto : n \in w.batch \/ Network!InGraph(s, n)
    BY <1>3, <1>6, <2>1, <2>2
  <2> QED
    BY <1>2, <1>6, <1>5, <2>2, <2>3, GraphStays DEF NetworkInv, NoGap, AtWork
<1>8. AddedOnce'
  BY <1>2, <1>5, <1>6 DEF NetworkInv, AddedOnce
<1>9. doubled' \subseteq Network!Contact
  BY <1>2 DEF NetworkInv, NetworkTyped
<1> QED
  BY <1>1, <1>2, <1>6, <1>7, <1>8, <1>9, GoesOn DEF w

LEMMA ResolveStep == ASSUME NetworkInv, NEW j \in Sync, Network!Resolve(j) PROVE NetworkInv'
<1> DEFINE s == sync[j].source
           batch == sync[j].batch
           fresh == {n \in batch : ~\E p \in Sync : <<n, p>> \in persons}
           mine == {n \in batch : <<s, n>> \in identities}
           known(person) == {e \in edges : /\ e.source \in Network!Sharing(s) /\ e.contact \in batch
                                           /\ e.person = person[e.contact]}
<1>0. PICK person \in [batch -> Sync] :
         Network!Goto(j, "resolve", "commit", [sync[j] EXCEPT !.fresh = fresh, !.mine = mine,
                                                 !.person = person, !.known = known(person)])
  BY DEF Network!Resolve
<1> DEFINE w == [sync[j] EXCEPT !.fresh = fresh, !.mine = mine, !.person = person, !.known = known(person)]
<1>1. /\ Network!Goto(j, "resolve", "commit", w)
      /\ doubled' = doubled \cup {n \in fresh : \E k \in Sync \ {j} : n \in sync[k].fresh}
      /\ UNCHANGED <<book, valid, issued, account, identities, persons, edges, lost, switched>>
  BY <1>0 DEF Network!Resolve, Network!provider, Network!graph
<1>2. /\ sync[j] \in Work /\ phase[j] = "resolve" /\ s \in Network!Source
      /\ batch \subseteq Network!Contact
  BY <1>1, WorkFields DEF Network!Goto, NetworkInv, NetworkTyped, WorkIsOnAccount, AtWork
<1>3. /\ fresh \in SUBSET Network!Contact /\ mine \in SUBSET Network!Contact /\ person \in Rows
      /\ known(person) \in SUBSET Edge
  BY <1>2 DEF NetworkInv, NetworkTyped, Rows
<1>4. /\ w \in Work /\ w.source = s /\ w.account = sync[j].account /\ w.token = sync[j].token
      /\ w.refreshed = sync[j].refreshed /\ w.upto = sync[j].upto /\ w.given = sync[j].given
      /\ w.batch = batch /\ w.fresh = fresh /\ w.person = person /\ w.known = known(person)
  <2> HIDE DEF fresh, mine, known
  <2> QED
    BY <1>2, <1>3 DEF Work
<1>5. /\ phase'[j] = "commit" /\ sync'[j] = w
      /\ \A k \in Sync \ {j} : phase'[k] = phase[k] /\ sync'[k] = sync[k]
  BY <1>1 DEF Network!Goto, NetworkInv, NetworkTyped
<1> HIDE DEF w
<1>6. NoGap'
  <2>1. /\ w.account.given \/ \A n \in 1 .. w.account.cursor : Network!InGraph(s, n)
        /\ w.given \/ \A n \in 1 .. w.upto : n \in w.batch \/ Network!InGraph(s, n)
    BY <1>2, <1>4 DEF NetworkInv, NoGap, AtWork
  <2>2. \A t, n : Network!InGraph(t, n)' <=> Network!InGraph(t, n)
    BY <1>1 DEF Network!InGraph
  <2> QED
    BY <1>1, <1>4, <1>5, <2>1, <2>2 DEF NetworkInv, NoGap, AtWork
<1>7. AddedOnce'
  <2>1. ASSUME NEW n \in Network!Contact \ doubled', NEW k \in Sync, n \in sync'[k].fresh
        PROVE  /\ \A p \in Sync : <<n, p>> \notin persons
               /\ \A q \in Sync : n \in sync'[q].fresh => q = k
    <3>1. n \notin doubled /\ ~(n \in fresh /\ \E q \in Sync \ {j} : n \in sync[q].fresh)
      BY <1>1, <2>1
    <3>2. \A q \in Sync : n \in sync[q].fresh =>
             /\ \A p \in Sync : <<n, p>> \notin persons
             /\ \A p \in Sync : n \in sync[p].fresh => p = q
      BY <2>1, <3>1 DEF NetworkInv, AddedOnce
    <3>3. n \in sync'[j].fresh =>
             /\ \A p \in Sync : <<n, p>> \notin persons
             /\ \A q \in Sync \ {j} : n \notin sync[q].fresh
      BY <1>4, <1>5, <3>1
    <3> QED
      BY <1>5, <2>1, <3>2, <3>3
  <2> QED
    BY <1>1, <2>1 DEF NetworkInv, AddedOnce
<1>8. doubled' \subseteq Network!Contact
  BY <1>1, <1>3 DEF NetworkInv, NetworkTyped
<1>9. EdgesFound(j)'
  BY <1>1, <1>4, <1>5 DEF EdgesFound
<1> HIDE DEF fresh, mine, known
<1> QED
  BY <1>1, <1>2, <1>4, <1>6, <1>7, <1>8, <1>9, GoesOn

LEMMA StampedFields ==
    ASSUME NetworkInv, NEW j \in Sync, AtWork(j)
    PROVE  LET s == sync[j].source
               entry == Network!Stamped(j)
           IN  /\ entry \in AccountRow /\ entry.status # "none"
               /\ entry.cursor = account[s].cursor /\ entry.pooling = account[s].pooling
               /\ entry.given = account[s].given
               /\ entry.token = IF sync[j].refreshed THEN sync[j].token ELSE account[s].token
<1> DEFINE s == sync[j].source
<1>1. /\ account[s] \in AccountRow /\ account[s].status # "none" /\ sync[j] \in Work
      /\ sync[j].token \in Nat /\ sync[j].refreshed \in BOOLEAN
  BY WorkFields DEF NetworkInv, NetworkTyped, WorkIsOnAccount
<1> QED
  BY <1>1 DEF AccountRow, Network!Stamped

\* A job whose work is committed ends; what it has written is in row, and in the graph.
LEMMA JobEnds ==
    ASSUME NetworkInv, NEW j \in Sync, AtWork(j), Network!End(j, phase[j]),
           NEW entry \in AccountRow,
           account' = [account EXCEPT ![sync[j].source] = entry], entry.status # "none",
           entry.pooling = account[sync[j].source].pooling,
           entry.token = IF sync[j].refreshed THEN sync[j].token ELSE account[sync[j].source].token,
           edges' \subseteq Edge,
           \A e \in edges : \E f \in edges' : f.source = e.source /\ f.contact = e.contact,
           UNCHANGED <<book, valid, issued, lost, switched, doubled>>,
           NoGap', AddedOnce', EdgesFollow'
    PROVE  NetworkInv'
<1> USE DEF NetworkInv
<1> DEFINE s == sync[j].source
<1>1. /\ phase' \in [Sync -> Phase] /\ sync' \in [Sync -> Work]
      /\ phase'[j] = "idle" /\ sync'[j] = Network!NoSync
      /\ \A k \in Sync \ {j} : phase'[k] = phase[k] /\ sync'[k] = sync[k]
  BY NoWork DEF Network!End, Network!Goto, NetworkTyped, Phase
<1>2. s \in Network!Source /\ account[s].status # "none"
  BY DEF WorkIsOnAccount
<1>3. /\ account' \in [Network!Source -> AccountRow] /\ account'[s] = entry
      /\ \A t \in Network!Source \ {s} : account'[t] = account[t]
  BY <1>2, RowReplaced
<1>4. NetworkTyped'
  BY <1>1, <1>3 DEF NetworkTyped
<1>5. WorkIsOnAccount' /\ TokensIssued'
  <2>1. sync[j].token <= issued /\ account[s].token <= issued /\ 0 <= issued
    BY <1>2 DEF TokensIssued, NetworkTyped
  <2>2. TokensIssued'
    BY <1>1, <1>3, <2>1, NoWork DEF TokensIssued
  <2>3. ASSUME NEW k \in Sync \ {j}, EdgesFound(k) PROVE EdgesFound(k)'
    <3>1. \A e \in sync[k].known : \E f \in edges' : f.source = e.source /\ f.contact = e.contact
      BY <2>3 DEF EdgesFound
    <3> QED
      BY <1>1, <2>3, <3>1 DEF EdgesFound
  <2> QED
    BY <1>1, <1>3, <2>2, <2>3, NoWork DEF WorkIsOnAccount, AtWork
<1>6. \A k \in Sync : Rotated(k)' <=> Rotated(k) /\ k # j
  BY <1>1 DEF Rotated, AtWork
<1>7. \A k \in Sync \ {j} : Rotated(k) => sync[k].token # entry.token /\ sync[k].token # 0
  <2> SUFFICES ASSUME NEW k \in Sync \ {j}, Rotated(k)
               PROVE  sync[k].token # entry.token /\ sync[k].token # 0
    OBVIOUS
  <2>2. /\ sync[k].token # account[s].token /\ sync[k].token # sync[j].token
        /\ sync[k].token # 0
    BY <1>2 DEF RotatedIsMine
  <2> QED
    BY <2>2
<1>8. RotatedIsMine' /\ StaysValid'
  <2>1. RotatedIsMine'
    <3> SUFFICES ASSUME NEW k \in Sync, Rotated(k)'
                 PROVE  /\ sync'[k].refreshed /\ sync'[k].token # 0
                        /\ sync'[k].token \in valid'[sync'[k].source]
                        /\ \A t \in Network!Source : account'[t].token # sync'[k].token
                        /\ \A q \in Sync : q # k => sync'[q].token # sync'[k].token
      BY DEF RotatedIsMine
    <3>1. k \in Sync \ {j} /\ Rotated(k) /\ sync'[k] = sync[k]
      BY <1>1, <1>6
    <3>2. /\ sync[k].refreshed /\ sync[k].token # 0
          /\ sync[k].token \in valid[sync[k].source]
          /\ \A t \in Network!Source : account[t].token # sync[k].token
          /\ \A q \in Sync : q # k => sync[q].token # sync[k].token
      BY <3>1 DEF RotatedIsMine
    <3>3. \A t \in Network!Source : account'[t].token # sync[k].token
      BY <1>3, <1>7, <3>1, <3>2
    <3>4. ASSUME NEW q \in Sync, q # k PROVE sync'[q].token # sync[k].token
      BY <1>1, <3>2, <3>4, NoWork
    <3> QED
      BY <3>1, <3>2, <3>3, <3>4
  <2>2. s \in OAuth \ Rotating => entry.token \in valid[s]
    BY <1>2 DEF StaysValid
  <2>3. \A t \in OAuth \ Rotating : account'[t].status # "none" => account'[t].token \in valid[t]
    BY <1>3, <2>2 DEF StaysValid, Network!Source
  <2>4. \A k \in Sync : AtWork(k)' => AtWork(k) /\ k # j
    BY <1>1 DEF AtWork
  <2> QED
    BY <1>1, <1>6, <2>1, <2>3, <2>4 DEF StaysValid
<1>9. TokenStands'
  \* The account of another source stands as it did.
  <2>1. ASSUME NEW t \in OAuth \ {s}
        PROVE  \/ account'[t].status = "none" \/ lost'[t]
               \/ account'[t].token \in valid'[t]
               \/ \E k \in Sync : sync'[k].source = t /\ Rotated(k)'
    <3>1. \/ account[t].status = "none" \/ lost[t] \/ account[t].token \in valid[t]
          \/ \E k \in Sync : sync[k].source = t /\ Rotated(k)
      BY <2>1 DEF TokenStands
    <3>2. account'[t] = account[t] /\ lost' = lost /\ valid' = valid
      BY <1>3, <2>1 DEF Network!Source
    <3>3. CASE \E k \in Sync : sync[k].source = t /\ Rotated(k)
      <4>1. PICK k \in Sync : sync[k].source = t /\ Rotated(k)
        BY <3>3
      <4>2. k # j
        BY <2>1, <4>1
      <4> QED
        BY <1>1, <1>6, <4>1, <4>2
    <3> QED
      BY <3>1, <3>2, <3>3
  \* The job's own account has the token it rotated, or the one it found.
  <2>2. ASSUME s \in OAuth
        PROVE  \/ account'[s].token \in valid'[s] \/ lost'[s]
               \/ \E k \in Sync : sync'[k].source = s /\ Rotated(k)'
    <3>1. CASE sync[j].refreshed
      <4>1. sync[j].token \in valid[s]
        BY <2>2, <3>1 DEF StaysValid, RotatedIsMine
      <4> QED
        BY <1>3, <3>1, <4>1
    <3>2. CASE ~sync[j].refreshed
      <4>1. account'[s].token = account[s].token /\ ~Rotated(j)
        BY <1>3, <3>2 DEF RotatedIsMine
      <4>2. \/ lost[s] \/ account[s].token \in valid[s]
            \/ \E k \in Sync : sync[k].source = s /\ Rotated(k)
        BY <1>2, <2>2 DEF TokenStands
      <4>3. CASE \E k \in Sync : sync[k].source = s /\ Rotated(k)
        <5>1. PICK k \in Sync : sync[k].source = s /\ Rotated(k)
          BY <4>3
        <5>2. k # j
          BY <4>1, <5>1
        <5> QED
          BY <1>1, <1>6, <5>1, <5>2
      <4> QED
        BY <4>1, <4>2, <4>3
    <3> QED
      BY <3>1, <3>2
  <2> QED
    BY <2>1, <2>2 DEF TokenStands
<1>10. PoolingRead'
  BY <1>1, <1>2, <1>3 DEF PoolingRead, AtWork
<1> QED
  BY <1>4, <1>5, <1>8, <1>9, <1>10

LEMMA FailsStep == ASSUME NetworkInv, NEW j \in Sync, Network!Fails(j) PROVE NetworkInv'
<1> DEFINE s == sync[j].source
           entry == Network!Stamped(j)
<1>1. /\ AtWork(j) /\ Network!End(j, phase[j]) /\ account' = [account EXCEPT ![s] = entry]
      /\ UNCHANGED <<book, valid, issued, identities, persons, edges, lost, switched, doubled>>
  BY DEF Network!Fails, AtWork, Network!provider, Network!graph, Network!history
<1>2. s \in Network!Source
  BY <1>1 DEF NetworkInv, WorkIsOnAccount
<1>3. /\ entry \in AccountRow /\ entry.status # "none"
      /\ entry.cursor = account[s].cursor /\ entry.pooling = account[s].pooling
      /\ entry.given = account[s].given
      /\ entry.token = IF sync[j].refreshed THEN sync[j].token ELSE account[s].token
  BY <1>1, StampedFields
<1> HIDE DEF entry
<1>4. /\ phase'[j] = "idle" /\ sync'[j] = Network!NoSync
      /\ \A k \in Sync \ {j} : phase'[k] = phase[k] /\ sync'[k] = sync[k]
  BY <1>1 DEF Network!End, Network!Goto, NetworkInv, NetworkTyped
<1>5. account'[s] = entry /\ \A t \in Network!Source \ {s} : account'[t] = account[t]
  BY <1>1, <1>2 DEF NetworkInv, NetworkTyped
<1>6. NoGap'
  BY <1>1, <1>2, <1>3, <1>4, <1>5, GraphStays DEF NetworkInv, NoGap, AtWork
<1>7. AddedOnce'
  BY <1>1, <1>4, NoWork DEF NetworkInv, AddedOnce
<1>8. EdgesFollow'
  <2>1. \A t \in Network!Source : account'[t].pooling = account[t].pooling
    BY <1>3, <1>5
  <2>2. \A e \in edges : e.source \in Network!Source
    BY DEF NetworkInv, NetworkTyped, Edge
  <2> QED
    BY <1>1, <2>1, <2>2, GraphStays DEF NetworkInv, PoolingRead, EdgesFollow
<1>9. /\ edges' \subseteq Edge
      /\ \A e \in edges : \E f \in edges' : f.source = e.source /\ f.contact = e.contact
  BY <1>1 DEF NetworkInv, NetworkTyped
<1> QED
  BY <1>1, <1>3, <1>6, <1>7, <1>8, <1>9, JobEnds

\* The edges after a commit are those there were, some of them in another pooling, and the
\* missing ones.
LEMMA IngestedEdges ==
    ASSUME NetworkInv, NEW j \in Sync, NEW s, s = sync[j].source, phase[j] = "commit",
           edges' = Network!Ingest(j), identities' = identities \cup {s} \X sync[j].batch,
           \A t \in Network!Source : account'[t].pooling = account[t].pooling,
           switched' = switched
    PROVE  /\ edges' \subseteq Edge
           /\ \A e \in edges : \E f \in edges' : f.source = e.source /\ f.contact = e.contact
           /\ \A n \in sync[j].batch : Network!InGraph(s, n)'
           /\ EdgesFollow'
<1> USE DEF NetworkInv
<1> DEFINE pooling == sync[j].account.pooling
           Written(e) == \E k \in sync[j].known : k.pooling # pooling /\ [e EXCEPT !.pooling = k.pooling] = k
           Update(e) == IF Written(e) THEN [e EXCEPT !.pooling = pooling] ELSE e
           Made(n) == [source |-> s, contact |-> n, person |-> sync[j].person[n], pooling |-> pooling]
<1>1. /\ edges' = {Update(e) : e \in edges} \cup {Made(n) : n \in Network!Missing(j)}
  BY DEF Network!Ingest
<1>2. /\ s \in Network!Source /\ sync[j] \in Work /\ pooling \in Network!Pooling
      /\ EdgesFound(j) /\ edges \subseteq Edge /\ sync[j].known \subseteq Edge
      /\ sync[j].batch \subseteq Network!Contact /\ Network!Missing(j) \subseteq sync[j].batch
  BY WorkFields, RowFields DEF NetworkTyped, WorkIsOnAccount, AtWork, Network!Missing
<1>3. \A e \in edges : /\ Update(e) \in Edge /\ Update(e).source = e.source
                       /\ Update(e).contact = e.contact
                       /\ Update(e).pooling = IF Written(e) THEN pooling ELSE e.pooling
  BY <1>2 DEF Edge
<1>4. \A n \in Network!Missing(j) : /\ Made(n) \in Edge /\ Made(n).source = s
                                    /\ Made(n).contact = n /\ Made(n).pooling = pooling
  BY <1>2 DEF Edge, EdgesFound
<1>5. \A e \in edges : Written(e) => e.source \in Network!Sharing(s) /\ e.contact \in sync[j].batch
  <2> SUFFICES ASSUME NEW e \in edges, NEW k \in sync[j].known, [e EXCEPT !.pooling = k.pooling] = k
               PROVE  e.source \in Network!Sharing(s) /\ e.contact \in sync[j].batch
    OBVIOUS
  <2>1. k.source = e.source /\ k.contact = e.contact
    BY <1>2 DEF Edge
  <2> QED
    BY <1>2, <2>1 DEF EdgesFound
<1> HIDE DEF Update, Made, Written
<1>6. edges' \subseteq Edge
  BY <1>1, <1>3, <1>4
<1>7. \A e \in edges : \E f \in edges' : f.source = e.source /\ f.contact = e.contact
  BY <1>1, <1>3
<1>8. ASSUME NEW n \in sync[j].batch PROVE Network!InGraph(s, n)'
  <2>1. CASE n \in Network!Missing(j)
    BY <1>1, <1>2, <1>4, <2>1, Shares DEF Network!InGraph
  <2>2. CASE n \notin Network!Missing(j)
    <3>1. PICK k \in sync[j].known : k.contact = n
      BY <2>2 DEF Network!Missing
    <3>2. PICK e \in edges : e.source = k.source /\ e.contact = n
      BY <1>2, <3>1 DEF EdgesFound
    <3>3. k.source \in Network!Sharing(s)
      BY <1>2, <3>1 DEF EdgesFound
    <3> QED
      BY <1>7, <3>2, <3>3 DEF Network!InGraph
  <2> QED
    BY <2>1, <2>2
<1>9. switched[s] \/ pooling = account'[s].pooling
  BY <1>2 DEF PoolingRead, AtWork
<1>10. EdgesFollow'
  <2> SUFFICES ASSUME NEW f \in edges', Network!Only(f.source, f.contact)', ~switched[f.source]
               PROVE  f.pooling = account'[f.source].pooling
    BY DEF EdgesFollow
  <2>1. CASE \E n \in Network!Missing(j) : f = Made(n)
    BY <1>4, <1>9, <2>1
  <2>2. CASE \E e \in edges : f = Update(e)
    <3>1. PICK e \in edges : f = Update(e)
      BY <2>2
    <3>2. /\ e.source \in Network!Source /\ f.source = e.source /\ f.contact = e.contact
          /\ f.pooling = IF Written(e) THEN pooling ELSE e.pooling
      BY <1>2, <1>3, <3>1 DEF Edge
    <3>3. CASE Written(e)
      <4>1. <<s, e.contact>> \in identities'
        BY <1>5, <3>3
      <4>2. s \in Network!Sharing(e.source)
        BY <1>2, <1>5, <3>3, Shares
      <4>3. e.source = s
        BY <3>2, <4>1, <4>2 DEF Network!Only
      <4> QED
        BY <1>9, <3>2, <3>3, <4>3
    <3>4. CASE ~Written(e)
      <4>1. Network!Only(e.source, e.contact)'
        BY <3>2
      <4>2. Network!Only(e.source, e.contact)
        BY <4>1, OnlyBefore
      <4>3. e.pooling = account[e.source].pooling
        BY <3>2, <4>2 DEF PoolingRead, EdgesFollow
      <4> QED
        BY <3>2, <3>4, <4>3
    <3> QED
      BY <3>3, <3>4
  <2> QED
    BY <1>1, <2>1, <2>2
<1> QED
  BY <1>6, <1>7, <1>8, <1>10

LEMMA CommitStep == ASSUME NetworkInv, NEW j \in Sync, Network!Commit(j) PROVE NetworkInv'
<1>0. PICK s : s = sync[j].source
  OBVIOUS
<1> DEFINE stamped == Network!Stamped(j)
           ahead == sync[j].upto # sync[j].account.cursor
           entry == [stamped EXCEPT !.cursor = IF ahead THEN sync[j].upto ELSE @,
                                    !.given = IF ahead THEN sync[j].given ELSE @]
<1>1. /\ AtWork(j) /\ phase[j] = "commit" /\ Network!End(j, phase[j])
      /\ account' = [account EXCEPT ![s] = entry] /\ edges' = Network!Ingest(j)
      /\ identities' = identities \cup {s} \X sync[j].batch
      /\ persons' = persons \cup sync[j].fresh \X {j}
      /\ UNCHANGED <<book, valid, issued, lost, switched, doubled>>
  BY <1>0 DEF Network!Commit, AtWork, Network!provider, Network!history
<1>2. /\ s \in Network!Source /\ sync[j].upto \in 0 .. MaxContacts /\ sync[j].given \in BOOLEAN
  BY <1>0, <1>1, WorkFields, RowFields DEF NetworkInv, NetworkTyped, WorkIsOnAccount
<1>3. /\ entry \in AccountRow /\ entry.status # "none" /\ entry.pooling = account[s].pooling
      /\ entry.cursor = (IF ahead THEN sync[j].upto ELSE account[s].cursor)
      /\ entry.given = (IF ahead THEN sync[j].given ELSE account[s].given)
      /\ entry.token = IF sync[j].refreshed THEN sync[j].token ELSE account[s].token
  <2>1. /\ stamped \in AccountRow /\ stamped.status # "none"
        /\ stamped.cursor = account[s].cursor /\ stamped.pooling = account[s].pooling
        /\ stamped.given = account[s].given
        /\ stamped.token = IF sync[j].refreshed THEN sync[j].token ELSE account[s].token
    BY <1>0, <1>1, StampedFields
  <2> HIDE DEF stamped, ahead
  <2> QED
    BY <1>2, <2>1 DEF AccountRow
<1> HIDE DEF entry
<1>4. /\ phase'[j] = "idle" /\ sync'[j] = Network!NoSync
      /\ \A k \in Sync \ {j} : phase'[k] = phase[k] /\ sync'[k] = sync[k]
  BY <1>1 DEF Network!End, Network!Goto, NetworkInv, NetworkTyped
<1>5. account'[s] = entry /\ \A t \in Network!Source \ {s} : account'[t] = account[t]
  BY <1>1, <1>2 DEF NetworkInv, NetworkTyped
<1>6. /\ edges' \subseteq Edge
      /\ \A e \in edges : \E f \in edges' : f.source = e.source /\ f.contact = e.contact
      /\ \A n \in sync[j].batch : Network!InGraph(s, n)'
      /\ EdgesFollow'
  <2>1. \A t \in Network!Source : account'[t].pooling = account[t].pooling
    BY <1>3, <1>5
  <2> QED
    BY <1>0, <1>1, <2>1, IngestedEdges
<1>7. \A t, n : Network!InGraph(t, n) => Network!InGraph(t, n)'
  BY <1>6, StaysInGraph
<1>8. NoGap'
  <2>1. entry.given \/ \A n \in 1 .. entry.cursor : Network!InGraph(s, n)'
    <3>1. sync[j].given \/ \A n \in 1 .. sync[j].upto : n \in sync[j].batch \/ Network!InGraph(s, n)
      BY <1>0, <1>1 DEF NetworkInv, NoGap
    <3>2. account[s].given \/ \A n \in 1 .. account[s].cursor : Network!InGraph(s, n)
      BY <1>2 DEF NetworkInv, NoGap
    <3> QED
      BY <1>3, <1>6, <1>7, <3>1, <3>2
  <2>2. \A t \in Network!Source : account'[t].given \/ \A n \in 1 .. account'[t].cursor : Network!InGraph(t, n)'
    BY <1>5, <1>7, <2>1 DEF NetworkInv, NoGap
  <2>3. ASSUME NEW k \in Sync \ {j}, AtWork(k), NEW t, t = sync[k].source
        PROVE  /\ sync[k].account.given \/ \A n \in 1 .. sync[k].account.cursor : Network!InGraph(t, n)'
               /\ sync[k].given \/ \A n \in 1 .. sync[k].upto : n \in sync[k].batch \/ Network!InGraph(t, n)'
    BY <1>7, <2>3 DEF NetworkInv, NoGap
  <2> QED
    BY <1>4, <2>2, <2>3 DEF NoGap, AtWork
<1>9. AddedOnce'
  <2>1. \A n, p : <<n, p>> \in persons' <=> <<n, p>> \in persons \/ (n \in sync[j].fresh /\ p = j)
    BY <1>1
  <2>2. \A n \in Network!Contact : \A p, q \in Sync :
           <<n, p>> \in persons' /\ <<n, q>> \in persons' => p = q \/ n \in doubled
    BY <2>1 DEF NetworkInv, AddedOnce
  <2>3. ASSUME NEW n \in Network!Contact \ doubled, NEW k \in Sync, n \in sync'[k].fresh
        PROVE  /\ \A p \in Sync : <<n, p>> \notin persons'
               /\ \A q \in Sync : n \in sync'[q].fresh => q = k
    <3>1. k # j /\ n \in sync[k].fresh
      BY <1>4, <2>3, NoWork
    <3>2. /\ \A p \in Sync : <<n, p>> \notin persons
          /\ \A q \in Sync : n \in sync[q].fresh => q = k
      BY <3>1 DEF NetworkInv, AddedOnce
    <3> QED
      BY <1>4, <2>1, <3>1, <3>2, NoWork
  <2> QED
    BY <1>1, <2>2, <2>3 DEF AddedOnce
<1> QED
  BY <1>0, <1>1, <1>3, <1>6, <1>8, <1>9, JobEnds

\* A job that is rolled back ends with nothing written.
LEMMA RollsBackStep ==
    ASSUME NetworkInv, NEW j \in Sync, AtWork(j), Network!RollsBack(j)
    PROVE  NetworkInv'
<1> USE DEF NetworkInv
<1> DEFINE s == sync[j].source
<1>1. /\ lost' = [lost EXCEPT ![s] = @ \/ sync[j].token # sync[j].account.token]
      /\ UNCHANGED <<book, valid, issued, account, identities, persons, edges, switched, doubled>>
  BY DEF Network!RollsBack, Network!provider, Network!graph
<1>2. /\ phase' \in [Sync -> Phase] /\ sync' \in [Sync -> Work]
      /\ phase'[j] = "idle" /\ sync'[j] = Network!NoSync
      /\ \A k \in Sync \ {j} : phase'[k] = phase[k] /\ sync'[k] = sync[k]
  BY NoWork DEF Network!RollsBack, Network!End, Network!Goto, NetworkTyped, Phase
<1>3. s \in Network!Source
  BY DEF WorkIsOnAccount
<1>4. /\ lost' \in [Network!Source -> BOOLEAN] /\ lost'[s] = (lost[s] \/ Rotated(j))
      /\ \A t \in Network!Source \ {s} : lost'[t] = lost[t]
  BY <1>1, <1>3 DEF NetworkTyped, Rotated
<1>5. NetworkTyped'
  BY <1>1, <1>2, <1>4 DEF NetworkTyped
<1>6. WorkIsOnAccount' /\ TokensIssued'
  <2>1. 0 <= issued
    BY DEF NetworkTyped
  <2>2. \A k \in Sync : AtWork(k)' => AtWork(k) /\ k # j
    BY <1>2 DEF AtWork
  <2>3. \A k \in Sync : ~AtWork(k)' => k = j \/ ~AtWork(k)
    BY <1>2 DEF AtWork
  <2>4. \A k \in Sync \ {j} : EdgesFound(k) => EdgesFound(k)'
    BY <1>1, <1>2, GraphStays
  <2>5. WorkIsOnAccount'
    BY <1>1, <1>2, <2>2, <2>3, <2>4, NoWork DEF WorkIsOnAccount
  <2> QED
    BY <1>1, <1>2, <2>1, <2>5, NoWork DEF TokensIssued
<1>7. \A k \in Sync : Rotated(k)' <=> Rotated(k) /\ k # j
  BY <1>2 DEF Rotated, AtWork
<1>8. RotatedIsMine'
  BY <1>1, <1>2, <1>7, NoWork DEF RotatedIsMine
<1>9. StaysValid'
  BY <1>1, <1>2, <1>7 DEF StaysValid, AtWork
<1>10. TokenStands'
  <2> SUFFICES ASSUME NEW t \in OAuth, account[t].status # "none", ~lost'[t],
                      account[t].token \notin valid[t]
               PROVE  \E k \in Sync : sync'[k].source = t /\ Rotated(k)'
    BY <1>1 DEF TokenStands
  <2>1. ~lost[t] /\ (t = s => ~Rotated(j))
    BY <1>4 DEF NetworkTyped, Network!Source
  <2>2. PICK k \in Sync : sync[k].source = t /\ Rotated(k)
    BY <2>1 DEF TokenStands
  <2> QED
    BY <1>2, <1>7, <2>1, <2>2
<1>11. NoGap'
  BY <1>1, <1>2, GraphStays DEF NoGap, AtWork
<1>12. PoolingRead'
  BY <1>1, <1>2, GraphStays DEF PoolingRead, EdgesFollow, AtWork
<1>13. AddedOnce'
  BY <1>1, <1>2, NoWork DEF AddedOnce
<1> QED
  BY <1>5, <1>6, <1>8, <1>9, <1>10, <1>11, <1>12, <1>13

LEMMA NetworkStep == NetworkInv /\ [Network!Next]_Network!vars => NetworkInv'
<1> SUFFICES ASSUME NetworkInv, [Network!Next]_Network!vars PROVE NetworkInv'
  OBVIOUS
<1>1. ASSUME NEW j \in Sync, Network!CommitConflict(j) \/ Network!Crash(j) PROVE NetworkInv'
  <2>1. AtWork(j) /\ Network!RollsBack(j)
    BY <1>1 DEF Network!CommitConflict, Network!Crash, AtWork
  <2> QED
    BY <2>1, RollsBackStep
<1>2. CASE UNCHANGED Network!vars
  <2>1. UNCHANGED <<book, valid, issued, account, identities, persons, edges, phase, sync, lost,
                    switched, doubled>>
    BY <1>2 DEF Network!vars, Network!provider, Network!graph, Network!history
  <2>2. NetworkTyped' /\ TokensIssued' /\ RotatedIsMine' /\ StaysValid' /\ TokenStands'
    BY <2>1 DEF NetworkInv, NetworkTyped, AtWork, TokensIssued, RotatedIsMine, Rotated, StaysValid,
       TokenStands
  <2>3. WorkIsOnAccount' /\ NoGap' /\ PoolingRead' /\ AddedOnce'
    BY <2>1, GraphStays DEF NetworkInv, WorkIsOnAccount, AtWork, NoGap, PoolingRead, EdgesFollow,
       AddedOnce
  <2> QED
    BY <2>2, <2>3 DEF NetworkInv
<1> QED
  BY <1>1, <1>2, ConnectStep, CreateStep, SetPoolingStep, AddContactStep, ExpireAccessStep,
     LoadSteps, RefreshStep,
     FailsStep, FetchStep, ResolveStep, CommitStep DEF Network!Next

LEMMA NetworkHolds == NetworkInv => Network!GraphAgrees /\ Network!TokenKept
BY DEF NetworkInv, Network!GraphAgrees, Network!TokenKept, NoGap, PoolingRead, EdgesFollow,
   AddedOnce, TokenStands, Rotated

\* The graph has every contact up to a cursor that syncs have set; the edges to contacts that
\* one account alone has are in its pooling, unless that was switched meanwhile; nobody is
\* there twice unless two jobs resolved the same contact at once; and the stored token is
\* accepted unless a commit was lost.
THEOREM GraphSafe == Network!Spec => [](Network!GraphAgrees /\ Network!TokenKept)
BY NetworkInit, NetworkStep, NetworkHolds, PTL DEF Network!Spec

-----------------------------------------------------------------------------
(* ContactEmail.
   The address holds.  ContactInv says what a job has in hand: a verdict is the true one
   of the address asked or that of a verification that came to nothing, every result
   carries the verdict on its own address, and the finder has refuted the candidates
   before the one it asks; while one job is at work, the row is what it has loaded. *)

Hit == [email : Contact!Address \cup {Contact!NoAddress}, status : Contact!Verdict \cup {"none"}, confidence : Nat]

ContactTyped ==
    /\ truth \in [Contact!Address -> Contact!Decisive]
    /\ catchAll \in BOOLEAN /\ (catchAll => \A a \in Contact!Pattern : truth[a] = "risky")
    /\ cache \in [Contact!Address -> Contact!Verdict \cup {"none"}]
    /\ pc \in [Job -> {"idle", "search", "find", "verify", "wait", "got", "save"}]
    /\ kind \in [Job -> Contact!Kind \cup {"none"}]
    /\ asked \in [Job -> Contact!Address \cup {Contact!NoAddress}]
    /\ verdict \in [Job -> Contact!Verdict \cup {"none"}]
    /\ found \in [Job -> Hit] /\ best \in [Job -> Hit] /\ phone \in [Job -> BOOLEAN]
    /\ stage \in [Job -> {"none", "check", "finder", "final"}]
    /\ DOMAIN loaded = Job
    /\ \A j \in Job : loaded[j].email \in Contact!Address \cup {Contact!NoAddress}
    /\ row.email \in Contact!Address \cup {Contact!NoAddress}
    /\ overlapped \in BOOLEAN

\* A verdict is the true one, or that of a verification that came to nothing.
Right(v, a) == v = truth[a] \/ (v = "unknown" /\ a \in missed)

\* A status that decides is that of the address it stands beside.
Honest(email, status) == status \in Contact!Decisive => email \in Contact!Address /\ status = truth[email]

\* Every candidate can be verified, and one of them is the address.
Findable == missed \cap Contact!Pattern = {} /\ \E a \in Contact!Pattern : truth[a] = "valid"
Good(hit) == hit.confidence = 80 \/ hit.status = "valid"

InHand == {"verify", "wait", "got"}

\* What a job has in hand.
JobInv(j) ==
    /\ Honest(found[j].email, found[j].status) /\ Honest(best[j].email, best[j].status)
    /\ pc[j] \in InHand => asked[j] \in Contact!Address /\ stage[j] # "none"
    /\ pc[j] = "got" => Right(verdict[j], asked[j])
    /\ pc[j] = "find" \/ (pc[j] \in InHand /\ stage[j] = "finder") => found[j].confidence <= 80
    /\ pc[j] \in InHand /\ stage[j] = "finder" =>
          /\ asked[j] \in Contact!Pattern
          /\ missed \cap Contact!Pattern = {} => \A a \in Contact!Pattern : a < asked[j] => truth[a] # "valid"
    /\ pc[j] \in InHand /\ stage[j] = "final" =>
          asked[j] = found[j].email /\ found[j].status = "none" /\ (Findable => Good(found[j]))
    /\ pc[j] = "save" =>
          (found[j].email # Contact!NoAddress => found[j].status # "none") /\ (Findable => Good(found[j]))

\* While no two jobs were at work, the row is what the one at work has loaded.
Alone ==
    ~overlapped =>
        /\ Honest(row.email, row.status)
        /\ \A j \in Job : pc[j] # "idle" =>
              /\ \A i \in Job : pc[i] # "idle" => i = j
              /\ loaded[j].email = row.email /\ loaded[j].status = row.status
              /\ pc[j] \in InHand /\ stage[j] = "check" => asked[j] = row.email

ContactInv ==
    /\ ContactTyped
    /\ \A a \in Contact!Address : cache[a] = "none" \/ Right(cache[a], a)
    /\ \A j \in Job : JobInv(j)
    /\ Alone
    /\ Contact!InvalidNotSent

\* A step leaves what the other jobs have in hand alone.
Only(j) ==
    \A i \in Job \ {j} :
        /\ pc'[i] = pc[i] /\ asked'[i] = asked[i] /\ verdict'[i] = verdict[i]
        /\ found'[i] = found[i] /\ best'[i] = best[i] /\ stage'[i] = stage[i]

LEMMA Addresses ==
    /\ Contact!Pattern \subseteq Contact!Address /\ 1 \in Contact!Pattern
    /\ Contact!NoAddress \notin Contact!Address /\ Contact!Address \subseteq Nat
    /\ Contact!Pattern \subseteq Nat
BY CandidatesAssumption DEF Contact!Address, Contact!Pattern, Contact!Other, Contact!NoAddress

\* A verdict that decides is the true one.
LEMMA Decides ==
    ASSUME NEW a \in Contact!Address, NEW v, Right(v, a)
    PROVE  Honest(a, v) /\ (a \notin missed => v = truth[a])
BY DEF Right, Honest, Contact!Decisive

LEMMA Nobody ==
    /\ Contact!NoResult \in Hit /\ Contact!NoResult.status = "none"
    /\ Contact!NoResult.email = Contact!NoAddress /\ Contact!NoResult.confidence = 0
    /\ Honest(Contact!NoAddress, "none")
BY DEF Contact!NoResult, Hit, Honest, Contact!Decisive

LEMMA Confidences ==
    \A v \in Contact!Verdict : Contact!Confidence(v) \in Nat /\ (v = "valid" => Contact!Confidence(v) = 95)
<1> SUFFICES ASSUME NEW v \in Contact!Verdict
             PROVE  Contact!Confidence(v) \in Nat /\ (v = "valid" => Contact!Confidence(v) = 95)
  OBVIOUS
<1>1. CASE v = "valid"
  BY <1>1 DEF Contact!Confidence
<1>2. CASE v = "risky"
  BY <1>2 DEF Contact!Confidence
<1>3. CASE v \notin {"valid", "risky"}
  BY <1>3 DEF Contact!Confidence
<1> QED
  BY <1>1, <1>2, <1>3

LEMMA Results ==
    ASSUME NEW a \in Contact!Address, NEW v \in Contact!Verdict
    PROVE  /\ Contact!Result(a, v) \in Hit /\ Contact!Result(a, v).email = a
           /\ Contact!Result(a, v).status = v
           /\ v = "valid" => Contact!Result(a, v).confidence = 95
<1>1. Contact!Confidence(v) \in Nat /\ (v = "valid" => Contact!Confidence(v) = 95)
  BY Confidences
<1> QED
  BY <1>1 DEF Contact!Result, Hit

LEMMA HitFields ==
    ASSUME NEW hit \in Hit
    PROVE  /\ hit.email \in Contact!Address \cup {Contact!NoAddress}
           /\ hit.status \in Contact!Verdict \cup {"none"}
           /\ hit.confidence \in Nat
BY DEF Hit

\* What the jobs a step leaves alone have in hand is still in order.
LEMMA OtherJob ==
    ASSUME NEW i \in Job, JobInv(i), UNCHANGED truth, missed \subseteq missed',
           pc'[i] = pc[i], asked'[i] = asked[i], verdict'[i] = verdict[i],
           found'[i] = found[i], best'[i] = best[i], stage'[i] = stage[i]
    PROVE  JobInv(i)'
<1>1. Findable' => Findable
  BY DEF Findable
<1>2. \A v, a : Right(v, a) => Right(v, a)'
  BY DEF Right
<1> QED
  BY <1>1, <1>2 DEF JobInv, Honest, Good

LEMMA JobStep ==
    ASSUME ContactInv, NEW j \in Job, UNCHANGED Contact!world, missed \subseteq missed', Only(j),
           \A a \in Contact!Address : cache'[a] = cache[a] \/ Right(cache[a], a)',
           \A a \in sent' \ sent : truth[a] = "invalid" => a \in missed',
           ContactTyped', JobInv(j)', Alone'
    PROVE  ContactInv'
<1>1. UNCHANGED truth
  BY DEF Contact!world
<1>2. \A i \in Job : JobInv(i)'
  <2> SUFFICES ASSUME NEW i \in Job PROVE JobInv(i)'
    OBVIOUS
  <2>1. CASE i = j
    BY <2>1
  <2>2. CASE i # j
    BY <1>1, <2>2, OtherJob DEF ContactInv, Only
  <2> QED
    BY <2>1, <2>2
<1>3. \A a \in Contact!Address : cache'[a] = "none" \/ Right(cache[a], a)'
  BY <1>1 DEF ContactInv, Right
<1>4. Contact!InvalidNotSent'
  BY <1>1 DEF ContactInv, Contact!InvalidNotSent
<1> QED
  BY <1>2, <1>3, <1>4 DEF ContactInv

\* A job at work goes on, and the row stays.
LEMMA AloneStays ==
    ASSUME Alone, NEW j \in Job, pc[j] # "idle", Only(j),
           UNCHANGED <<Contact!world, row, loaded, overlapped>>,
           pc'[j] \in InHand /\ stage'[j] = "check" =>
               pc[j] \in InHand /\ stage[j] = "check" /\ asked'[j] = asked[j]
    PROVE  Alone'
<1>1. UNCHANGED truth /\ row' = row /\ loaded' = loaded /\ overlapped' = overlapped
  BY DEF Contact!world
<1>2. ASSUME ~overlapped PROVE Honest(row.email, row.status)'
  BY <1>1, <1>2 DEF Alone, Honest
<1>3. ASSUME ~overlapped, NEW i \in Job, pc'[i] # "idle"
      PROVE  /\ i = j /\ loaded[i].email = row.email /\ loaded[i].status = row.status
             /\ pc'[i] \in InHand /\ stage'[i] = "check" => asked'[i] = row.email
  BY <1>3 DEF Alone, Only
<1> QED
  BY <1>1, <1>2, <1>3 DEF Alone

LEMMA ContactInit == Contact!Init => ContactInv
<1> SUFFICES ASSUME Contact!Init PROVE ContactInv
  OBVIOUS
<1>1. row.email \in Contact!Address \cup {Contact!NoAddress} /\ row.status = "none"
  <2> DEFINE none == Contact!NoRow
  <2>1. /\ none.email = Contact!NoAddress /\ none.status = "none"
        /\ none \in [email : Nat, status : {"none"}, confidence : Nat, recent : BOOLEAN]
    BY DEF Contact!NoRow, Contact!NoAddress
  <2>2. row = none \/ row = [none EXCEPT !.email = Contact!Other]
    BY DEF Contact!Init
  <2> HIDE DEF none
  <2> QED
    BY <2>1, <2>2 DEF Contact!Address
<1>2. Contact!NoRow.email = Contact!NoAddress
  BY DEF Contact!NoRow
<1>3. ContactTyped
  BY <1>1, <1>2, Nobody DEF Contact!Init, ContactTyped
<1>4. \A j \in Job : JobInv(j)
  <2> SUFFICES ASSUME NEW j \in Job PROVE JobInv(j)
    OBVIOUS
  <2>1. found[j] = Contact!NoResult /\ best[j] = Contact!NoResult /\ pc[j] = "idle"
    BY DEF Contact!Init
  <2> QED
    BY <2>1, Nobody DEF JobInv, InHand, Honest, Contact!Decisive
<1>5. Alone
  BY <1>1 DEF Alone, Contact!Init, Honest, Contact!Decisive
<1> QED
  BY <1>3, <1>4, <1>5 DEF ContactInv, Contact!InvalidNotSent, Contact!Init

\* A job starts.
LEMMA StartStep ==
    ASSUME ContactInv, NEW j \in Job, NEW k \in Contact!Kind, Contact!Start(j, k)
    PROVE  ContactInv'
<1>0. ContactTyped /\ Alone /\ JobInv(j)
  BY DEF ContactInv
<1>1. /\ pc[j] = "idle"
      /\ UNCHANGED <<Contact!world, row, cache, verdict, found, best, phone, sent, missed>>
      /\ kind' = [kind EXCEPT ![j] = k] /\ loaded' = [loaded EXCEPT ![j] = row]
      /\ stage' = [stage EXCEPT ![j] = "check"]
      /\ overlapped' = (overlapped \/ \E i \in Job : pc[i] # "idle")
  BY DEF Contact!Start
<1>2. \/ pc' = [pc EXCEPT ![j] = "search"] /\ asked' = asked
      \/ /\ pc' = [pc EXCEPT ![j] = "verify"] /\ asked' = [asked EXCEPT ![j] = row.email]
         /\ row.email # Contact!NoAddress
  <2>1. CASE k = "enrich"
    BY <2>1 DEF Contact!Start, Contact!Goto
  <2>2. CASE k = "reverify"
    BY <2>2 DEF Contact!Start, Contact!Goto, Contact!MayStart
  <2>3. CASE k \notin {"enrich", "reverify"}
    BY <2>3 DEF Contact!Start, Contact!Goto, Contact!MayStart
  <2> QED
    BY <2>1, <2>2, <2>3
<1>3. Only(j) /\ loaded'[j] = row /\ stage'[j] = "check"
  BY <1>0, <1>1, <1>2 DEF Only, ContactTyped
<1>4. \/ pc'[j] = "search"
      \/ pc'[j] = "verify" /\ asked'[j] = row.email /\ row.email \in Contact!Address
  BY <1>0, <1>2 DEF ContactTyped
<1>5. ContactTyped'
  <2>1. /\ DOMAIN loaded' = Job
        /\ \A i \in Job : loaded'[i].email \in Contact!Address \cup {Contact!NoAddress}
    BY <1>0, <1>1 DEF ContactTyped
  <2>2. overlapped' \in BOOLEAN /\ kind' \in [Job -> Contact!Kind \cup {"none"}]
    BY <1>0, <1>1 DEF ContactTyped
  <2>3. pc' \in [Job -> {"idle", "search", "find", "verify", "wait", "got", "save"}]
    BY <1>0, <1>2 DEF ContactTyped
  <2>4. asked' \in [Job -> Contact!Address \cup {Contact!NoAddress}]
    BY <1>0, <1>2 DEF ContactTyped
  <2>5. stage' \in [Job -> {"none", "check", "finder", "final"}]
    BY <1>0, <1>1 DEF ContactTyped
  <2> QED
    BY <1>0, <1>1, <2>1, <2>2, <2>3, <2>4, <2>5 DEF ContactTyped, Contact!world
<1>6. JobInv(j)'
  BY <1>0, <1>1, <1>3, <1>4 DEF JobInv, Honest, InHand, Contact!world
<1>7. Alone'
  <2> SUFFICES ASSUME ~overlapped' PROVE Alone'
    BY DEF Alone
  <2>1. ~overlapped /\ (\A i \in Job : pc[i] = "idle")
    BY <1>1
  <2>2. Honest(row.email, row.status)'
    BY <1>0, <1>1, <2>1 DEF Alone, Honest, Contact!world
  <2>3. \A i \in Job : pc'[i] # "idle" => i = j
    BY <1>3, <2>1 DEF Only
  <2>4. loaded'[j] = row' /\ (pc'[j] \in InHand => asked'[j] = row'.email)
    BY <1>1, <1>3, <1>4 DEF InHand
  <2> QED
    BY <2>2, <2>3, <2>4 DEF Alone
<1> QED
  BY <1>1, <1>3, <1>5, <1>6, <1>7, JobStep

\* A verification of j, which has the address in hand.
LEMMA Verifying ==
    ASSUME ContactInv, NEW j \in Job, pc[j] \in InHand
    PROVE  ContactTyped /\ Alone /\ JobInv(j) /\ asked[j] \in Contact!Address /\ pc[j] # "idle"
BY DEF ContactInv, JobInv, InHand

\* j has got a verdict on it.
LEMMA GotStep ==
    ASSUME ContactInv, NEW j \in Job, pc[j] \in InHand, NEW v \in Contact!Verdict,
           Contact!Got(j, v), Right(v, asked[j])',
           missed \subseteq missed', cache' \in [Contact!Address -> Contact!Verdict \cup {"none"}],
           \A a \in Contact!Address : cache'[a] = cache[a] \/ Right(cache[a], a)',
           UNCHANGED <<Contact!world, row, Contact!job, asked, Contact!finder, sent, overlapped>>
    PROVE  ContactInv'
<1>0. ContactTyped /\ Alone /\ JobInv(j) /\ asked[j] \in Contact!Address /\ pc[j] # "idle"
  BY Verifying
<1>1. /\ UNCHANGED <<Contact!world, row, kind, loaded, asked, found, best, phone, stage, sent, overlapped>>
      /\ verdict' = [verdict EXCEPT ![j] = v] /\ pc' = [pc EXCEPT ![j] = "got"]
  BY DEF Contact!Got, Contact!Goto, Contact!job, Contact!finder
<1>2. Only(j) /\ verdict'[j] = v /\ pc'[j] = "got"
  BY <1>0, <1>1 DEF Only, ContactTyped
<1>3. ContactTyped'
  BY <1>0, <1>1 DEF ContactTyped, Contact!world
<1>4. Findable' => Findable
  BY <1>1 DEF Findable, Contact!world
<1>5. JobInv(j)'
  BY <1>0, <1>1, <1>2, <1>4 DEF JobInv, Honest, InHand, Contact!world, Good
<1>6. Alone'
  BY <1>0, <1>1, <1>2, AloneStays DEF InHand
<1> QED
  BY <1>1, <1>2, <1>3, <1>5, <1>6, JobStep

LEMMA VerificationStep ==
    ASSUME ContactInv, NEW j \in Job, Contact!Verification(j)
    PROVE  ContactInv'
<1>0. ContactTyped /\ \A a \in Contact!Address : cache[a] = "none" \/ Right(cache[a], a)
  BY DEF ContactInv
<1>1. ASSUME NEW v \in Contact!Verdict, Contact!Got(j, v), pc[j] \in InHand,
             missed \subseteq missed',
             v = truth[asked[j]] \/ (v = "unknown" /\ asked[j] \in missed'),
             cache' = cache \/ cache' = [cache EXCEPT ![asked[j]] = v],
             UNCHANGED <<Contact!world, row, Contact!job, asked, Contact!finder, sent, overlapped>>
      PROVE  ContactInv'
  <2>1. asked[j] \in Contact!Address /\ asked' = asked /\ truth' = truth
    BY <1>1, Verifying DEF Contact!world
  <2>2. Right(v, asked[j])'
    BY <1>1, <2>1 DEF Right
  <2>3. cache' \in [Contact!Address -> Contact!Verdict \cup {"none"}]
    BY <1>0, <1>1, <2>1 DEF ContactTyped
  <2>4. \A a \in Contact!Address : cache'[a] = cache[a] \/ Right(cache[a], a)'
    <3> SUFFICES ASSUME NEW a \in Contact!Address, cache'[a] # cache[a] PROVE Right(cache[a], a)'
      OBVIOUS
    <3>1. a = asked[j] /\ cache'[a] = v
      BY <1>0, <1>1 DEF ContactTyped
    <3> QED
      BY <1>1, <2>1, <3>1 DEF Right
  <2> QED
    BY <1>1, <2>2, <2>3, <2>4, GotStep
<1>2. ASSUME Contact!Cached(j) PROVE ContactInv'
  <2> DEFINE v == cache[asked[j]]
  <2>1. /\ pc[j] \in InHand /\ Contact!Got(j, v) /\ v # "none" /\ cache' = cache /\ missed' = missed
        /\ UNCHANGED <<Contact!world, row, Contact!job, asked, Contact!finder, sent, overlapped>>
    BY <1>2 DEF Contact!Cached, InHand
  <2>2. asked[j] \in Contact!Address
    BY <2>1, Verifying
  <2>3. v \in Contact!Verdict /\ (v = truth[asked[j]] \/ (v = "unknown" /\ asked[j] \in missed'))
    BY <1>0, <2>1, <2>2 DEF ContactTyped, Right
  <2> QED
    BY <1>1, <2>1, <2>3
<1>3. "unknown" \in Contact!Verdict
  BY DEF Contact!Verdict
<1>4. ASSUME Contact!Refused(j) PROVE ContactInv'
  BY <1>1, <1>3, <1>4 DEF Contact!Refused, InHand
<1>5. ASSUME Contact!Answer(j) PROVE ContactInv'
  <2>1. pc[j] \in InHand /\ asked[j] \in Contact!Address
    BY <1>5, Verifying DEF Contact!Answer, InHand
  <2>2. truth[asked[j]] \in Contact!Verdict
    BY <1>0, <2>1 DEF ContactTyped, Contact!Verdict
  <2> QED
    BY <1>1, <1>5, <2>1, <2>2 DEF Contact!Answer
<1>6. ASSUME Contact!Miss(j) PROVE ContactInv'
  BY <1>1, <1>3, <1>6 DEF Contact!Miss, InHand
<1>7. ASSUME Contact!Ask(j) PROVE ContactInv'
  <2>0. ContactTyped /\ Alone /\ JobInv(j) /\ pc[j] # "idle" /\ pc[j] = "verify"
    BY <1>7, Verifying DEF Contact!Ask, InHand
  <2>1. /\ UNCHANGED <<Contact!world, row, cache, kind, loaded, asked, verdict, found, best, phone, stage, sent, missed,
                       overlapped>>
        /\ pc' = [pc EXCEPT ![j] = "wait"]
    BY <1>7 DEF Contact!Ask, Contact!Goto, Contact!job, Contact!finder
  <2>2. Only(j) /\ pc'[j] = "wait"
    BY <2>0, <2>1 DEF Only, ContactTyped
  <2>3. ContactTyped'
    BY <2>0, <2>1 DEF ContactTyped, Contact!world
  <2>4. Findable' => Findable
    BY <2>1 DEF Findable, Contact!world
  <2>5. JobInv(j)'
    BY <2>0, <2>1, <2>2, <2>4 DEF JobInv, Honest, InHand, Contact!world, Good
  <2>6. Alone'
    BY <2>0, <2>1, <2>2, AloneStays DEF InHand
  <2> QED
    BY <2>1, <2>2, <2>3, <2>5, <2>6, JobStep
<1> QED
  BY <1>2, <1>4, <1>5, <1>6, <1>7 DEF Contact!Verification

\* A result is final, but for a verdict if it has none.
LEMMA FinalStep ==
    ASSUME ContactInv, NEW j \in Job, NEW r \in Hit, Honest(r.email, r.status), Findable => Good(r),
           pc[j] # "idle", Contact!Final(j, r), found' = [found EXCEPT ![j] = r],
           best' = best \/ best' = [best EXCEPT ![j] = Contact!NoResult],
           phone' \in [Job -> BOOLEAN],
           UNCHANGED <<Contact!world, row, cache, Contact!job, verdict, sent, missed, overlapped>>
    PROVE  ContactInv'
<1>0. ContactTyped /\ Alone /\ JobInv(j)
  BY DEF ContactInv
<1>1. /\ UNCHANGED <<Contact!world, row, cache, kind, loaded, verdict, sent, missed, overlapped>>
      /\ \/ /\ r.email # Contact!NoAddress /\ r.status = "none"
            /\ pc' = [pc EXCEPT ![j] = "verify"]
            /\ asked' = [asked EXCEPT ![j] = r.email]
            /\ stage' = [stage EXCEPT ![j] = "final"]
         \/ /\ r.email # Contact!NoAddress => r.status # "none"
            /\ pc' = [pc EXCEPT ![j] = "save"] /\ UNCHANGED <<asked, stage>>
  BY DEF Contact!Final, Contact!Goto, Contact!job
<1>2. r.email \in Contact!Address \cup {Contact!NoAddress}
  BY HitFields
<1>3. /\ Only(j) /\ found'[j] = r /\ best'[j] \in {best[j], Contact!NoResult}
      /\ \/ /\ r.email \in Contact!Address /\ r.status = "none"
            /\ pc'[j] = "verify" /\ asked'[j] = r.email /\ stage'[j] = "final"
         \/ (r.email # Contact!NoAddress => r.status # "none") /\ pc'[j] = "save"
  <2>1. found'[j] = r /\ best'[j] \in {best[j], Contact!NoResult}
    BY <1>0 DEF ContactTyped
  <2>2. \A i \in Job \ {j} : /\ pc'[i] = pc[i] /\ asked'[i] = asked[i] /\ verdict'[i] = verdict[i]
                             /\ found'[i] = found[i] /\ best'[i] = best[i] /\ stage'[i] = stage[i]
    BY <1>0, <1>1 DEF ContactTyped
  <2>3. CASE r.email # Contact!NoAddress /\ r.status = "none"
    BY <1>0, <1>1, <1>2, <2>1, <2>2, <2>3 DEF Only, ContactTyped
  <2>4. CASE ~(r.email # Contact!NoAddress /\ r.status = "none")
    BY <1>0, <1>1, <2>1, <2>2, <2>4 DEF Only, ContactTyped
  <2> QED
    BY <2>3, <2>4
<1>4. ContactTyped'
  <2>1. found' \in [Job -> Hit] /\ best' \in [Job -> Hit]
    BY <1>0, Nobody DEF ContactTyped
  <2>2. /\ pc' \in [Job -> {"idle", "search", "find", "verify", "wait", "got", "save"}]
        /\ stage' \in [Job -> {"none", "check", "finder", "final"}]
    BY <1>0, <1>1 DEF ContactTyped
  <2>3. asked' \in [Job -> Contact!Address \cup {Contact!NoAddress}]
    BY <1>0, <1>1, <1>2 DEF ContactTyped
  <2> QED
    BY <1>0, <1>1, <2>1, <2>2, <2>3 DEF ContactTyped, Contact!world
<1>5. Findable' => Findable
  BY <1>1 DEF Findable, Contact!world
<1>6. JobInv(j)'
  <2>1. Honest(best[j].email, best[j].status)' /\ Honest(found[j].email, found[j].status)'
    BY <1>0, <1>1, <1>3, Nobody DEF JobInv, Honest, Contact!world
  <2>2. Findable' => Good(found'[j])
    BY <1>3, <1>5
  <2>3. CASE pc'[j] = "verify"
    BY <1>3, <2>1, <2>2, <2>3 DEF JobInv, InHand, Good
  <2>4. CASE pc'[j] = "save"
    BY <1>3, <2>1, <2>2, <2>4 DEF JobInv, InHand, Good
  <2> QED
    BY <1>3, <2>3, <2>4
<1>7. Alone'
  BY <1>0, <1>1, <1>3, AloneStays DEF InHand
<1> QED
  BY <1>1, <1>3, <1>4, <1>6, <1>7, JobStep

LEMMA SearchStep ==
    ASSUME ContactInv, NEW j \in Job, Contact!Search(j)
    PROVE  ContactInv'
<1>0. ContactTyped /\ Alone /\ JobInv(j)
  BY DEF ContactInv
<1>1. PICK a \in Contact!Address \cup {Contact!NoAddress}, p \in BOOLEAN :
          LET r == IF a = Contact!NoAddress THEN Contact!NoResult
                   ELSE [email |-> a, status |-> "none", confidence |-> Contact!SearchConfidence(a)]
          IN  /\ found' = [found EXCEPT ![j] = r]
              /\ phone' = [phone EXCEPT ![j] = p]
              /\ IF Contact!Enough(r, p) THEN Contact!Final(j, r) ELSE Contact!Goto(j, "find") /\ UNCHANGED <<asked, stage>>
  BY Zenon DEF Contact!Search
<1> DEFINE r == IF a = Contact!NoAddress THEN Contact!NoResult
                ELSE [email |-> a, status |-> "none", confidence |-> Contact!SearchConfidence(a)]
<1>2. /\ pc[j] = "search"
      /\ UNCHANGED <<Contact!world, row, cache, Contact!job, verdict, best, sent, missed, overlapped>>
  BY DEF Contact!Search
<1>3. Contact!SearchConfidence(a) \in {55, 80}
  BY DEF Contact!SearchConfidence
<1>4. r \in Hit /\ r.status = "none" /\ r.confidence \in {0, 55, 80}
  <2>1. CASE a = Contact!NoAddress
    BY <2>1, Nobody
  <2>2. CASE a # Contact!NoAddress
    BY <1>3, <2>2 DEF Hit
  <2> QED
    BY <2>1, <2>2
<1>5. /\ found' = [found EXCEPT ![j] = r] /\ phone' = [phone EXCEPT ![j] = p]
      /\ IF Contact!Enough(r, p) THEN Contact!Final(j, r) ELSE Contact!Goto(j, "find") /\ UNCHANGED <<asked, stage>>
  BY <1>1
<1> HIDE DEF r
<1>6. Honest(r.email, r.status) /\ phone' \in [Job -> BOOLEAN]
  BY <1>0, <1>4, <1>5 DEF Honest, Contact!Decisive, ContactTyped
<1>7. CASE Contact!Enough(r, p)
  <2>1. Good(r)
    BY <1>4, <1>7 DEF Contact!Enough, Contact!MinConfidence, Good
  <2>2. Contact!Final(j, r)
    BY <1>5, <1>7
  <2>3. /\ UNCHANGED <<Contact!world, row, cache, Contact!job, verdict, sent, missed, overlapped>>
        /\ best' = best /\ pc[j] # "idle"
    BY <1>2
  <2> QED
    BY <1>4, <1>5, <1>6, <2>1, <2>2, <2>3, FinalStep
<1>8. CASE ~Contact!Enough(r, p)
  <2>1. /\ UNCHANGED <<Contact!world, row, cache, kind, loaded, asked, verdict, best, stage, sent, missed, overlapped>>
        /\ pc' = [pc EXCEPT ![j] = "find"]
    BY <1>2, <1>5, <1>8 DEF Contact!Goto, Contact!job
  <2>2. Only(j) /\ pc'[j] = "find" /\ found'[j] = r
    BY <1>0, <1>5, <2>1 DEF Only, ContactTyped
  <2>3. found' \in [Job -> Hit]
    BY <1>0, <1>4, <1>5 DEF ContactTyped
  <2>4. ContactTyped'
    BY <1>0, <1>6, <2>1, <2>3 DEF ContactTyped, Contact!world
  <2>5. /\ found'[j].confidence <= 80 /\ Honest(best[j].email, best[j].status)'
        /\ Honest(found[j].email, found[j].status)'
    BY <1>0, <1>4, <1>6, <2>1, <2>2 DEF JobInv, Honest, Contact!world
  <2>6. JobInv(j)'
    BY <2>2, <2>5 DEF JobInv, InHand
  <2>7. Alone'
    BY <1>0, <1>2, <2>1, <2>2, AloneStays DEF InHand
  <2> QED
    BY <2>1, <2>2, <2>4, <2>6, <2>7, JobStep
<1> QED
  BY <1>7, <1>8

LEMMA FindStep ==
    ASSUME ContactInv, NEW j \in Job, Contact!Find(j)
    PROVE  ContactInv'
<1>0. ContactTyped /\ Alone /\ JobInv(j)
  BY DEF ContactInv
<1>1. /\ pc[j] = "find"
      /\ UNCHANGED <<Contact!world, row, cache, kind, loaded, verdict, found, phone, sent, missed,
                                      overlapped>>
      /\ asked' = [asked EXCEPT ![j] = 1] /\ best' = [best EXCEPT ![j] = Contact!NoResult]
      /\ stage' = [stage EXCEPT ![j] = "finder"] /\ pc' = [pc EXCEPT ![j] = "verify"]
  BY DEF Contact!Find, Contact!Goto, Contact!job
<1>2. /\ Only(j) /\ asked'[j] = 1 /\ best'[j] = Contact!NoResult /\ stage'[j] = "finder"
      /\ pc'[j] = "verify"
      /\ found'[j] = found[j]
  BY <1>0, <1>1 DEF Only, ContactTyped
<1>3. ContactTyped'
  <2>1. asked' \in [Job -> Contact!Address \cup {Contact!NoAddress}] /\ best' \in [Job -> Hit]
    BY <1>0, <1>1, Addresses, Nobody DEF ContactTyped
  <2>2. /\ pc' \in [Job -> {"idle", "search", "find", "verify", "wait", "got", "save"}]
        /\ stage' \in [Job -> {"none", "check", "finder", "final"}]
    BY <1>0, <1>1 DEF ContactTyped
  <2> QED
    BY <1>0, <1>1, <2>1, <2>2 DEF ContactTyped, Contact!world
<1>4. JobInv(j)'
  <2>1. Honest(best[j].email, best[j].status)' /\ Honest(found[j].email, found[j].status)'
    BY <1>0, <1>1, <1>2, Nobody DEF JobInv, Honest, Contact!world
  <2>2. /\ asked'[j] \in Contact!Pattern /\ asked'[j] \in Contact!Address
        /\ \A a \in Contact!Pattern : ~(a < asked'[j])
    BY <1>2, Addresses DEF Contact!Pattern
  <2>3. found'[j].confidence <= 80
    BY <1>0, <1>1, <1>2 DEF JobInv
  <2> QED
    BY <1>2, <2>1, <2>2, <2>3 DEF JobInv, InHand
<1>5. Alone'
  BY <1>0, <1>1, <1>2, AloneStays DEF InHand
<1> QED
  BY <1>1, <1>2, <1>3, <1>4, <1>5, JobStep

\* The finder has a verdict on one of its candidates.
LEMMA FinderStep ==
    ASSUME ContactInv, NEW j \in Job, Contact!FinderGot(j)
    PROVE  ContactInv'
<1> DEFINE a == asked[j]
           v == verdict[j]
           ranked == Contact!Ranked(best[j], a, v)
<1>0. /\ ContactTyped /\ Alone /\ JobInv(j) /\ a \in Contact!Address /\ a \in Contact!Pattern
      /\ a \in Nat
  BY Verifying, Addresses DEF Contact!FinderGot, InHand, JobInv
<1>1. /\ pc[j] = "got" /\ pc[j] # "idle" /\ stage[j] = "finder" /\ phone' = phone
      /\ UNCHANGED <<Contact!world, row, cache, Contact!job, verdict, sent, missed, overlapped>>
  BY DEF Contact!FinderGot
<1>2. /\ v \in Contact!Verdict /\ Right(v, a) /\ best[j] \in Hit /\ found[j] \in Hit
      /\ found[j].confidence <= 80
      /\ Honest(found[j].email, found[j].status) /\ Honest(best[j].email, best[j].status)
  <2>1. Right(v, a) /\ found[j].confidence <= 80
    BY <1>0, <1>1 DEF JobInv, InHand
  <2>2. v \in Contact!Verdict \cup {"none"}
    BY <1>0 DEF ContactTyped
  <2>3. v # "none"
    BY <1>0, <2>1 DEF Right, ContactTyped, Contact!Decisive
  <2> QED
    BY <1>0, <2>1, <2>2, <2>3 DEF JobInv, ContactTyped
<1>3. /\ missed \cap Contact!Pattern = {} => v = truth[a] /\ \A b \in Contact!Pattern : b < a => truth[b] # "valid"
  <2>1. missed \cap Contact!Pattern = {} => a \notin missed
    BY <1>0
  <2> QED
    BY <1>0, <1>1, <1>2, <2>1, Decides DEF JobInv, InHand
<1>4. /\ Contact!Result(a, v) \in Hit
      /\ Honest(Contact!Result(a, v).email, Contact!Result(a, v).status)
  BY <1>0, <1>2, Results, Decides
<1>5. ranked \in Hit /\ Honest(ranked.email, ranked.status)
  BY <1>2, <1>4 DEF Contact!Ranked
<1> HIDE DEF a, v, ranked
\* The result is taken, unless the guess is thought better.
<1>6. ASSUME NEW r \in Hit, Honest(r.email, r.status),
             Findable => r.status = "valid" /\ r.confidence = 95,
             found' = [found EXCEPT ![j] = Contact!Guessed(j, r)],
             best' = [best EXCEPT ![j] = Contact!NoResult],
             Contact!Final(j, Contact!Guessed(j, r))
      PROVE  ContactInv'
  <2> DEFINE guess == [email |-> 1, status |-> "none", confidence |-> Contact!PatternConfidence]
             chosen == Contact!Guessed(j, r)
  <2>1. /\ guess \in Hit /\ guess.confidence = 40 /\ Honest(guess.email, guess.status)
    BY Addresses DEF Hit, Contact!PatternConfidence, Honest, Contact!Decisive
  <2> HIDE DEF guess
  <2>2. chosen \in {r, found[j], guess}
    BY DEF Contact!Guessed, Contact!Better, guess
  <2>3. Findable => chosen = r
    <3> SUFFICES ASSUME r.confidence = 95 PROVE chosen = r
      BY <1>6
    <3>1. Contact!Better(r, found[j]) = r
      BY <1>2, HitFields DEF Contact!Better
    <3>2. Contact!Better(guess, r) = r
      BY <2>1 DEF Contact!Better
    <3> QED
      BY <3>1, <3>2 DEF Contact!Guessed, guess
  <2>4. chosen \in Hit /\ Honest(chosen.email, chosen.status) /\ (Findable => Good(chosen))
    BY <1>2, <1>6, <2>1, <2>2, <2>3 DEF Good
  <2>5. /\ found' = [found EXCEPT ![j] = chosen] /\ Contact!Final(j, chosen)
        /\ phone' \in [Job -> BOOLEAN]
    BY <1>0, <1>1, <1>6 DEF ContactTyped
  <2> HIDE DEF chosen
  <2> QED
    BY <1>1, <1>6, <2>4, <2>5, FinalStep
<1>7. CASE a = 1 /\ catchAll /\ v = "risky"
  <2> DEFINE hit == Contact!Result(a, v)
             r == [hit EXCEPT !.confidence = 50]
  <2> HIDE DEF hit
  <2>1. r \in Hit /\ r.email = hit.email /\ r.status = hit.status
    BY <1>4 DEF Hit, hit
  <2>2. ~Findable
    BY <1>0, <1>7 DEF Findable, ContactTyped
  <2>3. /\ found' = [found EXCEPT ![j] = Contact!Guessed(j, r)]
        /\ best' = [best EXCEPT ![j] = Contact!NoResult] /\ Contact!Final(j, Contact!Guessed(j, r))
    BY <1>7 DEF Contact!FinderGot, a, v, hit
  <2> HIDE DEF r
  <2>4. Honest(r.email, r.status)
    BY <1>4, <2>1 DEF hit
  <2> QED
    BY <1>6, <2>1, <2>2, <2>3, <2>4
<1>8. CASE v = "valid"
  <2>1. Contact!Result(a, v).status = "valid" /\ Contact!Result(a, v).confidence = 95
    BY <1>0, <1>2, <1>8, Results
  <2>2. /\ found' = [found EXCEPT ![j] = Contact!Guessed(j, Contact!Result(a, v))]
        /\ best' = [best EXCEPT ![j] = Contact!NoResult]
        /\ Contact!Final(j, Contact!Guessed(j, Contact!Result(a, v)))
    BY <1>8 DEF Contact!FinderGot, a, v
  <2> QED
    BY <1>4, <1>6, <2>1, <2>2
<1>9. CASE ~(a = 1 /\ catchAll /\ v = "risky") /\ v # "valid" /\ a + 1 \notin Contact!Candidates
  <2>1. /\ found' = [found EXCEPT ![j] = Contact!Guessed(j, ranked)]
        /\ best' = [best EXCEPT ![j] = Contact!NoResult]
        /\ Contact!Final(j, Contact!Guessed(j, ranked))
    BY <1>9 DEF Contact!FinderGot, a, v, ranked
  <2>2. \A b \in Contact!Pattern : b = a \/ b < a
    BY <1>0, <1>9, CandidatesAssumption DEF Contact!Candidates, Contact!Pattern
  <2>3. ~Findable
    BY <1>3, <1>9, <2>2 DEF Findable
  <2> QED
    BY <1>5, <1>6, <2>1, <2>3
<1>10. CASE ~(a = 1 /\ catchAll /\ v = "risky") /\ v # "valid" /\ a + 1 \in Contact!Candidates
  <2>1. /\ UNCHANGED <<Contact!world, row, cache, kind, loaded, verdict, found, phone, stage, sent, missed, overlapped>>
        /\ best' = [best EXCEPT ![j] = ranked] /\ asked' = [asked EXCEPT ![j] = a + 1]
        /\ pc' = [pc EXCEPT ![j] = "verify"]
    BY <1>1, <1>10 DEF Contact!FinderGot, Contact!Goto, a, v, ranked, Contact!job
  <2>2. a + 1 \in Contact!Pattern /\ a + 1 \in Contact!Address
    BY <1>10 DEF Contact!Candidates, Contact!Pattern, Contact!Address
  <2>3. /\ Only(j) /\ best'[j] = ranked /\ asked'[j] = a + 1 /\ pc'[j] = "verify"
        /\ stage'[j] = "finder"
        /\ found'[j] = found[j]
    BY <1>0, <1>1, <2>1 DEF Only, ContactTyped
  <2>4. ContactTyped'
    <3>1. best' \in [Job -> Hit] /\ asked' \in [Job -> Contact!Address \cup {Contact!NoAddress}]
      BY <1>0, <1>5, <2>1, <2>2 DEF ContactTyped
    <3>2. pc' \in [Job -> {"idle", "search", "find", "verify", "wait", "got", "save"}]
      BY <1>0, <2>1 DEF ContactTyped
    <3> QED
      BY <1>0, <2>1, <3>1, <3>2 DEF ContactTyped, Contact!world
  <2>5. missed' \cap Contact!Pattern = {} => \A b \in Contact!Pattern : b < asked'[j] => truth'[b] # "valid"
    <3> SUFFICES ASSUME missed \cap Contact!Pattern = {}, NEW b \in Contact!Pattern, b < a + 1
                 PROVE  truth[b] # "valid"
      BY <2>1, <2>3 DEF Contact!world
    <3>1. b = a \/ b < a
      BY <1>0, Addresses
    <3> QED
      BY <1>3, <1>10, <3>1
  <2>6. JobInv(j)'
    <3>1. Honest(best[j].email, best[j].status)' /\ Honest(found[j].email, found[j].status)'
      BY <1>2, <1>5, <2>1, <2>3 DEF Honest, Contact!world
    <3>2. found'[j].confidence <= 80
      BY <1>2, <2>3
    <3> QED
      BY <2>2, <2>3, <2>5, <3>1, <3>2 DEF JobInv, InHand
  <2>7. Alone'
    BY <1>0, <1>1, <2>1, <2>3, AloneStays DEF InHand
  <2> QED
    BY <2>1, <2>3, <2>4, <2>6, <2>7, JobStep
<1> QED
  BY <1>7, <1>8, <1>9, <1>10

\* The final verdict on what has been found.
LEMMA FinalGotStep ==
    ASSUME ContactInv, NEW j \in Job, Contact!FinalGot(j)
    PROVE  ContactInv'
<1> DEFINE hit == found[j]
           v == verdict[j]
           new == [hit EXCEPT !.status = v, !.confidence = IF v = "valid" THEN 95 ELSE @]
<1>0. ContactTyped /\ Alone /\ JobInv(j) /\ asked[j] \in Contact!Address
  BY Verifying DEF Contact!FinalGot, InHand
<1>1. /\ pc[j] = "got" /\ stage[j] = "final" /\ found' = [found EXCEPT ![j] = new]
      /\ UNCHANGED <<Contact!world, row, cache, kind, loaded, asked, verdict, best, phone, stage, sent, missed, overlapped>>
      /\ pc' = [pc EXCEPT ![j] = "save"]
  BY <1>0 DEF Contact!FinalGot, Contact!Goto, Contact!job, ContactTyped
<1>2. /\ Right(v, asked[j]) /\ asked[j] = hit.email /\ hit.status = "none" /\ hit \in Hit
      /\ Findable => Good(hit)
  BY <1>0, <1>1 DEF JobInv, InHand, ContactTyped
<1>3. v \in Contact!Verdict /\ v # "none"
  BY <1>0, <1>2 DEF Right, ContactTyped, Contact!Verdict, Contact!Decisive
<1> HIDE DEF hit, v
<1>4. /\ new \in Hit /\ new.email = asked[j] /\ new.status = v
      /\ new.confidence = IF v = "valid" THEN 95 ELSE hit.confidence
  BY <1>2, <1>3 DEF Hit
<1> HIDE DEF new
<1>5. Honest(new.email, new.status) /\ (Findable => Good(new))
  <2>1. Honest(new.email, new.status)
    BY <1>0, <1>2, <1>4, Decides
  <2>2. Findable => hit.confidence = 80
    BY <1>2 DEF Good
  <2> QED
    BY <1>4, <2>1, <2>2 DEF Good
<1>6. Only(j) /\ found'[j] = new /\ pc'[j] = "save" /\ best'[j] = best[j]
  BY <1>0, <1>1 DEF Only, ContactTyped
<1>7. ContactTyped'
  <2>1. /\ found' \in [Job -> Hit]
        /\ pc' \in [Job -> {"idle", "search", "find", "verify", "wait", "got", "save"}]
    BY <1>0, <1>1, <1>4 DEF ContactTyped
  <2> QED
    BY <1>0, <1>1, <2>1 DEF ContactTyped, Contact!world
<1>8. JobInv(j)'
  <2>1. Findable' => Good(found'[j])
    BY <1>1, <1>5, <1>6 DEF Findable, Contact!world
  <2>2. Honest(best[j].email, best[j].status)' /\ Honest(found[j].email, found[j].status)'
    BY <1>0, <1>1, <1>5, <1>6 DEF JobInv, Honest, Contact!world
  <2> QED
    BY <1>3, <1>4, <1>6, <2>1, <2>2 DEF JobInv, InHand, Good
<1>9. Alone'
  BY <1>0, <1>1, <1>6, AloneStays DEF InHand
<1> QED
  BY <1>1, <1>6, <1>7, <1>8, <1>9, JobStep

\* A job writes what it makes of the row, and lets go of it.
LEMMA WroteStep ==
    ASSUME ContactInv, NEW j \in Job, pc[j] # "idle",
           NEW email \in Contact!Address \cup {Contact!NoAddress}, NEW status,
           Contact!Forget(j), row'.email \in {row.email, email},
           UNCHANGED <<Contact!world, cache, missed, overlapped>>,
           \A a \in sent' \ sent : truth[a] = "invalid" => a \in missed',
           Honest(email, status),
           ~overlapped => \/ row'.email = row.email /\ row'.status = row.status
                          \/ row'.email = email /\ row'.status = status
    PROVE  ContactInv'
<1>0. ContactTyped /\ Alone /\ JobInv(j)
  BY DEF ContactInv
<1>1. /\ UNCHANGED <<Contact!world, cache, missed, overlapped>>
      /\ pc' = [pc EXCEPT ![j] = "idle"] /\ kind' = [kind EXCEPT ![j] = "none"]
      /\ loaded' = [loaded EXCEPT ![j] = Contact!NoRow]
      /\ asked' = [asked EXCEPT ![j] = Contact!NoAddress]
      /\ verdict' = [verdict EXCEPT ![j] = "none"]
      /\ found' = [found EXCEPT ![j] = Contact!NoResult]
      /\ best' = [best EXCEPT ![j] = Contact!NoResult] /\ phone' = [phone EXCEPT ![j] = FALSE]
      /\ stage' = [stage EXCEPT ![j] = "none"]
  BY DEF Contact!Forget, Contact!Goto
<1>2. /\ Only(j) /\ pc'[j] = "idle" /\ found'[j] = Contact!NoResult /\ best'[j] = Contact!NoResult
  BY <1>0, <1>1 DEF Only, ContactTyped
<1>3. ContactTyped'
  <2>1. /\ pc' \in [Job -> {"idle", "search", "find", "verify", "wait", "got", "save"}]
        /\ kind' \in [Job -> Contact!Kind \cup {"none"}]
        /\ stage' \in [Job -> {"none", "check", "finder", "final"}]
        /\ verdict' \in [Job -> Contact!Verdict \cup {"none"}]
    BY <1>0, <1>1 DEF ContactTyped
  <2>2. /\ asked' \in [Job -> Contact!Address \cup {Contact!NoAddress}]
        /\ phone' \in [Job -> BOOLEAN]
        /\ found' \in [Job -> Hit] /\ best' \in [Job -> Hit]
    BY <1>0, <1>1, Nobody DEF ContactTyped
  <2>3. Contact!NoRow.email = Contact!NoAddress
    BY DEF Contact!NoRow
  <2>4. /\ DOMAIN loaded' = Job
        /\ \A i \in Job : loaded'[i].email \in Contact!Address \cup {Contact!NoAddress}
    BY <1>0, <1>1, <2>3 DEF ContactTyped
  <2>5. row'.email \in Contact!Address \cup {Contact!NoAddress}
    BY <1>0 DEF ContactTyped
  <2> QED
    BY <1>0, <1>1, <2>1, <2>2, <2>4, <2>5 DEF ContactTyped, Contact!world
<1>4. JobInv(j)'
  BY <1>2, Nobody DEF JobInv, InHand, Honest, Contact!Decisive
<1>5. Alone'
  <2> SUFFICES ASSUME ~overlapped' PROVE Alone'
    BY DEF Alone
  <2>1. ~overlapped
    BY <1>1
  <2>2. \A i \in Job : pc'[i] = "idle"
    BY <1>0, <1>2, <2>1 DEF Alone, Only
  <2>3. Honest(row.email, row.status)'
    BY <1>0, <1>1, <2>1 DEF Alone, Honest, Contact!world
  <2> QED
    BY <2>2, <2>3 DEF Alone
<1> QED
  BY <1>1, <1>2, <1>3, <1>4, <1>5, JobStep

\* Only what differs from what was loaded is written.
LEMMA Written ==
    ASSUME NEW j \in Job, NEW new, NEW checked, Contact!Write(j, new, checked)
    PROVE  /\ row'.email = IF new.email # loaded[j].email THEN new.email ELSE row.email
           /\ row'.status = IF new.status # loaded[j].status THEN new.status ELSE row.status
BY DEF Contact!Write, Contact!Column

LEMMA SaveStep ==
    ASSUME ContactInv, NEW j \in Job, Contact!Save(j)
    PROVE  ContactInv'
<1> DEFINE r == found[j]
           old == loaded[j]
           new == [old EXCEPT !.email = r.email, !.confidence = r.confidence,
                              !.status = IF r.status = "none" THEN @ ELSE r.status]
<1>0. ContactTyped /\ Alone /\ JobInv(j)
  BY DEF ContactInv
<1>1. /\ pc[j] = "save" /\ Contact!Forget(j)
      /\ UNCHANGED <<Contact!world, cache, Contact!circuit, sent, missed, overlapped, Contact!bounds>>
  BY DEF Contact!Save
<1>2. /\ r.email \in Contact!Address \cup {Contact!NoAddress} /\ Honest(r.email, r.status)
      /\ r.email # Contact!NoAddress => r.status # "none"
      /\ ~overlapped => old.email = row.email /\ old.status = row.status
  BY <1>0, <1>1, HitFields DEF JobInv, Alone, ContactTyped
<1>3. CASE r.email # Contact!NoAddress /\ r.confidence >= old.confidence
  <2>1. Contact!Write(j, new, r.status # "none")
    BY <1>3 DEF Contact!Save
  <2>2. new.email = r.email /\ new.status = r.status
    BY <1>2, <1>3
  <2> HIDE DEF new, old, r
  <2>3. /\ row'.email = IF r.email # old.email THEN r.email ELSE row.email
        /\ row'.status = IF r.status # old.status THEN r.status ELSE row.status
    BY <2>1, <2>2, Written DEF old
  <2>4. row'.email \in {row.email, r.email}
    BY <2>3
  <2>5. ~overlapped => row'.email = r.email /\ row'.status = r.status
    BY <1>2, <2>3
  <2> QED
    BY <1>1, <1>2, <2>4, <2>5, WroteStep
<1>4. CASE ~(r.email # Contact!NoAddress /\ r.confidence >= old.confidence)
  <2>1. UNCHANGED row
    BY <1>4 DEF Contact!Save
  <2> QED
    BY <1>1, <1>2, <2>1, WroteStep
<1> QED
  BY <1>3, <1>4

LEMMA CheckStep ==
    ASSUME ContactInv, NEW j \in Job, Contact!CheckGot(j)
    PROVE  ContactInv'
<1> DEFINE v == verdict[j]
           old == loaded[j]
           Raised(c) == IF kind[j] = "reverify" /\ v = "valid" /\ c < 95 THEN 95 ELSE c
           new == [old EXCEPT !.status = v, !.confidence = Raised(@)]
<1>0. ContactTyped /\ Alone /\ JobInv(j) /\ asked[j] \in Contact!Address
  BY Verifying DEF Contact!CheckGot, InHand
<1>1. /\ pc[j] = "got" /\ stage[j] = "check" /\ Contact!Forget(j) /\ Contact!Write(j, new, TRUE)
      /\ UNCHANGED <<Contact!world, cache, missed, overlapped>>
      /\ sent' = sent \/ (sent' = sent \cup {asked[j]} /\ v # "invalid")
  BY DEF Contact!CheckGot, Contact!MaySend
<1>2. /\ Right(v, asked[j])
      /\ ~overlapped => old.email = row.email /\ old.status = row.status /\ asked[j] = row.email
  BY <1>0, <1>1 DEF JobInv, Alone, InHand
<1>3. new.email = old.email /\ new.status = v
  OBVIOUS
<1> HIDE DEF v, old, new
<1>4. /\ row'.email = IF old.email # old.email THEN old.email ELSE row.email
      /\ row'.status = IF v # old.status THEN v ELSE row.status
  BY <1>1, <1>3, Written DEF old
<1>5. Honest(asked[j], v) /\ \A a \in sent' \ sent : truth[a] = "invalid" => a \in missed'
  BY <1>0, <1>1, <1>2, Decides
<1>6. row'.email \in {row.email, asked[j]}
  BY <1>4
<1>7. ~overlapped => row'.email = asked[j] /\ row'.status = v
  BY <1>2, <1>4
<1> QED
  BY <1>0, <1>1, <1>5, <1>6, <1>7, WroteStep

LEMMA ContactStep == ContactInv /\ [Contact!Next]_Contact!vars => ContactInv'
<1> SUFFICES ASSUME ContactInv, [Contact!Next]_Contact!vars PROVE ContactInv'
  OBVIOUS
<1>0. ContactTyped /\ Alone
  BY DEF ContactInv
\* Nobody's work is touched.
<1>1. ASSUME UNCHANGED <<Contact!world, cache, pc, kind, loaded, asked, verdict, found, best, phone, stage, sent, missed, overlapped>>,
             row'.email = row.email, row'.status = row.status
      PROVE  ContactInv'
  <2>1. ContactTyped'
    BY <1>0, <1>1 DEF ContactTyped, Contact!world
  <2>2. \A i \in Job : JobInv(i)'
    BY <1>1, OtherJob DEF ContactInv, Contact!world
  <2>3. Alone'
    BY <1>0, <1>1 DEF Alone, Honest, Contact!world
  <2>4. (\A a \in Contact!Address : cache[a] = "none" \/ Right(cache[a], a))' /\ Contact!InvalidNotSent'
    BY <1>1 DEF ContactInv, Contact!InvalidNotSent, Right, Contact!world
  <2> QED
    BY <2>1, <2>2, <2>3, <2>4 DEF ContactInv
<1>2. CASE UNCHANGED Contact!vars
  BY <1>1, <1>2 DEF Contact!vars, Contact!job, Contact!finder
<1>3. CASE Contact!CircuitCloses
  BY <1>1, <1>3 DEF Contact!CircuitCloses, Contact!job, Contact!finder
<1>4. CASE Contact!CoolDownEnds
  <2> DEFINE old == row
  <2>1. row' = [old EXCEPT !.recent = FALSE]
    BY <1>4 DEF Contact!CoolDownEnds
  <2>2. row'.email = row.email /\ row'.status = row.status
    BY <2>1
  <2> QED
    BY <1>1, <1>4, <2>2 DEF Contact!CoolDownEnds, Contact!job, Contact!finder
<1>5. ASSUME NEW j \in Job, Contact!Waterfall(j) PROVE ContactInv'
  BY <1>5, SearchStep, FindStep, FinderStep, FinalGotStep, SaveStep DEF Contact!Waterfall
<1> QED
  BY <1>2, <1>3, <1>4, <1>5, StartStep, VerificationStep, CheckStep DEF Contact!Next

LEMMA ContactHolds == ContactInv => Contact!AddressesHold
<1> SUFFICES ASSUME ContactInv PROVE Contact!AddressesHold
  OBVIOUS
<1>1. Contact!VerdictIsOfEmail
  BY DEF ContactInv, Alone, Honest, Contact!VerdictIsOfEmail
<1>2. Contact!ValidIsFound
  <2> SUFFICES ASSUME NEW j \in Job, pc[j] = "save", missed \cap Contact!Pattern = {},
                      \E a \in Contact!Pattern : truth[a] = "valid"
               PROVE  truth[found[j].email] = "valid" \/ found[j].confidence = 80
    BY DEF Contact!ValidIsFound
  <2>1. Good(found[j]) /\ Honest(found[j].email, found[j].status)
    BY DEF ContactInv, JobInv, Findable
  <2> QED
    BY <2>1 DEF Good, Honest, Contact!Decisive
<1> QED
  BY <1>1, <1>2 DEF ContactInv, Contact!AddressesHold

\* The status of a contact is the verdict on its address while its jobs do not overlap, an
\* address known to be invalid is not written to, and a valid candidate is found.
THEOREM AddressesSafe == Contact!Spec => []Contact!AddressesHold
BY ContactInit, ContactStep, ContactHolds, PTL DEF Contact!Spec

-----------------------------------------------------------------------------
(* The whole.  Whichever component is at work, each keeps its invariant. *)

\* A tenant keeps an owner, however many members and requests there are (Members).
THEOREM TenantKeepsOwner == Spec => []OwnerStays
<1>1. Init => OwnerInv
  BY OwnerInit DEF Init
<1>2. OwnerInv /\ [Next]_vars => OwnerInv'
  BY OwnerStep, OnItsOwn
<1>3. OwnerInv => OwnerStays
  BY DEF OwnerInv, OwnerStays
<1> QED
  BY <1>1, <1>2, <1>3, PTL DEF Spec

\* The code that was mailed last is the one that is stored (Registration).
THEOREM TenantKeepsCode == Spec => []NewestCodeStands
<1>1. Init => CodeInv
  BY CodeInit DEF Init
<1>2. CodeInv /\ [Next]_vars => CodeInv'
  BY CodeStep, OnItsOwn
<1>3. CodeInv => NewestCodeStands
  BY DEF CodeInv, Accounted, NewestCodeStands, Registered!NewestCodeStands
<1> QED
  BY <1>1, <1>2, <1>3, PTL DEF Spec

\* One mailbox is the default, mail is on when one is enabled, and one that is shown as
\* verified was tested, however requests that each write the whole list overlap (Mailboxes).
THEOREM TenantMailboxesAgree == Spec => []MailboxesAgree
<1>1. Init => MailInv
  BY MailInit DEF Init
<1>2. MailInv /\ [Next]_vars => MailInv'
  BY MailStep, OnItsOwn
<1>3. MailInv => MailboxesAgree
  BY MailHolds DEF MailboxesAgree
<1> QED
  BY <1>1, <1>2, <1>3, PTL DEF Spec

\* The graph has every contact up to a cursor that syncs have set, the edges to contacts of
\* one account alone are in its pooling, nobody is there twice, and the stored token is one
\* the provider accepts - for any number of accounts, shared edges, syncs and imports -
\* unless pooling was switched, a contact looked up, or a commit lost meanwhile (NetworkSync).
THEOREM TenantGraphHolds == Spec => []GraphHolds
<1>1. Init => NetworkInv
  BY NetworkInit DEF Init
<1>2. NetworkInv /\ [Next]_vars => NetworkInv'
  BY NetworkStep, OnItsOwn
<1>3. NetworkInv => GraphHolds
  BY NetworkHolds DEF GraphHolds
<1> QED
  BY <1>1, <1>2, <1>3, PTL DEF Spec

\* The status of a contact is the verdict on its address, an invalid address is not written
\* to, and a valid one is found, for any number of jobs, candidates, calls and failures
\* (ContactEmail).
THEOREM TenantAddressesHold == Spec => []AddressesHold
<1>1. Init => ContactInv
  BY ContactInit DEF Init
<1>2. ContactInv /\ [Next]_vars => ContactInv'
  BY ContactStep, OnItsOwn
<1>3. ContactInv => AddressesHold
  BY ContactHolds DEF AddressesHold
<1> QED
  BY <1>1, <1>2, <1>3, PTL DEF Spec
=============================================================================

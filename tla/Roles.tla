------------------------------- MODULE Roles -------------------------------
(***************************************************************************)
(* Who may do what: the role and the recorded consent of each User row, as *)
(* sign-in (apps/web/src/auth.ts, apps/console/src/auth.ts), registration, *)
(* the artist upgrade, the operators' role changes with their audit log    *)
(* and account deletion write them. A session carries no role of its own:  *)
(* every request reads it from the row.                                    *)
(*                                                                         *)
(* How an address is verified, and who may sign in to it, is Accounts.     *)
(***************************************************************************)
EXTENDS Integers, FiniteSets

CONSTANTS
  Addresses,          \* e-mail addresses, lower case
  Designated,         \* the storefront's bootstrap operators
  ConsoleDesignated,  \* the console's own, longer list
  Requests,           \* request handlers that may run at once
  Assigned,           \* the roles operators hand out
  MaxUsers,           \* bound: User rows ever created for an address ...
  MaxRows,            \* ... and for all of them together
  MaxChanges,         \* bound: different rows in the audit log
  MaxFaults           \* bound: handlers cut short

ASSUME RolesAssumption ==
  /\ Designated \subseteq ConsoleDesignated
  /\ ConsoleDesignated \subseteq Addresses
  /\ Assigned \subseteq {"COLLECTOR", "ARTIST", "OPERATOR"}
  /\ MaxUsers \in Nat

VARIABLES
  user,     \* the User row of each address, with the number of rows so far
  audit,    \* operator-role-audit.jsonl, whose order nothing reads
  request,  \* each handler: where it is, and what it holds
  faults    \* handlers cut short so far

vars == <<user, audit, request, faults>>

Roles == {"COLLECTOR", "ARTIST", "OPERATOR"}

UserId == [address : Addresses, n : 0 .. MaxUsers]
NoUser == [address |-> "nobody", n |-> 0]

AuditRow == [by : UserId, target : UserId, role : Roles]

\* What a handler awaits next. The role is the one it will write, or none.
Steps == {"idle", "readTarget", "setRole", "audit", "syncRole", "syncArtist",
          "joinArtists", "becomeArtist", "insert", "welcome", "stamp",
          "findListed", "promote"}

At(step, by, target, role) == [at |-> step, by |-> by, target |-> target, role |-> role]

Idle == At("idle", NoUser, NoUser, "none")

Init ==
  /\ user = [a \in Addresses |-> [n |-> 0, role |-> "absent"]]
  /\ audit = {}
  /\ request = [r \in Requests |-> Idle]
  /\ faults = 0

Goto(r, state) == request' = [request EXCEPT ![r] = state]

Exists(a) == user[a].role # "absent"
IdOf(a) == [address |-> a, n |-> user[a].n]

\* The row a handler remembers by id is still the row of its address.
Present(id) == Exists(id.address) /\ IdOf(id.address) = id

RoomFor(a) ==
  /\ user[a].n < MaxUsers
  /\ Cardinality({id \in UserId : id.n \in 1 .. user[id.address].n}) < MaxRows

Created(a, role) == [user EXCEPT ![a] = [n |-> user[a].n + 1, role |-> role]]

\* prisma.user.update by id: it throws, and writes nothing, without the row.
Updated(id, role) ==
  IF Present(id) THEN [user EXCEPT ![id.address].role = role] ELSE user

\* ensureBootstrapOperatorRoleByEmail of the storefront: one updateMany.
Synced(a) ==
  IF a \in Designated /\ Exists(a)
  THEN [user EXCEPT ![a].role = "OPERATOR"]
  ELSE user

-----------------------------------------------------------------------------
(* Signing in to the storefront. *)

\* Credentials: the signIn callback.
SignInWithPassword(a) ==
  /\ Exists(a)
  /\ user' = Synced(a)
  /\ UNCHANGED <<audit, request, faults>>

\* OAuth, the signIn callback: the consent cookie says as what the visitor
\* wants to join, if there is one, and the row is read. A new visitor without
\* consent is turned away; a collector who wants to join as an artist will be
\* one ("syncArtist").
OAuthSignIn(r, a, wish) ==
  /\ request[r] = Idle
  /\ Exists(a) \/ wish # "none"
  /\ Goto(r, At(IF ~Exists(a) THEN "insert"
                ELSE IF wish = "ARTIST" /\ user[a].role = "COLLECTOR" THEN "syncArtist"
                ELSE "syncRole",
                NoUser, IdOf(a), wish))
  /\ UNCHANGED <<user, audit, faults>>

\* The designated operator is promoted; what was read before stays decided.
SyncRole(r) ==
  /\ request[r].at \in {"syncRole", "syncArtist"}
  /\ user' = Synced(request[r].target.address)
  /\ Goto(r, [request[r] EXCEPT !.at = IF @ = "syncRole" THEN "insert" ELSE "joinArtists"])
  /\ UNCHANGED <<audit, faults>>

\* The update of the callback, which throws without the row, or the one of the
\* artist upgrade.
BecomeArtist(r) ==
  /\ request[r].at \in {"joinArtists", "becomeArtist"}
  /\ user' = Updated(request[r].target, "ARTIST")
  /\ Goto(r, IF request[r].at = "joinArtists" /\ Present(request[r].target)
             THEN [request[r] EXCEPT !.at = "insert"]
             ELSE Idle)
  /\ UNCHANGED <<audit, faults>>

\* The adapter finds the row, and the sign-in is over, or inserts one: for who
\* was new to the callback, and for who has deleted the account since.
InsertUser(r) ==
  LET a == request[r].target.address IN
  /\ request[r].at = "insert"
  /\ IF Exists(a)
     THEN Goto(r, Idle) /\ UNCHANGED user
     ELSE /\ RoomFor(a)
          /\ user' = Created(a, "COLLECTOR")
          /\ Goto(r, At("welcome", NoUser, [address |-> a, n |-> user[a].n + 1], request[r].role))
  /\ UNCHANGED <<audit, faults>>

\* events.createUser: first the designated operator, and nothing more without
\* the cookie ...
Welcome(r) ==
  /\ request[r].at = "welcome"
  /\ user' = Synced(request[r].target.address)
  /\ Goto(r, IF request[r].role = "none" THEN Idle ELSE [request[r] EXCEPT !.at = "stamp"])
  /\ UNCHANGED <<audit, faults>>

\* ... then the role that was asked for, with the consent.
StampConsent(r) ==
  /\ request[r].at = "stamp"
  /\ user' = Updated(request[r].target, request[r].role)
  /\ Goto(r, Idle)
  /\ UNCHANGED <<audit, faults>>

-----------------------------------------------------------------------------
(* The other ways an account begins, changes itself and ends. *)

\* POST /api/auth/register: one transaction.
Register(a, role) ==
  /\ ~Exists(a)
  /\ RoomFor(a)
  /\ user' = Created(a, role)
  /\ UNCHANGED <<audit, request, faults>>

\* Google on a phone: an upsert that leaves the role of a row it finds.
GoogleOnPhone(a) ==
  /\ ~Exists(a)
  /\ RoomFor(a)
  /\ user' = Created(a, "COLLECTOR")
  /\ UNCHANGED <<audit, request, faults>>

\* POST /api/auth/artist-upgrade, up to its update.
ArtistUpgrade(r, a) ==
  /\ request[r] = Idle
  /\ user[a].role = "COLLECTOR"
  /\ Goto(r, At("becomeArtist", NoUser, IdOf(a), "ARTIST"))
  /\ UNCHANGED <<user, audit, faults>>

\* POST /api/account/delete.
DeleteAccount(a) ==
  /\ Exists(a)
  /\ user' = [user EXCEPT ![a].role = "absent"]
  /\ UNCHANGED <<audit, request, faults>>

-----------------------------------------------------------------------------
(* Signing in to the console. *)

\* Google: an upsert, for whoever comes; the console is closed to others later.
ConsoleSignIn(r, a) ==
  /\ request[r] = Idle
  /\ Exists(a) \/ RoomFor(a)
  /\ user' = IF Exists(a) THEN user ELSE Created(a, "COLLECTOR")
  /\ Goto(r, IF a \in ConsoleDesignated THEN At("findListed", NoUser, IdOf(a), "none") ELSE Idle)
  /\ UNCHANGED <<audit, faults>>

\* The jwt callback, at every request of a console session.
ConsoleSession(r, a) ==
  /\ request[r] = Idle
  /\ a \in ConsoleDesignated
  /\ user[a].role \in Roles \ {"OPERATOR"}
  /\ Goto(r, At("findListed", NoUser, IdOf(a), "none"))
  /\ UNCHANGED <<user, audit, faults>>

\* The console's ensureBootstrapOperatorRoleByEmail finds the row ...
FindListed(r) ==
  LET a == request[r].target.address IN
  /\ request[r].at = "findListed"
  /\ Goto(r, IF user[a].role \in Roles \ {"OPERATOR"}
             THEN At("promote", NoUser, IdOf(a), "OPERATOR")
             ELSE Idle)
  /\ UNCHANGED <<user, audit, faults>>

\* ... and updates it by id.
Promote(r) ==
  /\ request[r].at = "promote"
  /\ user' = Updated(request[r].target, "OPERATOR")
  /\ Goto(r, Idle)
  /\ UNCHANGED <<audit, faults>>

-----------------------------------------------------------------------------
(* POST /api/operator/staff-role and /api/operator/users/[id]/role. *)

\* The session of an operator.
BeginChange(r, a, target, role) ==
  /\ request[r] = Idle
  /\ user[a].role = "OPERATOR"
  /\ Goto(r, At("readTarget", IdOf(a), [address |-> target, n |-> 0], role))
  /\ UNCHANGED <<user, audit, faults>>

\* Nothing to change is fine, and not logged; self_guard is a refusal.
MayChange(by, target, role) ==
  /\ user[target.address].role # role
  /\ target = by => role = "OPERATOR"

ReadTarget(r) ==
  LET target == IdOf(request[r].target.address) IN
  /\ request[r].at = "readTarget"
  /\ Goto(r, IF Present(target) /\ MayChange(request[r].by, target, request[r].role)
             THEN [request[r] EXCEPT !.at = "setRole", !.target = target]
             ELSE Idle)
  /\ UNCHANGED <<user, audit, faults>>

\* Mutation: only demotions are logged.
AfterChange_DemotionsOnly(r) ==
  IF request[r].role = "OPERATOR" THEN Idle ELSE [request[r] EXCEPT !.at = "audit"]

AfterChange(r) == [request[r] EXCEPT !.at = "audit"]

SetRole(r) ==
  /\ request[r].at = "setRole"
  /\ user' = Updated(request[r].target, request[r].role)
  /\ Goto(r, IF Present(request[r].target) THEN AfterChange(r) ELSE Idle)
  /\ UNCHANGED <<audit, faults>>

\* Mutation: the row does not say who made the change.
Logged_NoActor(r) ==
  [by |-> NoUser, target |-> request[r].target, role |-> request[r].role]

Logged(r) ==
  [by |-> request[r].by, target |-> request[r].target, role |-> request[r].role]

\* appendOperatorRoleAudit.
AppendAudit(r) ==
  /\ request[r].at = "audit"
  /\ Logged(r) \in audit \/ Cardinality(audit) < MaxChanges
  /\ audit' = audit \cup {Logged(r)}
  /\ Goto(r, Idle)
  /\ UNCHANGED <<user, faults>>

-----------------------------------------------------------------------------
\* A handler dies, a write of it fails, or, in createUser, the fifteen minutes
\* of the consent cookie are over.
CutShort(r) ==
  /\ request[r] # Idle
  /\ faults < MaxFaults
  /\ faults' = faults + 1
  /\ Goto(r, Idle)
  /\ UNCHANGED <<user, audit>>

Continue(r) ==
  \/ SyncRole(r) \/ BecomeArtist(r)
  \/ InsertUser(r) \/ Welcome(r) \/ StampConsent(r)
  \/ FindListed(r) \/ Promote(r)
  \/ ReadTarget(r) \/ SetRole(r) \/ AppendAudit(r)

Next ==
  \/ \E a \in Addresses : SignInWithPassword(a)
  \/ \E r \in Requests, a \in Addresses, wish \in {"none", "COLLECTOR", "ARTIST"} :
       OAuthSignIn(r, a, wish)
  \/ \E a \in Addresses, role \in {"COLLECTOR", "ARTIST"} : Register(a, role)
  \/ \E a \in Addresses : GoogleOnPhone(a)
  \/ \E r \in Requests, a \in Addresses :
       ArtistUpgrade(r, a) \/ ConsoleSignIn(r, a) \/ ConsoleSession(r, a)
  \/ \E a \in Addresses : DeleteAccount(a)
  \/ \E r \in Requests, a, target \in Addresses, role \in Assigned : BeginChange(r, a, target, role)
  \/ \E r \in Requests : Continue(r)
  \/ \E r \in Requests : CutShort(r)

Spec == Init /\ [][Next]_vars

-----------------------------------------------------------------------------
(* Properties. *)

\* Rows, audit rows and handlers have their types; no audit row is without the
\* operator and the user it is about.
TypeOK ==
  /\ user \in [Addresses -> [n : 0 .. MaxUsers, role : Roles \cup {"absent"}]]
  /\ audit \subseteq AuditRow
  /\ request \in [Requests -> [at : Steps, by : UserId \cup {NoUser},
                               target : UserId \cup {NoUser}, role : Roles \cup {"none"}]]
  /\ faults \in Nat

\* Every grant of operator power that is in the log, or about to be.
Grants ==
  {row \in audit : row.role = "OPERATOR"}
    \cup {Logged(r) : r \in {q \in Requests : request[q].at = "audit" /\ request[q].role = "OPERATOR"}}

Operators == {IdOf(a) : a \in {b \in Addresses : user[b].role = "OPERATOR"}}

IsDesignated(id) == id.address \in ConsoleDesignated

\* Rows are numbered from 1.
Ordinary == {id \in UserId : id.n > 0 /\ ~IsDesignated(id)}

\* "all changes are audit-logged" (staff-role/route.ts), "to keep post-hoc
\* traceability" (operatorRoleAudit.ts). The log is written after the role, and
\* a handler cut short in between leaves a user whose power nothing explains.
\* That is the only way: but for at most one user per handler cut short, the log
\* leads from every operator, grant by grant, to a designated address.
PowerIsTraceable ==
  LET grants == Grants
      operators == Operators
      Explained(group) ==
        group \cap operators # {}
          => \E grant \in grants : grant.target \in group /\ grant.by \notin group
  IN  \E unlogged \in SUBSET Ordinary :
        /\ Cardinality(unlogged) <= faults
        /\ \A group \in SUBSET (Ordinary \ unlogged) : Explained(group)

\* "Designated operator emails are synchronized to OPERATOR in the DB at
\* sign-in" (auth.ts): a first sign-in leaves them operators.
DesignatedAfterSignIn ==
  [][\A r \in Requests :
       /\ StampConsent(r)
       /\ request[r].target.address \in Designated
       /\ Present(request[r].target)
       => user'[request[r].target.address].role = "OPERATOR"]_vars
=============================================================================

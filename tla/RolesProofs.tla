---------------------------- MODULE RolesProofs ----------------------------
(***************************************************************************)
(* What is proved of Roles, for any addresses, lists of designated ones,   *)
(* number of request handlers and bounds.                                  *)
(***************************************************************************)
EXTENDS Roles, TLAPS, FiniteSetTheorems

UserType == [n : 0 .. MaxUsers, role : Roles \cup {"absent"}]
RequestType == [at : Steps, by : UserId \cup {NoUser},
                target : UserId \cup {NoUser}, role : Roles \cup {"none"}]

Joining == {"syncRole", "syncArtist", "joinArtists", "insert", "welcome", "stamp"}
Changing == {"readTarget", "setRole", "audit"}

\* What a handler holds fits what it is about to do.
Sane(state) ==
  /\ state.at # "idle" => state.target \in UserId
  /\ state.at \in Joining => state.role \in {"none", "COLLECTOR", "ARTIST"}
  /\ state.at = "stamp" => state.role # "none"
  /\ state.at \in {"findListed", "promote"} => state.target.address \in ConsoleDesignated
  /\ state.at \in Changing => state.by \in UserId /\ state.role \in Roles

AreSane == \A r \in Requests : Sane(request[r])

\* Callers keep what they were when their session was checked.
Callers == {request[r].by : r \in {q \in Requests : request[q].at \in Changing}}
Powered == Operators \cup Callers

\* The log explains all power but that of groups with one of `unlogged` in them.
Traced(unlogged) ==
  \A group \in SUBSET (UserId \ unlogged) :
    /\ group \cap Powered # {}
    /\ \A id \in group : ~IsDesignated(id)
    => \E grant \in Grants : grant.target \in group /\ grant.by \notin group

\* PowerIsTraceable, for those who still act on a role they had as well.
PoweredIsTraceable ==
  \E unlogged \in SUBSET UserId :
    IsFiniteSet(unlogged) /\ Cardinality(unlogged) <= faults /\ Traced(unlogged)

Inv ==
  /\ TypeOK
  /\ AreSane
  /\ PoweredIsTraceable

-----------------------------------------------------------------------------
(* Moving one handler, and changing one row. *)

\* The value of a request after Goto, for the handler that moves and the others.
LEMMA GotoMoves ==
  ASSUME TypeOK, NEW r \in Requests, NEW state, Goto(r, state)
  PROVE  /\ request'[r] = state
         /\ \A q \in Requests \ {r} : request'[q] = request[q]
BY DEF TypeOK, Goto

LEMMA RequestStaysTyped ==
  ASSUME TypeOK, NEW r \in Requests, NEW state \in RequestType, Goto(r, state)
  PROVE  request' \in [Requests -> RequestType]
BY DEF TypeOK, Goto, RequestType

LEMMA IdleIsFine == Idle \in RequestType /\ Sane(Idle)
BY DEF Idle, At, RequestType, Steps, Sane, Joining, Changing

LEMMA IdTyped ==
  ASSUME TypeOK, NEW a \in Addresses
  PROVE  IdOf(a) \in UserId
BY DEF TypeOK, IdOf, UserId, UserType

\* A role written by id makes nobody else an operator, and renumbers nobody.
LEMMA UpdateIsLocal ==
  ASSUME TypeOK, NEW id \in UserId, NEW role \in Roles, user' = Updated(id, role)
  PROVE  /\ user' \in [Addresses -> UserType]
         /\ \A other \in Operators' : other \in Operators \/ (other = id /\ role = "OPERATOR")
<1>1. id.address \in Addresses /\ user \in [Addresses -> UserType] /\ "absent" \notin Roles
  BY DEF UserId, TypeOK, UserType, Roles
<1>2. CASE Present(id)
  <2>1. user' = [user EXCEPT ![id.address].role = role]
    BY <1>2 DEF Updated
  <2>2. user' \in [Addresses -> UserType]
    BY <1>1, <2>1 DEF UserType
  <2>3. \A a \in Addresses : user'[a].n = user[a].n
    BY <1>1, <2>1 DEF UserType
  <2>4. \A a \in Addresses : a # id.address => user'[a] = user[a]
    BY <1>1, <2>1
  <2>5. user'[id.address].role = role /\ Exists(id.address)
    BY <1>1, <1>2, <2>1 DEF UserType, Present
  <2>7. ASSUME NEW a \in Addresses, user'[a].role = "OPERATOR"
        PROVE  IdOf(a)' \in Operators \/ (IdOf(a)' = id /\ role = "OPERATOR")
    <3>1. IdOf(a)' = IdOf(a)
      BY <2>3 DEF IdOf
    <3>2. CASE a = id.address
      BY <1>2, <2>5, <2>7, <3>1, <3>2 DEF Present
    <3>3. CASE a # id.address
      BY <2>4, <2>7, <3>1, <3>3 DEF Operators
    <3>4. QED
      BY <3>2, <3>3
  <2>8. QED
    BY <2>2, <2>7 DEF Operators
<1>3. CASE ~Present(id)
  BY <1>1, <1>3 DEF Updated, Operators, Exists, IdOf
<1>4. QED
  BY <1>2, <1>3

LEMMA SyncIsLocal ==
  ASSUME TypeOK, NEW a \in Addresses, user' = Synced(a)
  PROVE  /\ user' \in [Addresses -> UserType]
         /\ \A other \in Operators' : other \in Operators \/ IsDesignated(other)
<1>1. user \in [Addresses -> UserType] /\ "absent" \notin Roles /\ "OPERATOR" \in Roles
  BY DEF TypeOK, UserType, Roles
<1>2. CASE a \in Designated /\ Exists(a)
  <2>1. user' = [user EXCEPT ![a].role = "OPERATOR"]
    BY <1>2 DEF Synced
  <2>2. user' \in [Addresses -> UserType]
    BY <1>1, <2>1 DEF UserType
  <2>3. \A b \in Addresses : user'[b].n = user[b].n
    BY <1>1, <2>1 DEF UserType
  <2>4. \A b \in Addresses : b # a => user'[b] = user[b]
    BY <1>1, <2>1
  <2>5. user'[a].role = "OPERATOR"
    BY <1>1, <2>1 DEF UserType
  <2>7. ASSUME NEW b \in Addresses, user'[b].role = "OPERATOR"
        PROVE  IdOf(b)' \in Operators \/ IsDesignated(IdOf(b)')
    <3>1. IdOf(b)' = IdOf(b)
      BY <2>3 DEF IdOf
    <3>2. CASE b = a
      BY <1>2, <3>2, RolesAssumption DEF IsDesignated, IdOf
    <3>3. CASE b # a
      BY <2>4, <2>7, <3>1, <3>3 DEF Operators
    <3>4. QED
      BY <3>2, <3>3
  <2>8. QED
    BY <2>2, <2>7 DEF Operators
<1>3. CASE ~(a \in Designated /\ Exists(a))
  BY <1>1, <1>3 DEF Synced, Operators, Exists, IdOf
<1>4. QED
  BY <1>2, <1>3

\* A new row has a new number, and is nobody's who is an operator.
LEMMA CreateIsLocal ==
  ASSUME TypeOK, NEW a \in Addresses, ~Exists(a), RoomFor(a),
         NEW role \in {"COLLECTOR", "ARTIST"}, user' = Created(a, role)
  PROVE  /\ user' \in [Addresses -> UserType]
         /\ [address |-> a, n |-> user[a].n + 1] \in UserId
         /\ Operators' \subseteq Operators
<1>1. user \in [Addresses -> UserType] /\ user[a].n \in 0 .. MaxUsers
  BY DEF TypeOK, UserType
<1>2. user' = [user EXCEPT ![a] = [n |-> user[a].n + 1, role |-> role]]
  BY DEF Created
<1>3. user[a].n + 1 \in 0 .. MaxUsers
  BY <1>1, RolesAssumption DEF RoomFor
<1>4. [n |-> user[a].n + 1, role |-> role] \in UserType
  BY <1>3 DEF UserType, Roles
<1>5. user' \in [Addresses -> UserType]
  BY <1>1, <1>2, <1>4
<1>6. user'[a] = [n |-> user[a].n + 1, role |-> role] /\ \A b \in Addresses : b # a => user'[b] = user[b]
  BY <1>1, <1>2
<1>7. Operators' \subseteq Operators
  BY <1>6 DEF Operators, IdOf
<1>8. QED
  BY <1>3, <1>5, <1>7 DEF UserId

-----------------------------------------------------------------------------
(* The invariant, part by part. *)

LEMMA AreSaneStays ==
  ASSUME TypeOK, AreSane, NEW r \in Requests, NEW state, Goto(r, state), Sane(state)
  PROVE  AreSane'
BY GotoMoves DEF AreSane

\* A grant that was made stays visible, as long as a handler does not leave its
\* audit row unwritten.
LEMMA GrantsStay ==
  ASSUME TypeOK, NEW r \in Requests, NEW state, Goto(r, state),
         audit \subseteq audit', request[r].at = "audit" => Logged(r) \in audit'
  PROVE  Grants \subseteq Grants'
<1> SUFFICES ASSUME NEW grant \in Grants PROVE grant \in Grants'
  OBVIOUS
<1>1. CASE grant \in audit /\ grant.role = "OPERATOR"
  BY <1>1 DEF Grants
<1>2. CASE \E q \in Requests : request[q].at = "audit" /\ request[q].role = "OPERATOR" /\ grant = Logged(q)
  <2>1. PICK q \in Requests : request[q].at = "audit" /\ request[q].role = "OPERATOR" /\ grant = Logged(q)
    BY <1>2
  <2>2. CASE q = r
    BY <2>1, <2>2 DEF Grants, Logged
  <2>3. CASE q # r
    <3>1. request'[q] = request[q]
      BY <2>3, GotoMoves
    <3>2. QED
      BY <2>1, <3>1 DEF Grants, Logged
  <2>4. QED
    BY <2>2, <2>3
<1>3. QED
  BY <1>1, <1>2 DEF Grants

\* What makes no new power but a designated one's keeps it traceable.
LEMMA TraceStays ==
  ASSUME PoweredIsTraceable, Grants \subseteq Grants', faults' = faults,
         \A id \in Powered' : id \in Powered \/ IsDesignated(id)
  PROVE  PoweredIsTraceable'
<1>1. PICK unlogged \in SUBSET UserId :
        IsFiniteSet(unlogged) /\ Cardinality(unlogged) <= faults /\ Traced(unlogged)
  BY DEF PoweredIsTraceable
<1>2. Traced(unlogged)'
  BY <1>1 DEF Traced, IsDesignated
<1>3. QED
  BY <1>1, <1>2 DEF PoweredIsTraceable

\* A handler that moves without beginning a change adds no caller.
LEMMA CallersMove ==
  ASSUME TypeOK, NEW r \in Requests, NEW state, Goto(r, state),
         state.at \in Changing => state.by \in Powered
  PROVE  Callers' \subseteq Powered
<1> SUFFICES ASSUME NEW q \in Requests, request'[q].at \in Changing
             PROVE  request'[q].by \in Powered
  BY DEF Callers
<1>1. CASE q = r
  BY <1>1, GotoMoves
<1>2. CASE q # r
  BY <1>2, GotoMoves DEF Powered, Callers
<1>3. QED
  BY <1>1, <1>2

\* The two together, for every step that grants nothing.
LEMMA TraceMoves ==
  ASSUME Inv, NEW r \in Requests, NEW state, Goto(r, state),
         state.at \in Changing => state.by \in Powered,
         audit \subseteq audit', faults' = faults,
         request[r].at = "audit" => Logged(r) \in audit',
         \A id \in Operators' : id \in Operators \/ IsDesignated(id)
  PROVE  PoweredIsTraceable'
<1>1. Grants \subseteq Grants'
  BY GrantsStay DEF Inv
<1>2. Callers' \subseteq Powered
  BY CallersMove DEF Inv
<1>3. \A id \in Powered' : id \in Powered \/ IsDesignated(id)
  BY <1>2 DEF Powered
<1>4. QED
  BY <1>1, <1>3, TraceStays DEF Inv

-----------------------------------------------------------------------------
(* Steps that grant nothing. *)

\* A row changes so that no power is new but a designated one's.
Harmless ==
  /\ user' \in [Addresses -> UserType]
  /\ \A id \in Operators' : id \in Operators \/ IsDesignated(id)

LEMMA UnchangedIsHarmless == TypeOK /\ user' = user => Harmless
BY DEF TypeOK, UserType, Harmless, Operators, IdOf

LEMMA UpdateIsHarmless ==
  ASSUME TypeOK, NEW id \in UserId, NEW role \in Roles, user' = Updated(id, role),
         role = "OPERATOR" => IsDesignated(id)
  PROVE  Harmless
BY UpdateIsLocal DEF Harmless

LEMMA SyncIsHarmless ==
  ASSUME TypeOK, NEW a \in Addresses, user' = Synced(a)
  PROVE  Harmless
BY SyncIsLocal DEF Harmless

LEMMA CreateIsHarmless ==
  ASSUME TypeOK, NEW a \in Addresses, ~Exists(a), RoomFor(a),
         NEW role \in {"COLLECTOR", "ARTIST"}, user' = Created(a, role)
  PROVE  Harmless
BY CreateIsLocal DEF Harmless

LEMMA RowKeepsInv ==
  ASSUME Inv, Harmless, UNCHANGED <<audit, request, faults>>
  PROVE  Inv'
<1>1. TypeOK'
  BY DEF Inv, TypeOK, Harmless, UserType
<1>2. AreSane'
  BY DEF Inv, AreSane
<1>3. PoweredIsTraceable'
  <2>1. Grants' = Grants /\ Callers' = Callers
    BY DEF Grants, Callers, Logged
  <2>2. \A id \in Powered' : id \in Powered \/ IsDesignated(id)
    BY <2>1 DEF Powered, Harmless
  <2>3. QED
    BY <2>1, <2>2, TraceStays DEF Inv
<1>4. QED
  BY <1>1, <1>2, <1>3 DEF Inv

LEMMA HandlerKeepsInv ==
  ASSUME Inv, Harmless, NEW r \in Requests, NEW state \in RequestType, Goto(r, state), Sane(state),
         state.at \in Changing => state.by \in Powered,
         request[r].at # "audit",
         UNCHANGED <<audit, faults>>
  PROVE  Inv'
<1>1. TypeOK'
  BY RequestStaysTyped DEF Inv, TypeOK, Harmless, UserType, RequestType
<1>2. AreSane'
  BY AreSaneStays DEF Inv
<1>3. PoweredIsTraceable'
  BY TraceMoves DEF Harmless
<1>4. QED
  BY <1>1, <1>2, <1>3 DEF Inv

\* ... and stops there.
LEMMA HandlerEndKeepsInv ==
  ASSUME Inv, Harmless, NEW r \in Requests, Goto(r, Idle),
         request[r].at # "audit", UNCHANGED <<audit, faults>>
  PROVE  Inv'
<1>1. Idle.at \notin Changing
  BY DEF Idle, At, Changing
<1>2. QED
  BY <1>1, IdleIsFine, HandlerKeepsInv

-----------------------------------------------------------------------------
(* One lemma per action of a handler. *)

\* What a handler holds, by its invariant.
LEMMA Holds ==
  ASSUME Inv, NEW r \in Requests
  PROVE  /\ request[r] \in RequestType
         /\ Sane(request[r])
         /\ request[r].at # "idle" => request[r].target.address \in Addresses
BY DEF Inv, TypeOK, AreSane, RequestType, Sane, UserId

LEMMA OAuthSignInKeepsInv ==
  ASSUME Inv, NEW r \in Requests, NEW a \in Addresses,
         NEW wish \in {"none", "COLLECTOR", "ARTIST"}, OAuthSignIn(r, a, wish)
  PROVE  Inv'
<1>1. Harmless /\ IdOf(a) \in UserId
  BY UnchangedIsHarmless, IdTyped DEF OAuthSignIn, Inv
<1>2. PICK at \in {"insert", "syncArtist", "syncRole"} : Goto(r, At(at, NoUser, IdOf(a), wish))
  BY DEF OAuthSignIn
<1> DEFINE next == At(at, NoUser, IdOf(a), wish)
<1>3. next \in RequestType /\ Sane(next) /\ next.at \notin Changing
  BY <1>1, <1>2 DEF At, RequestType, Sane, Joining, Changing, Steps, Roles
<1>4. request[r].at = "idle" /\ Goto(r, next)
  BY <1>2 DEF OAuthSignIn, Idle, At
<1> HIDE DEF next
<1>5. QED
  BY <1>1, <1>3, <1>4, HandlerKeepsInv DEF OAuthSignIn

\* A sign-in that goes on keeps what it holds.
LEMMA GoesOnFine ==
  ASSUME NEW state \in RequestType, Sane(state), state.at \in Joining \ {"stamp"},
         NEW at \in Joining, at = "stamp" => state.role # "none"
  PROVE  LET next == [state EXCEPT !.at = at]
         IN  next \in RequestType /\ Sane(next) /\ next.at \notin Changing
BY DEF RequestType, Sane, Joining, Changing, Steps

LEMMA SyncRoleKeepsInv ==
  ASSUME Inv, NEW r \in Requests, SyncRole(r)
  PROVE  Inv'
<1> DEFINE at == IF request[r].at = "syncRole" THEN "insert" ELSE "joinArtists"
           next == [request[r] EXCEPT !.at = at]
<1>1. /\ request[r] \in RequestType
      /\ Sane(request[r])
      /\ request[r].at \in {"syncRole", "syncArtist"}
      /\ request[r].target.address \in Addresses
  BY Holds DEF SyncRole
<1>2. Harmless
  BY <1>1, SyncIsHarmless DEF SyncRole, Inv
<1>3. next \in RequestType /\ Sane(next) /\ next.at \notin Changing
  BY <1>1, GoesOnFine DEF Joining
<1>4. Goto(r, next)
  BY DEF SyncRole
<1> HIDE DEF next
<1>5. QED
  BY <1>1, <1>2, <1>3, <1>4, HandlerKeepsInv DEF SyncRole

LEMMA BecomeArtistKeepsInv ==
  ASSUME Inv, NEW r \in Requests, BecomeArtist(r)
  PROVE  Inv'
<1> DEFINE next == [request[r] EXCEPT !.at = "insert"]
<1>1. /\ request[r] \in RequestType
      /\ Sane(request[r])
      /\ request[r].at \in {"joinArtists", "becomeArtist"}
      /\ request[r].target \in UserId
  BY Holds DEF BecomeArtist, Sane
<1>2. Harmless
  BY <1>1, UpdateIsHarmless DEF BecomeArtist, Inv, Roles
<1>3. CASE request[r].at = "joinArtists" /\ Present(request[r].target)
  <2>1. next \in RequestType /\ Sane(next) /\ next.at \notin Changing
    BY <1>1, <1>3, GoesOnFine DEF Joining
  <2>2. Goto(r, next)
    BY <1>3 DEF BecomeArtist
  <2> HIDE DEF next
  <2>3. QED
    BY <1>1, <1>2, <2>1, <2>2, HandlerKeepsInv DEF BecomeArtist
<1>4. CASE ~(request[r].at = "joinArtists" /\ Present(request[r].target))
  BY <1>1, <1>2, <1>4, HandlerEndKeepsInv DEF BecomeArtist
<1>5. QED
  BY <1>3, <1>4

LEMMA StampConsentKeepsInv ==
  ASSUME Inv, NEW r \in Requests, StampConsent(r)
  PROVE  Inv'
<1>1. /\ request[r].at = "stamp"
      /\ request[r].target \in UserId
      /\ request[r].role \in {"COLLECTOR", "ARTIST"}
  BY Holds DEF StampConsent, Sane, Joining
<1>2. Harmless
  BY <1>1, UpdateIsHarmless DEF StampConsent, Inv, Roles
<1>3. QED
  BY <1>1, <1>2, HandlerEndKeepsInv DEF StampConsent

LEMMA WelcomeKeepsInv ==
  ASSUME Inv, NEW r \in Requests, Welcome(r)
  PROVE  Inv'
<1> DEFINE next == [request[r] EXCEPT !.at = "stamp"]
<1>1. /\ request[r] \in RequestType
      /\ Sane(request[r])
      /\ request[r].at = "welcome"
      /\ request[r].target.address \in Addresses
  BY Holds DEF Welcome
<1>2. Harmless
  BY <1>1, SyncIsHarmless DEF Welcome, Inv
<1>3. CASE request[r].role = "none"
  BY <1>1, <1>2, <1>3, HandlerEndKeepsInv DEF Welcome
<1>4. CASE request[r].role # "none"
  <2>1. next \in RequestType /\ Sane(next) /\ next.at \notin Changing
    BY <1>1, <1>4, GoesOnFine DEF Joining
  <2>2. Goto(r, next)
    BY <1>4 DEF Welcome
  <2> HIDE DEF next
  <2>3. QED
    BY <1>1, <1>2, <2>1, <2>2, HandlerKeepsInv DEF Welcome
<1>5. QED
  BY <1>3, <1>4

LEMMA InsertUserKeepsInv ==
  ASSUME Inv, NEW r \in Requests, InsertUser(r)
  PROVE  Inv'
<1> DEFINE a == request[r].target.address
           id == [address |-> a, n |-> user[a].n + 1]
           next == At("welcome", NoUser, id, request[r].role)
<1>1. /\ request[r].at = "insert"
      /\ a \in Addresses
      /\ request[r].role \in {"none", "COLLECTOR", "ARTIST"}
  BY Holds DEF InsertUser, Sane, Joining
<1>2. CASE Exists(a)
  <2>1. Harmless
    BY <1>2, UnchangedIsHarmless DEF InsertUser, Inv
  <2>2. QED
    BY <1>1, <1>2, <2>1, HandlerEndKeepsInv DEF InsertUser
<1>3. CASE ~Exists(a)
  <2>1. Harmless /\ id \in UserId
    BY <1>1, <1>3, CreateIsHarmless, CreateIsLocal DEF InsertUser, Inv
  <2>2. next \in RequestType /\ Sane(next) /\ next.at \notin Changing
    BY <1>1, <2>1 DEF At, RequestType, Sane, Joining, Changing, Steps, Roles
  <2>3. Goto(r, next)
    BY <1>3 DEF InsertUser
  <2> HIDE DEF next
  <2>4. QED
    BY <1>1, <2>1, <2>2, <2>3, HandlerKeepsInv DEF InsertUser
<1>4. QED
  BY <1>2, <1>3

LEMMA ArtistUpgradeKeepsInv ==
  ASSUME Inv, NEW r \in Requests, NEW a \in Addresses, ArtistUpgrade(r, a)
  PROVE  Inv'
<1> DEFINE next == At("becomeArtist", NoUser, IdOf(a), "ARTIST")
<1>1. Harmless /\ IdOf(a) \in UserId
  BY UnchangedIsHarmless, IdTyped DEF ArtistUpgrade, Inv
<1>2. next \in RequestType /\ Sane(next) /\ next.at \notin Changing
  BY <1>1 DEF At, RequestType, Sane, Joining, Changing, Steps, Roles
<1>3. request[r].at = "idle" /\ Goto(r, next)
  BY DEF ArtistUpgrade, Idle, At
<1> HIDE DEF next
<1>4. QED
  BY <1>1, <1>2, <1>3, HandlerKeepsInv DEF ArtistUpgrade

\* A handler of the console about to look for a listed operator.
LEMMA ListedIsFine ==
  ASSUME NEW id \in UserId, id.address \in ConsoleDesignated
  PROVE  LET next == At("findListed", NoUser, id, "none")
         IN  next \in RequestType /\ Sane(next) /\ next.at \notin Changing
BY DEF At, RequestType, Sane, Joining, Changing, Steps

LEMMA ConsoleSignInKeepsInv ==
  ASSUME Inv, NEW r \in Requests, NEW a \in Addresses, ConsoleSignIn(r, a)
  PROVE  Inv'
<1> DEFINE next == At("findListed", NoUser, IdOf(a), "none")
<1>1. IdOf(a) \in UserId
  BY IdTyped DEF Inv
<1>2. Harmless
  <2>1. CASE Exists(a)
    BY <2>1, UnchangedIsHarmless DEF ConsoleSignIn, Inv
  <2>2. CASE ~Exists(a)
    BY <2>2, CreateIsHarmless DEF ConsoleSignIn, Inv
  <2>3. QED
    BY <2>1, <2>2
<1>3. request[r].at = "idle"
  BY DEF ConsoleSignIn, Idle, At
<1>4. CASE a \in ConsoleDesignated
  <2>1. next \in RequestType /\ Sane(next) /\ next.at \notin Changing
    BY <1>1, <1>4, ListedIsFine DEF IdOf
  <2>2. Goto(r, next)
    BY <1>4 DEF ConsoleSignIn
  <2> HIDE DEF next
  <2>3. QED
    BY <1>2, <1>3, <2>1, <2>2, HandlerKeepsInv DEF ConsoleSignIn
<1>5. CASE a \notin ConsoleDesignated
  BY <1>2, <1>3, <1>5, HandlerEndKeepsInv DEF ConsoleSignIn
<1>6. QED
  BY <1>4, <1>5

LEMMA ConsoleSessionKeepsInv ==
  ASSUME Inv, NEW r \in Requests, NEW a \in Addresses, ConsoleSession(r, a)
  PROVE  Inv'
<1> DEFINE next == At("findListed", NoUser, IdOf(a), "none")
<1>1. Harmless /\ IdOf(a) \in UserId
  BY UnchangedIsHarmless, IdTyped DEF ConsoleSession, Inv
<1>2. next \in RequestType /\ Sane(next) /\ next.at \notin Changing
  BY <1>1, ListedIsFine DEF ConsoleSession, IdOf
<1>3. request[r].at = "idle" /\ Goto(r, next)
  BY DEF ConsoleSession, Idle, At
<1> HIDE DEF next
<1>4. QED
  BY <1>1, <1>2, <1>3, HandlerKeepsInv DEF ConsoleSession

LEMMA FindListedKeepsInv ==
  ASSUME Inv, NEW r \in Requests, FindListed(r)
  PROVE  Inv'
<1> DEFINE a == request[r].target.address
           next == At("promote", NoUser, IdOf(a), "OPERATOR")
<1>1. request[r].at = "findListed" /\ a \in Addresses /\ a \in ConsoleDesignated
  BY Holds DEF FindListed, Sane
<1>2. Harmless /\ IdOf(a) \in UserId
  BY <1>1, UnchangedIsHarmless, IdTyped DEF FindListed, Inv
<1>3. next \in RequestType /\ Sane(next) /\ next.at \notin Changing
  BY <1>1, <1>2 DEF At, RequestType, Sane, Joining, Changing, Steps, Roles, IdOf
<1>4. Goto(r, next) \/ Goto(r, Idle)
  BY DEF FindListed
<1> HIDE DEF next
<1>5. QED
  BY <1>1, <1>2, <1>3, <1>4, HandlerKeepsInv, HandlerEndKeepsInv DEF FindListed

LEMMA PromoteKeepsInv ==
  ASSUME Inv, NEW r \in Requests, Promote(r)
  PROVE  Inv'
<1>1. request[r].at = "promote" /\ request[r].target \in UserId /\ IsDesignated(request[r].target)
  BY Holds DEF Promote, Sane, IsDesignated
<1>2. Harmless
  BY <1>1, UpdateIsHarmless DEF Promote, Inv, Roles
<1>3. QED
  BY <1>1, <1>2, HandlerEndKeepsInv DEF Promote

LEMMA BeginChangeKeepsInv ==
  ASSUME Inv, NEW r \in Requests, NEW a \in Addresses, NEW target \in Addresses,
         NEW role \in Assigned, BeginChange(r, a, target, role)
  PROVE  Inv'
<1> DEFINE next == At("readTarget", IdOf(a), [address |-> target, n |-> 0], role)
<1>1. Harmless /\ IdOf(a) \in UserId
  BY UnchangedIsHarmless, IdTyped DEF BeginChange, Inv
<1>2. [address |-> target, n |-> 0] \in UserId
  BY RolesAssumption DEF UserId
<1>3. next \in RequestType /\ Sane(next)
  BY <1>1, <1>2, RolesAssumption DEF At, RequestType, Sane, Joining, Changing, Steps, Roles
<1>4. next.by \in Powered
  BY DEF BeginChange, At, Powered, Operators
<1>5. request[r].at = "idle" /\ Goto(r, next)
  BY DEF BeginChange, Idle, At
<1> HIDE DEF next
<1>6. QED
  BY <1>1, <1>3, <1>4, <1>5, HandlerKeepsInv DEF BeginChange

LEMMA ReadTargetKeepsInv ==
  ASSUME Inv, NEW r \in Requests, ReadTarget(r)
  PROVE  Inv'
<1> DEFINE target == IdOf(request[r].target.address)
           next == [request[r] EXCEPT !.at = "setRole", !.target = target]
<1>1. /\ request[r] \in RequestType
      /\ request[r].at = "readTarget"
      /\ request[r].by \in UserId
      /\ request[r].role \in Roles
      /\ request[r].target.address \in Addresses
  BY Holds DEF ReadTarget, Sane, Changing
<1>2. Harmless /\ target \in UserId
  BY <1>1, UnchangedIsHarmless, IdTyped DEF ReadTarget, Inv
<1>3. CASE Present(target) /\ MayChange(request[r].by, target, request[r].role)
  <2>1. next \in RequestType /\ Sane(next)
    BY <1>1, <1>2, <1>3 DEF RequestType, Sane, Joining, Changing, Steps
  <2>2. next.by \in Powered
    BY <1>1 DEF Powered, Callers, Changing, RequestType
  <2>3. Goto(r, next)
    BY <1>3 DEF ReadTarget
  <2> HIDE DEF next
  <2>4. QED
    BY <1>1, <1>2, <2>1, <2>2, <2>3, HandlerKeepsInv DEF ReadTarget
<1>4. CASE ~(Present(target) /\ MayChange(request[r].by, target, request[r].role))
  BY <1>1, <1>2, <1>4, HandlerEndKeepsInv DEF ReadTarget
<1>5. QED
  BY <1>3, <1>4

\* A grant reaches a group from outside, or from one in it who already had to
\* be traced.
LEMMA SetRoleKeepsInv ==
  ASSUME Inv, NEW r \in Requests, SetRole(r)
  PROVE  Inv'
<1> DEFINE id == request[r].target
           role == request[r].role
           next == [request[r] EXCEPT !.at = "audit"]
<1>1. /\ request[r] \in RequestType
      /\ request[r].at = "setRole"
      /\ request[r].by \in UserId
      /\ id \in UserId
      /\ role \in Roles
  BY Holds DEF SetRole, Sane, Changing
<1>2. request[r].by \in Powered
  BY <1>1 DEF Powered, Callers, Changing
<1>3. CASE ~Present(id)
  <2>1. Harmless
    BY <1>3, UnchangedIsHarmless DEF SetRole, Updated, Inv
  <2>2. QED
    BY <1>1, <1>3, <2>1, HandlerEndKeepsInv DEF SetRole
<1>4. CASE Present(id)
  <2>1. user' = Updated(id, role) /\ Goto(r, next) /\ UNCHANGED <<audit, faults>>
    BY <1>4 DEF SetRole, AfterChange
  <2>2. /\ next \in RequestType
        /\ Sane(next)
        /\ next.at = "audit"
        /\ next.by = request[r].by
        /\ next.target = id
        /\ next.role = role
    BY <1>1 DEF RequestType, Sane, Joining, Changing, Steps
  <2> HIDE DEF next
  <2>3. CASE role # "OPERATOR"
    <3>1. Harmless
      BY <1>1, <2>1, <2>3, UpdateIsHarmless DEF Inv
    <3>2. QED
      BY <1>1, <1>2, <2>1, <2>2, <3>1, HandlerKeepsInv
  <2>4. CASE role = "OPERATOR"
    <3>1. /\ user' \in [Addresses -> UserType]
          /\ \A other \in Operators' : other \in Operators \/ other = id
      BY <1>1, <2>1, UpdateIsLocal DEF Inv
    <3>2. TypeOK'
      BY <2>1, <2>2, <3>1, RequestStaysTyped DEF Inv, TypeOK, UserType, RequestType
    <3>3. AreSane'
      BY <2>1, <2>2, AreSaneStays DEF Inv
    <3>4. Callers' \subseteq Powered
      BY <1>2, <2>1, <2>2, CallersMove DEF Inv
    <3>5. Grants \subseteq Grants'
      BY <1>1, <2>1, GrantsStay DEF Inv
    <3>6. PICK grant \in Grants' : grant.target = id /\ grant.by = request[r].by
      <4>1. request'[r] = next
        BY <2>1, GotoMoves DEF Inv
      <4>2. Logged(r)' \in Grants'
        BY <2>2, <2>4, <4>1 DEF Grants, Logged
      <4>3. Logged(r)'.target = id /\ Logged(r)'.by = request[r].by
        BY <2>2, <4>1 DEF Logged
      <4>4. QED
        BY <4>2, <4>3
    <3>7. PICK unlogged \in SUBSET UserId :
            IsFiniteSet(unlogged) /\ Cardinality(unlogged) <= faults /\ Traced(unlogged)
      BY DEF Inv, PoweredIsTraceable
    <3>8. Traced(unlogged)'
      <4> SUFFICES ASSUME NEW group \in SUBSET (UserId \ unlogged), group \cap Powered' # {},
                          \A one \in group : ~IsDesignated(one)
                   PROVE  \E g \in Grants' : g.target \in group /\ g.by \notin group
        BY DEF Traced, IsDesignated
      <4>1. CASE group \cap Powered # {}
        BY <3>5, <3>7, <4>1 DEF Traced
      <4>2. CASE group \cap Powered = {}
        <5>1. id \in group
          BY <3>1, <3>4, <4>2 DEF Powered
        <5>2. request[r].by \notin group
          BY <1>2, <4>2
        <5>3. QED
          BY <3>6, <5>1, <5>2
      <4>3. QED
        BY <4>1, <4>2
    <3>9. PoweredIsTraceable'
      BY <2>1, <3>7, <3>8 DEF PoweredIsTraceable
    <3>10. QED
      BY <3>2, <3>3, <3>9 DEF Inv
  <2>5. QED
    BY <2>3, <2>4
<1>5. QED
  BY <1>3, <1>4

LEMMA AppendAuditKeepsInv ==
  ASSUME Inv, NEW r \in Requests, AppendAudit(r)
  PROVE  Inv'
<1>1. request[r].at = "audit" /\ Logged(r) \in AuditRow
  BY Holds DEF AppendAudit, Sane, Changing, Logged, AuditRow
<1>2. Harmless /\ Idle.at \notin Changing
  BY UnchangedIsHarmless DEF AppendAudit, Inv, Idle, At, Changing
<1>3. TypeOK'
  BY <1>1, IdleIsFine, RequestStaysTyped DEF AppendAudit, Inv, TypeOK, RequestType
<1>4. AreSane'
  BY IdleIsFine, AreSaneStays DEF AppendAudit, Inv
<1>5. PoweredIsTraceable'
  BY <1>2, TraceMoves DEF AppendAudit, Harmless
<1>6. QED
  BY <1>3, <1>4, <1>5 DEF Inv

LEMMA OneMore ==
  ASSUME NEW S, IsFiniteSet(S), NEW x
  PROVE  IsFiniteSet(S \cup {x}) /\ Cardinality(S \cup {x}) <= Cardinality(S) + 1
<1>1. Cardinality(S) \in Nat
  BY FS_CardinalityType
<1>2. CASE x \in S
  <2>1. S \cup {x} = S
    BY <1>2
  <2>2. IsFiniteSet(S \cup {x}) /\ Cardinality(S \cup {x}) = Cardinality(S)
    BY <2>1, Zenon
  <2>3. QED
    BY <1>1, <2>2
<1>3. CASE x \notin S
  BY <1>1, <1>3, FS_AddElement
<1>4. QED
  BY <1>2, <1>3

\* Who was just given a role joins the unlogged: one more, for one more fault.
LEMMA CutShortKeepsInv ==
  ASSUME Inv, NEW r \in Requests, CutShort(r)
  PROVE  Inv'
<1>1. /\ Goto(r, Idle)
      /\ request[r] # Idle
      /\ faults \in Nat
      /\ faults' = faults + 1
      /\ UNCHANGED <<user, audit>>
  BY DEF CutShort, Inv, TypeOK
<1>2. Harmless /\ Idle.at \notin Changing
  BY <1>1, UnchangedIsHarmless DEF Inv, Idle, At, Changing
<1>3. TypeOK'
  BY <1>1, IdleIsFine, RequestStaysTyped DEF Inv, TypeOK, RequestType
<1>4. AreSane'
  BY <1>1, IdleIsFine, AreSaneStays DEF Inv
<1>5. Powered' \subseteq Powered
  BY <1>1, <1>2, CallersMove DEF Inv, Powered, Operators, IdOf
<1>6. PICK unlogged \in SUBSET UserId :
        IsFiniteSet(unlogged) /\ Cardinality(unlogged) <= faults /\ Traced(unlogged)
  BY DEF Inv, PoweredIsTraceable
<1>7. CASE request[r].at # "audit"
  <2>1. Grants \subseteq Grants'
    BY <1>1, <1>7, GrantsStay DEF Inv
  <2>2. Traced(unlogged)'
    BY <1>5, <1>6, <2>1 DEF Traced, IsDesignated
  <2>3. Cardinality(unlogged) <= faults'
    BY <1>1, <1>6, FS_CardinalityType
  <2>4. QED
    BY <1>3, <1>4, <1>6, <2>2, <2>3 DEF Inv, PoweredIsTraceable
<1>8. CASE request[r].at = "audit"
  <2>1. PICK target \in UserId : target = request[r].target
    BY <1>8, Holds DEF Sane
  <2>2. PICK more \in SUBSET UserId : more = unlogged \cup {target}
    OBVIOUS
  <2>3. \A grant \in Grants : grant.target = target \/ grant \in Grants'
    BY <1>1, <2>1, GotoMoves DEF Inv, Grants, Logged
  <2>4. IsFiniteSet(more) /\ Cardinality(more) <= Cardinality(unlogged) + 1
    BY <1>6, <2>2, OneMore
  <2>5. Cardinality(more) <= faults'
    BY <1>1, <1>6, <2>4, FS_CardinalityType
  <2>6. Traced(more)'
    BY <1>5, <1>6, <2>2, <2>3 DEF Traced, IsDesignated
  <2>7. QED
    BY <1>3, <1>4, <2>4, <2>5, <2>6 DEF Inv, PoweredIsTraceable
<1>9. QED
  BY <1>7, <1>8

-----------------------------------------------------------------------------
(* Actions without a handler. *)

LEMMA RowActionsKeepInv ==
  ASSUME Inv, NEW a \in Addresses,
         \/ SignInWithPassword(a)
         \/ \E role \in {"COLLECTOR", "ARTIST"} : Register(a, role)
         \/ GoogleOnPhone(a)
         \/ DeleteAccount(a)
  PROVE  Inv'
<1>1. CASE SignInWithPassword(a)
  BY <1>1, SyncIsHarmless, RowKeepsInv DEF SignInWithPassword, Inv
<1>2. ASSUME NEW role \in {"COLLECTOR", "ARTIST"}, Register(a, role)
      PROVE  Inv'
  BY <1>2, CreateIsHarmless, RowKeepsInv DEF Register, Inv
<1>3. CASE GoogleOnPhone(a)
  BY <1>3, CreateIsHarmless, RowKeepsInv DEF GoogleOnPhone, Inv
<1>4. CASE DeleteAccount(a)
  <2>1. user' = [user EXCEPT ![a].role = "absent"] /\ user \in [Addresses -> UserType]
    BY <1>4 DEF DeleteAccount, Inv, TypeOK, UserType
  <2>2. user' \in [Addresses -> UserType]
    BY <2>1 DEF UserType
  <2>3. user'[a].role = "absent" /\ user'[a].n = user[a].n /\ \A b \in Addresses : b # a => user'[b] = user[b]
    BY <2>1 DEF UserType
  <2>4. Operators' \subseteq Operators
    BY <2>3 DEF Operators, IdOf
  <2>5. QED
    BY <1>4, <2>2, <2>4, RowKeepsInv DEF DeleteAccount, Harmless
<1>5. QED
  BY <1>1, <1>2, <1>3, <1>4

-----------------------------------------------------------------------------
(* The invariant. *)

LEMMA InitInv == Init => Inv
<1> SUFFICES ASSUME Init
             PROVE  Inv
  OBVIOUS
<1>1. TypeOK
  BY RolesAssumption, IdleIsFine DEF Init, TypeOK, RequestType
<1>2. AreSane
  BY IdleIsFine DEF Init, AreSane
<1>3. Operators = {} /\ Callers = {}
  BY DEF Init, Operators, Callers, Idle, At, Changing
<1>4. Traced({})
  BY <1>3 DEF Powered, Traced
<1>5. PoweredIsTraceable
  BY <1>4, FS_EmptySet DEF Init, PoweredIsTraceable
<1>6. QED
  BY <1>1, <1>2, <1>5 DEF Inv

LEMMA NextKeepsInv == Inv /\ [Next]_vars => Inv'
<1> SUFFICES ASSUME Inv, [Next]_vars
             PROVE  Inv'
  OBVIOUS
<1>1. CASE UNCHANGED vars
  <2>1. Harmless
    BY <1>1, UnchangedIsHarmless DEF vars, Inv
  <2>2. QED
    BY <1>1, <2>1, RowKeepsInv DEF vars
<1>2. ASSUME NEW a \in Addresses,
             SignInWithPassword(a) \/ GoogleOnPhone(a) \/ DeleteAccount(a)
               \/ \E role \in {"COLLECTOR", "ARTIST"} : Register(a, role)
      PROVE  Inv'
  BY <1>2, RowActionsKeepInv
<1>3. ASSUME NEW r \in Requests, NEW a \in Addresses,
             \/ \E wish \in {"none", "COLLECTOR", "ARTIST"} : OAuthSignIn(r, a, wish)
             \/ ArtistUpgrade(r, a) \/ ConsoleSignIn(r, a) \/ ConsoleSession(r, a)
      PROVE  Inv'
  BY <1>3, OAuthSignInKeepsInv, ArtistUpgradeKeepsInv, ConsoleSignInKeepsInv, ConsoleSessionKeepsInv
<1>4. ASSUME NEW r \in Requests, NEW a \in Addresses, NEW target \in Addresses,
             NEW role \in Assigned, BeginChange(r, a, target, role)
      PROVE  Inv'
  BY <1>4, BeginChangeKeepsInv
<1>5. ASSUME NEW r \in Requests, Continue(r)
      PROVE  Inv'
  BY <1>5, SyncRoleKeepsInv, BecomeArtistKeepsInv, InsertUserKeepsInv, WelcomeKeepsInv,
     StampConsentKeepsInv, FindListedKeepsInv, PromoteKeepsInv, ReadTargetKeepsInv,
     SetRoleKeepsInv, AppendAuditKeepsInv
     DEF Continue
<1>6. ASSUME NEW r \in Requests, CutShort(r)
      PROVE  Inv'
  BY <1>6, CutShortKeepsInv
<1>7. QED
  BY <1>1, <1>2, <1>3, <1>4, <1>5, <1>6 DEF Next

LEMMA InvHolds == Spec => []Inv
BY InitInv, NextKeepsInv, PTL DEF Spec

-----------------------------------------------------------------------------
(* Theorems. *)

\* Every variable keeps its type.
THEOREM TypeCorrect == Spec => []TypeOK
<1>1. Inv => TypeOK
  BY DEF Inv
<1>2. QED
  BY <1>1, InvHolds, PTL

\* Whatever sign-ins, changes and deletions overlap, the log leads from every
\* operator to a designated address, but for at most one user per handler cut
\* short.
THEOREM PowerTraced == Spec => []PowerIsTraceable
<1>1. Inv => PowerIsTraceable
  <2> SUFFICES ASSUME Inv
               PROVE  PowerIsTraceable
    OBVIOUS
  <2>1. PICK unlogged \in SUBSET UserId :
          IsFiniteSet(unlogged) /\ Cardinality(unlogged) <= faults /\ Traced(unlogged)
    BY DEF Inv, PoweredIsTraceable
  <2> DEFINE ordinary == unlogged \cap Ordinary
  <2>2. Cardinality(ordinary) <= faults
    <3>1. Cardinality(ordinary) <= Cardinality(unlogged) /\ Cardinality(unlogged) \in Nat
      BY <2>1, FS_Subset, FS_CardinalityType
    <3>2. Cardinality(ordinary) \in Nat /\ faults \in Nat
      BY <2>1, FS_Subset, FS_CardinalityType DEF Inv, TypeOK
    <3>3. QED
      BY <2>1, <3>1, <3>2
  <2>3. ASSUME NEW group \in SUBSET (Ordinary \ ordinary), group \cap Operators # {}
        PROVE  \E grant \in Grants : grant.target \in group /\ grant.by \notin group
    <3>1. group \in SUBSET (UserId \ unlogged) /\ \A id \in group : ~IsDesignated(id)
      BY DEF Ordinary
    <3>2. QED
      BY <2>1, <2>3, <3>1 DEF Traced, Powered
  <2>4. QED
    BY <2>2, <2>3 DEF PowerIsTraceable
<1>2. QED
  BY <1>1, InvHolds, PTL
=============================================================================

--------------------------- MODULE AccountsProofs ---------------------------
(***************************************************************************)
(* What is proved of Accounts, for any number of request handlers and any  *)
(* bounds.                                                                 *)
(***************************************************************************)
EXTENDS Accounts, TLAPS

UserType == [id : Ids, kind : Kinds \ {"none"}, verified : BOOLEAN]
RequestType == [at : Steps, account : Ids \cup {0}, token : Issued \cup {0}, stale : SUBSET Issued]

\* A registered account waits for its verification.
Waiting == account.kind = "password" /\ ~account.verified

\* A link nobody was waiting for is older than the one somebody waits for now.
DroppedIsOld ==
  \A r \in Requests : request[r].at = "dropToken" /\ Waiting =>
    \E t \in tokens : t > request[r].token

\* A mail carries a token, and a verification knows the account it found.
Prepared(state) ==
  /\ state.at \in {"mail", "mailAgain"} => state.token # 0
  /\ state.at = "verify" => state.account # 0

ArePrepared == \A r \in Requests : Prepared(request[r])

UsedIsGone == \A u \in used : u.token \notin tokens

Proved == vouched \cup {u.account : u \in used}

MaySignInIsProved ==
  account.verified \/ account.kind = "oauth" => account.id \in Proved

Inv ==
  /\ TypeOK
  /\ UnverifiedHasToken
  /\ DroppedIsOld
  /\ ArePrepared
  /\ UsedIsGone
  /\ LinkWorksOnce
  /\ MaySignInIsProved
  /\ SessionsAreProved

-----------------------------------------------------------------------------

\* The value of a request after Goto, for the handler that moves and the others.
LEMMA GotoMoves ==
  ASSUME TypeOK, NEW r \in Requests, NEW state, Goto(r, state)
  PROVE  /\ request'[r] = state
         /\ \A q \in Requests \ {r} : request'[q] = request[q]
BY DEF TypeOK, Goto

LEMMA ArePreparedStays ==
  ASSUME Inv, NEW r \in Requests, NEW state, Goto(r, state), Prepared(state)
  PROVE  ArePrepared'
BY GotoMoves DEF Inv, ArePrepared

\* A step that moves one handler and touches no table.
LEMMA OnlyARequestMoves ==
  ASSUME Inv, NEW r \in Requests, NEW state \in RequestType, Goto(r, state),
         UNCHANGED <<account, tokens, mailbox, sessions, created, issued, history>>,
         Prepared(state), state.at = "dropToken" => ~Waiting
  PROVE  Inv'
<1>1. TypeOK'
  BY DEF Inv, TypeOK, Goto, RequestType, Ids, Issued, history
<1>2. DroppedIsOld'
  <2> SUFFICES ASSUME NEW q \in Requests, request'[q].at = "dropToken", Waiting'
               PROVE  \E t \in tokens' : t > request'[q].token
    BY DEF DroppedIsOld
  <2>1. q # r
    BY DEF Goto, Inv, TypeOK, Waiting, history
  <2>2. QED
    BY <2>1 DEF Goto, Inv, TypeOK, DroppedIsOld, Waiting, history
<1>3. QED
  BY <1>1, <1>2, ArePreparedStays
     DEF Inv, UnverifiedHasToken, UsedIsGone, LinkWorksOnce, MaySignInIsProved,
         SessionsAreProved, Proved, history

\* Counters only grow, so what was typed stays typed.
LEMMA RequestStaysTyped ==
  ASSUME TypeOK, NEW r \in Requests, NEW state, Goto(r, state),
         Ids \subseteq Ids', Issued \subseteq Issued', state \in RequestType'
  PROVE  request' \in [Requests -> RequestType']
<1>1. RequestType \subseteq RequestType'
  BY DEF RequestType
<1>2. request \in [Requests -> RequestType]
  BY DEF TypeOK, RequestType
<1>3. QED
  BY <1>1, <1>2 DEF Goto

LEMMA IdleTyped == TypeOK => Idle \in RequestType
BY DEF TypeOK, Idle, At, RequestType, Steps, Ids, Issued

\* A commit that adds a fresh token, after deleting some.
LEMMA FreshTokenKeeps ==
  ASSUME Inv, issued' = issued + 1, NEW stale,
         tokens' = (tokens \ stale) \cup {issued + 1},
         used' = used,
         NEW r \in Requests, NEW state, Goto(r, state), state.at # "dropToken", Prepared(state)
  PROVE  /\ tokens' \subseteq Issued'
         /\ Issued \subseteq Issued'
         /\ UnverifiedHasToken'
         /\ DroppedIsOld'
         /\ ArePrepared'
         /\ UsedIsGone'
         /\ LinkWorksOnce'
<1>1. issued \in Nat /\ tokens \subseteq Issued
  BY AccountsAssumption DEF Inv, TypeOK
<1>2. Issued \subseteq Issued' /\ issued + 1 \in Issued' /\ issued + 1 \notin Issued
  BY <1>1 DEF Issued
<1>3. tokens' \subseteq Issued' /\ UnverifiedHasToken'
  BY <1>1, <1>2 DEF UnverifiedHasToken
<1>4. DroppedIsOld'
  <2> SUFFICES ASSUME NEW q \in Requests, request'[q].at = "dropToken"
               PROVE  \E t \in tokens' : t > request'[q].token
    BY DEF DroppedIsOld
  <2>1. q # r /\ request'[q] = request[q]
    BY GotoMoves DEF Inv
  <2>2. request[q].token \in Issued \cup {0}
    BY DEF Inv, TypeOK
  <2>3. issued + 1 > request[q].token
    BY <1>1, <2>2 DEF Issued
  <2>4. QED
    BY <2>1, <2>3
<1>5. UsedIsGone' /\ LinkWorksOnce'
  <2>1. \A u \in used : u.token \in Issued /\ u.token \notin tokens
    BY DEF Inv, TypeOK, UsedIsGone
  <2>2. QED
    BY <1>2, <2>1 DEF UsedIsGone, LinkWorksOnce, Inv
<1>6. QED
  BY <1>2, <1>3, <1>4, <1>5, ArePreparedStays

-----------------------------------------------------------------------------
(* One lemma per action that touches a table. *)

LEMMA InsertTokenKeepsInv ==
  ASSUME Inv, NEW r \in Requests, InsertToken(r)
  PROVE  Inv'
<1> DEFINE state == At("mail", created + 1, issued + 1, {})
<1>0. issued + 1 # 0
  BY AccountsAssumption DEF Inv, TypeOK
<1>1. Goto(r, state) /\ state.at # "dropToken" /\ Prepared(state)
  BY <1>0 DEF InsertToken, At, Prepared
<1>2. created \in Nat /\ issued \in Nat /\ created' = created + 1 /\ issued' = issued + 1
  BY AccountsAssumption DEF InsertToken, Inv, TypeOK
<1>3. created' \in 0 .. MaxAccounts /\ issued' \in 0 .. MaxTokens
  BY <1>2, AccountsAssumption DEF InsertToken
<1>4. Ids \subseteq Ids' /\ created + 1 \in Ids' /\ issued + 1 \in Issued'
  BY <1>2 DEF Ids, Issued
<1>5. /\ tokens' \subseteq Issued' /\ Issued \subseteq Issued'
      /\ UnverifiedHasToken' /\ DroppedIsOld' /\ ArePrepared' /\ UsedIsGone' /\ LinkWorksOnce'
  BY <1>1, FreshTokenKeeps DEF InsertToken, history
<1>6. request' \in [Requests -> RequestType']
  <2>1. state \in RequestType'
    BY <1>4 DEF At, RequestType, Steps
  <2>2. QED
    BY <1>1, <1>4, <1>5, <2>1, RequestStaysTyped DEF Inv
<1>7. account' \in UserType'
  BY <1>4 DEF InsertToken, User, UserType, Kinds
<1>8. TypeOK'
  BY <1>3, <1>4, <1>5, <1>6, <1>7 DEF InsertToken, Inv, TypeOK, history, UserType, RequestType
<1>9. MaySignInIsProved' /\ SessionsAreProved'
  BY DEF InsertToken, User, Inv, MaySignInIsProved, SessionsAreProved, history
<1>10. QED
  BY <1>5, <1>8, <1>9 DEF Inv

LEMMA ReplaceTokenKeepsInv ==
  ASSUME Inv, NEW r \in Requests, ReplaceToken(r)
  PROVE  Inv'
<1> DEFINE state == At("mailAgain", 0, issued + 1, {})
<1>0. issued + 1 # 0
  BY AccountsAssumption DEF Inv, TypeOK
<1>1. Goto(r, state) /\ state.at # "dropToken" /\ Prepared(state)
  BY <1>0 DEF ReplaceToken, At, Prepared
<1>2. issued \in Nat /\ issued' = issued + 1 /\ issued' \in 0 .. MaxTokens
  BY AccountsAssumption DEF ReplaceToken, Inv, TypeOK
<1>3. Ids' = Ids /\ issued + 1 \in Issued'
  BY <1>2 DEF Ids, Issued, ReplaceToken
<1>4. /\ tokens' \subseteq Issued' /\ Issued \subseteq Issued'
      /\ UnverifiedHasToken' /\ DroppedIsOld' /\ ArePrepared' /\ UsedIsGone' /\ LinkWorksOnce'
  BY <1>1, FreshTokenKeeps DEF ReplaceToken, history
<1>5. request' \in [Requests -> RequestType']
  <2>1. state \in RequestType'
    BY <1>3 DEF At, RequestType, Steps
  <2>2. QED
    BY <1>1, <1>3, <1>4, <2>1, RequestStaysTyped DEF Inv
<1>6. TypeOK'
  BY <1>2, <1>3, <1>4, <1>5 DEF ReplaceToken, Inv, TypeOK, history, RequestType
<1>7. MaySignInIsProved' /\ SessionsAreProved'
  BY DEF ReplaceToken, Inv, MaySignInIsProved, SessionsAreProved, Proved, history
<1>8. QED
  BY <1>4, <1>6, <1>7 DEF Inv

\* A request that no longer is at dropToken, or never was, owes nothing.
LEMMA DroppedIsOldStays ==
  ASSUME Inv, NEW r \in Requests, NEW state, Goto(r, state), state.at # "dropToken",
         UNCHANGED <<account, tokens>>
  PROVE  DroppedIsOld'
<1> SUFFICES ASSUME NEW q \in Requests, request'[q].at = "dropToken", Waiting'
             PROVE  \E t \in tokens' : t > request'[q].token
  BY DEF DroppedIsOld
<1>1. q # r /\ request'[q] = request[q]
  BY GotoMoves DEF Inv
<1>2. QED
  BY <1>1 DEF Inv, DroppedIsOld, Waiting

LEMMA SendMailKeepsInv ==
  ASSUME Inv, NEW r \in Requests, NEW arrives \in BOOLEAN, NEW throws \in BOOLEAN,
         SendMail(r, arrives, throws)
  PROVE  Inv'
<1>1. PICK state : Goto(r, state) /\ state \in {Idle, [request[r] EXCEPT !.at = "undo"]}
  BY DEF SendMail
<1>2. request[r] \in RequestType /\ request[r].token \in Issued
  BY DEF Inv, TypeOK, RequestType, SendMail, ArePrepared, Prepared
<1>3. state \in RequestType /\ state.at # "dropToken" /\ Prepared(state)
  BY <1>1, <1>2, IdleTyped DEF Inv, RequestType, Steps, Idle, At, Prepared
<1>4. request' \in [Requests -> RequestType]
  BY <1>1, <1>3 DEF Goto, Inv, TypeOK, RequestType
<1>5. mailbox' \subseteq Issued
  BY <1>2 DEF SendMail, Inv, TypeOK
<1>6. TypeOK'
  BY <1>4, <1>5 DEF SendMail, Inv, TypeOK, Ids, Issued, history, RequestType
<1>7. DroppedIsOld' /\ ArePrepared'
  BY <1>1, <1>3, DroppedIsOldStays, ArePreparedStays DEF SendMail
<1>8. QED
  BY <1>6, <1>7 DEF SendMail, Inv, UnverifiedHasToken, UsedIsGone, LinkWorksOnce,
                    MaySignInIsProved, SessionsAreProved, Proved, history

LEMMA UndoKeepsInv ==
  ASSUME Inv, NEW r \in Requests, Undo(r)
  PROVE  Inv'
<1>1. Goto(r, Idle) /\ Idle \in RequestType /\ Idle.at # "dropToken" /\ Prepared(Idle)
  BY IdleTyped DEF Undo, Idle, At, Prepared, Inv
<1>2. request' \in [Requests -> RequestType]
  BY <1>1 DEF Goto, Inv, TypeOK, RequestType
<1>3. ArePrepared'
  BY <1>1, ArePreparedStays
<1>4. CASE UndoTarget(r) = NoAccount
  <2>1. UNCHANGED <<account, tokens>>
    BY <1>4 DEF Undo, TokensAfterUndo
  <2>2. TypeOK'
    BY <1>2, <2>1 DEF Undo, Inv, TypeOK, Ids, Issued, history, RequestType
  <2>3. DroppedIsOld'
    BY <1>1, <2>1, DroppedIsOldStays
  <2>4. QED
    BY <1>3, <2>1, <2>2, <2>3 DEF Undo, Inv, UnverifiedHasToken, UsedIsGone, LinkWorksOnce,
                              MaySignInIsProved, SessionsAreProved, Proved, history
<1>5. CASE UndoTarget(r) # NoAccount
  <2>1. account' = NoAccount /\ tokens' = {}
    BY <1>5 DEF Undo, TokensAfterUndo
  <2>2. TypeOK'
    BY <1>2, <2>1 DEF Undo, Inv, TypeOK, Ids, Issued, history, RequestType
  <2>3. UnverifiedHasToken' /\ DroppedIsOld' /\ MaySignInIsProved' /\ UsedIsGone'
    BY <2>1 DEF UnverifiedHasToken, DroppedIsOld, Waiting, MaySignInIsProved, UsedIsGone,
                NoAccount, User
  <2>4. LinkWorksOnce' /\ SessionsAreProved'
    BY DEF Undo, Inv, LinkWorksOnce, SessionsAreProved, history
  <2>5. QED
    BY <1>3, <2>2, <2>3, <2>4 DEF Inv
<1>6. QED
  BY <1>4, <1>5

LEMMA VerifyKeepsInv ==
  ASSUME Inv, NEW r \in Requests, Verify(r)
  PROVE  Inv'
<1>1. Goto(r, Idle) /\ Idle \in RequestType /\ Idle.at # "dropToken" /\ Prepared(Idle)
  BY IdleTyped DEF Verify, Idle, At, Prepared, Inv
<1>2. request' \in [Requests -> RequestType]
  BY <1>1 DEF Goto, Inv, TypeOK, RequestType
<1>3. ArePrepared'
  BY <1>1, ArePreparedStays
<1>4. CASE ~MayVerify(r)
  <2>1. UNCHANGED <<account, tokens, used>>
    BY <1>4 DEF Verify
  <2>2. TypeOK'
    BY <1>2, <2>1 DEF Verify, Inv, TypeOK, Ids, Issued, RequestType
  <2>3. DroppedIsOld'
    BY <1>1, <2>1, DroppedIsOldStays
  <2>4. QED
    BY <1>3, <2>1, <2>2, <2>3 DEF Verify, Inv, UnverifiedHasToken, UsedIsGone, LinkWorksOnce,
                              MaySignInIsProved, SessionsAreProved, Proved
<1>5. CASE MayVerify(r)
  <2> DEFINE use == [token |-> request[r].token, account |-> account.id]
  <2>1. account' = [account EXCEPT !.verified = TRUE]
        /\ tokens' = tokens \ {use.token} /\ used' = used \cup {use}
    BY <1>5 DEF Verify
  <2>2. account \in UserType /\ account' \in UserType /\ account'.id = account.id /\ account'.verified
    <3>1. request[r].at = "verify" /\ request[r].account # 0
      BY DEF Verify, Inv, ArePrepared, Prepared
    <3>2. account \in UserType
      BY <1>5, <3>1 DEF MayVerify, Inv, TypeOK, NoAccount, User, UserType
    <3>3. account' \in UserType
      BY <2>1, <3>2 DEF UserType, Ids, Verify
    <3>4. QED
      BY <2>1, <3>2, <3>3 DEF UserType
  <2>3. use \in [token : Issued, account : Ids] /\ use.token \in tokens
    BY <1>5, <2>2 DEF MayVerify, UserType, Inv, TypeOK
  <2>4. TypeOK'
    BY <1>2, <2>1, <2>2, <2>3 DEF Verify, Inv, TypeOK, Ids, Issued, RequestType, UserType
  <2>5. UnverifiedHasToken' /\ DroppedIsOld'
    BY <2>2 DEF UnverifiedHasToken, DroppedIsOld, Waiting
  <2>6. UsedIsGone' /\ LinkWorksOnce'
    BY <2>1, <2>3 DEF Inv, UsedIsGone, LinkWorksOnce
  <2>7. Proved \subseteq Proved' /\ account.id \in Proved'
    <3>1. vouched' = vouched /\ used \subseteq used' /\ use \in used' /\ use.account = account.id
      BY <2>1 DEF Verify
    <3> HIDE DEF use
    <3>2. QED
      BY <3>1 DEF Proved
  <2>8. MaySignInIsProved' /\ SessionsAreProved'
    BY <2>2, <2>7 DEF Verify, Inv, MaySignInIsProved, SessionsAreProved, Proved
  <2>9. QED
    BY <1>3, <2>4, <2>5, <2>6, <2>8 DEF Inv
<1>6. QED
  BY <1>4, <1>5

LEMMA DropTokenKeepsInv ==
  ASSUME Inv, NEW r \in Requests, DropToken(r)
  PROVE  Inv'
<1>1. Goto(r, Idle) /\ Idle \in RequestType /\ Idle.at # "dropToken" /\ Prepared(Idle)
  BY IdleTyped DEF DropToken, Idle, At, Prepared, Inv
<1>2. request' \in [Requests -> RequestType]
  BY <1>1 DEF Goto, Inv, TypeOK, RequestType
<1>3. TypeOK' /\ ArePrepared'
  BY <1>1, <1>2, ArePreparedStays DEF DropToken, Inv, TypeOK, Ids, Issued, history, RequestType
<1>4. tokens \subseteq Nat /\ request[r].token \in Nat
  BY AccountsAssumption DEF Inv, TypeOK, Issued
<1>5. Waiting => \E t \in tokens : t > request[r].token
  BY DEF DropToken, Inv, DroppedIsOld
<1>6. UnverifiedHasToken'
  BY <1>4, <1>5 DEF DropToken, UnverifiedHasToken, Waiting
<1>7. DroppedIsOld'
  <2> SUFFICES ASSUME NEW q \in Requests, request'[q].at = "dropToken", Waiting'
               PROVE  \E t \in tokens' : t > request'[q].token
    BY DEF DroppedIsOld
  <2>1. q # r /\ request'[q] = request[q] /\ request[q].token \in Nat
    BY <1>1, GotoMoves, AccountsAssumption DEF Inv, TypeOK, Issued
  <2>2. PICK t \in tokens : t > request[q].token
    BY <2>1 DEF Inv, DroppedIsOld, Waiting, DropToken
  <2>3. PICK u \in tokens : u > request[r].token
    BY <1>5 DEF Waiting, DropToken
  <2>4. CASE t = request[r].token
    BY <1>4, <2>1, <2>2, <2>3, <2>4 DEF DropToken
  <2>5. CASE t # request[r].token
    BY <2>1, <2>2, <2>5 DEF DropToken
  <2>6. QED
    BY <2>4, <2>5
<1>8. QED
  BY <1>3, <1>6, <1>7 DEF DropToken, Inv, UsedIsGone, LinkWorksOnce, MaySignInIsProved,
                          SessionsAreProved, Proved, history

\* A step that moves no request and leaves the tokens alone.
LEMMA SignInKeepsInv ==
  ASSUME Inv, SignIn
  PROVE  Inv'
<1>1. account.id \in Ids /\ account.id \in Proved
  BY DEF SignIn, MaySignIn, Inv, TypeOK, MaySignInIsProved, NoAccount, User
<1>2. TypeOK'
  BY <1>1 DEF SignIn, Inv, TypeOK, Ids, Issued, history
<1>3. SessionsAreProved'
  BY <1>1 DEF SignIn, Inv, SessionsAreProved, Proved, history
<1>4. QED
  BY <1>2, <1>3 DEF SignIn, Inv, UnverifiedHasToken, DroppedIsOld, Waiting, ArePrepared, UsedIsGone,
                    LinkWorksOnce, MaySignInIsProved, Proved, history

LEMMA DeleteAccountKeepsInv ==
  ASSUME Inv, DeleteAccount
  PROVE  Inv'
<1>1. TypeOK'
  BY DEF DeleteAccount, Inv, TypeOK, Ids, Issued, history
<1>2. UnverifiedHasToken' /\ DroppedIsOld' /\ MaySignInIsProved'
  BY DEF DeleteAccount, UnverifiedHasToken, DroppedIsOld, Waiting, MaySignInIsProved, NoAccount, User
<1>3. QED
  BY <1>1, <1>2 DEF DeleteAccount, Inv, ArePrepared, UsedIsGone, LinkWorksOnce, SessionsAreProved,
                    history

\* A step that leaves the requests, or ends one, and creates the account.
LEMMA CreateKeeps ==
  ASSUME Inv, account = NoAccount, NEW kind \in {"oauth", "phone"}, NEW verified \in BOOLEAN,
         created < MaxAccounts, created' = created + 1,
         account' = User(created + 1, kind, verified),
         vouched' = vouched \cup {created + 1},
         UNCHANGED <<tokens, mailbox, issued, used>>,
         sessions' \subseteq sessions \cup {created + 1},
         request' \in [Requests -> RequestType'], ArePrepared'
  PROVE  Inv'
<1>1. created \in Nat /\ created' \in 0 .. MaxAccounts
  BY AccountsAssumption DEF Inv, TypeOK
<1>2. Ids \subseteq Ids' /\ created + 1 \in Ids' /\ Issued' = Issued
  BY <1>1 DEF Ids, Issued
<1>3. account' \in UserType'
  BY <1>2 DEF User, UserType, Kinds
<1>4. TypeOK'
  BY <1>1, <1>2, <1>3 DEF Inv, TypeOK, UserType, RequestType
<1>5. UnverifiedHasToken' /\ DroppedIsOld'
  BY DEF UnverifiedHasToken, DroppedIsOld, Waiting, User
<1>6. Proved \subseteq Proved' /\ created + 1 \in Proved'
  BY DEF Proved
<1>7. MaySignInIsProved' /\ SessionsAreProved'
  BY <1>6 DEF Inv, MaySignInIsProved, SessionsAreProved, Proved, User
<1>8. QED
  BY <1>4, <1>5, <1>7 DEF Inv, UsedIsGone, LinkWorksOnce

LEMMA OAuthCreateKeepsInv ==
  ASSUME Inv, NEW r \in Requests, OAuthCreate(r)
  PROVE  Inv'
<1>1. Goto(r, Idle) /\ Prepared(Idle)
  BY DEF OAuthCreate, Idle, At, Prepared
<1>2. CASE account = NoAccount
  <2>1. Ids \subseteq Ids' /\ Issued' = Issued
    BY <1>2, AccountsAssumption DEF OAuthCreate, Ids, Issued, Inv, TypeOK
  <2>2. Idle \in RequestType'
    BY <2>1 DEF Idle, At, RequestType, Steps
  <2>3. request' \in [Requests -> RequestType'] /\ ArePrepared'
    BY <1>1, <2>1, <2>2, RequestStaysTyped, ArePreparedStays DEF Inv
  <2>4. QED
    BY <1>2, <2>3, CreateKeeps DEF OAuthCreate
<1>3. CASE account # NoAccount
  BY <1>1, <1>3, IdleTyped, OnlyARequestMoves DEF OAuthCreate, Inv, Idle, At, history
<1>4. QED
  BY <1>2, <1>3

LEMMA GoogleOnPhoneKeepsInv ==
  ASSUME Inv, GoogleOnPhone
  PROVE  Inv'
<1>1. CASE account = NoAccount
  <2>1. created' = created + 1 /\ account' = User(created + 1, "phone", TRUE)
        /\ vouched' = vouched \cup {created + 1} /\ created < MaxAccounts
    BY <1>1 DEF GoogleOnPhone, User
  <2>2. RequestType \subseteq RequestType'
    BY <2>1, AccountsAssumption DEF GoogleOnPhone, Ids, Issued, Inv, TypeOK, RequestType
  <2>3. request' \in [Requests -> RequestType'] /\ ArePrepared'
    BY <2>2 DEF GoogleOnPhone, Inv, TypeOK, ArePrepared, RequestType
  <2>4. QED
    BY <1>1, <2>1, <2>3, CreateKeeps DEF GoogleOnPhone
<1>2. CASE account # NoAccount
  <2>1. account \in UserType /\ account' \in UserType /\ account'.id = account.id
        /\ account'.kind = account.kind /\ account'.verified
    BY <1>2 DEF GoogleOnPhone, Inv, TypeOK, UserType, Ids
  <2>2. created' = created /\ vouched' = vouched \cup {account.id}
    BY <1>2, <2>1 DEF GoogleOnPhone
  <2>3. TypeOK'
    BY <2>1, <2>2 DEF GoogleOnPhone, Inv, TypeOK, Ids, Issued, UserType
  <2>4. UnverifiedHasToken' /\ DroppedIsOld'
    BY <2>1 DEF UnverifiedHasToken, DroppedIsOld, Waiting
  <2>5. Proved \subseteq Proved' /\ account.id \in Proved'
    BY <2>2 DEF GoogleOnPhone, Proved
  <2>6. MaySignInIsProved' /\ SessionsAreProved'
    BY <2>1, <2>5 DEF GoogleOnPhone, Inv, MaySignInIsProved, SessionsAreProved, Proved
  <2>7. QED
    BY <2>3, <2>4, <2>6 DEF GoogleOnPhone, Inv, ArePrepared, UsedIsGone, LinkWorksOnce
<1>3. QED
  BY <1>1, <1>2

LEMMA OAuthCheckKeepsInv ==
  ASSUME Inv, NEW r \in Requests, OAuthCheck(r)
  PROVE  Inv'
<1>1. CASE account = NoAccount
  <2> DEFINE state == At("createUser", 0, 0, {})
  <2>1. Goto(r, state) /\ state \in RequestType /\ Prepared(state) /\ state.at # "dropToken"
    BY <1>1 DEF OAuthCheck, At, RequestType, Steps, Prepared
  <2>2. UNCHANGED <<account, tokens, mailbox, sessions, created, issued, history>>
    BY <1>1 DEF OAuthCheck
  <2> HIDE DEF state
  <2>3. QED
    BY <2>1, <2>2, OnlyARequestMoves
<1>2. CASE account # NoAccount
  <2>1. account.id \in Ids /\ account.id \in Proved
    BY <1>2 DEF OAuthCheck, Inv, TypeOK, MaySignInIsProved, NoAccount, User
  <2>2. TypeOK'
    BY <1>2, <2>1 DEF OAuthCheck, Inv, TypeOK, Ids, Issued, history
  <2>3. SessionsAreProved'
    BY <1>2, <2>1 DEF OAuthCheck, Inv, SessionsAreProved, Proved, history
  <2>4. QED
    BY <1>2, <2>2, <2>3 DEF OAuthCheck, Inv, UnverifiedHasToken, DroppedIsOld, Waiting, ArePrepared,
                            UsedIsGone, LinkWorksOnce, MaySignInIsProved, Proved, history
<1>3. QED
  BY <1>1, <1>2

\* The steps that read, or only end a request.
LEMMA ReadsKeepInv ==
  ASSUME Inv, NEW r \in Requests,
         \/ CheckFree(r) \/ InsertUser(r) \/ FindUnverified(r) \/ DeleteTokens(r)
         \/ FindUser(r) \/ Crash(r) \/ \E t \in mailbox : OpenLink(r, t)
  PROVE  Inv'
<1>1. Idle \in RequestType /\ Prepared(Idle) /\ Idle.at # "dropToken"
  BY IdleTyped DEF Idle, At, Prepared, Inv
<1>2. tokens \subseteq Issued /\ mailbox \subseteq Issued /\ request[r] \in RequestType
  BY DEF Inv, TypeOK, RequestType
<1>3. ASSUME NEW step \in {"insertUser", "insertToken", "deleteTokens", "replaceToken"},
             NEW stale \in SUBSET Issued
      PROVE  LET state == At(step, 0, 0, stale)
             IN  state \in RequestType /\ Prepared(state) /\ state.at # "dropToken"
  BY DEF At, RequestType, Steps, Prepared
<1>4. CASE CheckFree(r)
  BY <1>3, <1>4, OnlyARequestMoves DEF CheckFree
<1>5. CASE InsertUser(r)
  BY <1>1, <1>2, <1>3, <1>5, OnlyARequestMoves DEF InsertUser
<1>6. CASE FindUnverified(r)
  BY <1>3, <1>6, OnlyARequestMoves DEF FindUnverified
<1>7. CASE DeleteTokens(r)
  BY <1>2, <1>3, <1>7, OnlyARequestMoves DEF DeleteTokens
<1>8. CASE FindUser(r)
  <2>1. CASE Unverified(account)
    <3> DEFINE state == [request[r] EXCEPT !.at = "verify", !.account = account.id]
    <3>1. account.id \in Ids /\ account.id # 0
      BY <2>1 DEF Unverified, Inv, TypeOK, Ids
    <3>2. state \in RequestType /\ Prepared(state) /\ state.at # "dropToken"
      BY <1>2, <3>1 DEF RequestType, Steps, Prepared
    <3>3. Goto(r, state) /\ UNCHANGED <<account, tokens, mailbox, sessions, created, issued, history>>
      BY <1>8, <2>1 DEF FindUser
    <3> HIDE DEF state
    <3>4. QED
      BY <3>2, <3>3, OnlyARequestMoves
  <2>2. CASE ~Unverified(account)
    <3> DEFINE state == [request[r] EXCEPT !.at = "dropToken"]
    <3>1. ~Waiting
      BY <2>2 DEF Unverified, Waiting, NoAccount, User
    <3>2. state \in RequestType /\ Prepared(state)
      BY <1>2 DEF RequestType, Steps, Prepared
    <3>3. Goto(r, state) /\ UNCHANGED <<account, tokens, mailbox, sessions, created, issued, history>>
      BY <1>8, <2>2 DEF FindUser
    <3> HIDE DEF state
    <3>4. QED
      BY <3>1, <3>2, <3>3, OnlyARequestMoves
  <2>3. QED
    BY <2>1, <2>2
<1>9. CASE Crash(r)
  BY <1>1, <1>9, OnlyARequestMoves DEF Crash
<1>10. CASE \E t \in mailbox : OpenLink(r, t)
  <2>1. PICK t \in mailbox : OpenLink(r, t)
    BY <1>10
  <2> DEFINE state == At("findUser", 0, t, {})
  <2>2. state \in RequestType /\ Prepared(state) /\ state.at # "dropToken"
    BY <1>2 DEF At, RequestType, Steps, Prepared
  <2>3. Goto(r, state) /\ UNCHANGED <<account, tokens, mailbox, sessions, created, issued, history>>
    BY <2>1 DEF OpenLink
  <2> HIDE DEF state
  <2>4. QED
    BY <2>2, <2>3, OnlyARequestMoves
<1>11. QED
  BY <1>4, <1>5, <1>6, <1>7, <1>8, <1>9, <1>10

LEMMA StutterKeepsInv == Inv /\ UNCHANGED vars => Inv'
BY DEF Inv, TypeOK, UnverifiedHasToken, DroppedIsOld, Waiting, ArePrepared, Prepared, UsedIsGone,
       LinkWorksOnce, MaySignInIsProved, SessionsAreProved, Proved, Ids, Issued, vars

LEMMA NextKeepsInv == Inv /\ [Next]_vars => Inv'
<1> SUFFICES ASSUME Inv, [Next]_vars PROVE Inv'
  OBVIOUS
<1>1. ASSUME NEW r \in Requests,
             \/ CheckFree(r) \/ InsertUser(r) \/ FindUnverified(r) \/ DeleteTokens(r)
             \/ FindUser(r) \/ Crash(r) \/ \E t \in mailbox : OpenLink(r, t)
      PROVE  Inv'
  BY <1>1, ReadsKeepInv
<1>2. ASSUME NEW r \in Requests,
             \/ InsertToken(r) \/ Undo(r) \/ ReplaceToken(r) \/ Verify(r) \/ DropToken(r)
             \/ OAuthCheck(r) \/ OAuthCreate(r)
      PROVE  Inv'
  BY <1>2, InsertTokenKeepsInv, UndoKeepsInv, ReplaceTokenKeepsInv, VerifyKeepsInv,
     DropTokenKeepsInv, OAuthCheckKeepsInv, OAuthCreateKeepsInv
<1>3. ASSUME NEW r \in Requests, NEW arrives \in BOOLEAN, NEW throws \in BOOLEAN,
             SendMail(r, arrives, throws)
      PROVE  Inv'
  BY <1>3, SendMailKeepsInv
<1>4. CASE SignIn \/ GoogleOnPhone \/ DeleteAccount
  BY <1>4, SignInKeepsInv, GoogleOnPhoneKeepsInv, DeleteAccountKeepsInv
<1>5. CASE UNCHANGED vars
  BY <1>5, StutterKeepsInv
<1>6. QED
  BY <1>1, <1>2, <1>3, <1>4, <1>5 DEF Next

LEMMA InitEstablishesInv == Init => Inv
BY AccountsAssumption
   DEF Init, Inv, TypeOK, UnverifiedHasToken, DroppedIsOld, Waiting, ArePrepared, Prepared, UsedIsGone,
       LinkWorksOnce, MaySignInIsProved, SessionsAreProved, Proved, Ids, Issued, NoAccount, User,
       Idle, At, Steps

-----------------------------------------------------------------------------

\* The invariant that the theorems below are parts of: tables, handlers in
\* flight and history agree after every step of any handler.
THEOREM InvariantHolds == Spec => []Inv
BY InitEstablishesInv, NextKeepsInv, PTL DEF Spec

\* Every row, token and request has its type.
THEOREM AccountsTypeCorrect == Spec => []TypeOK
BY InvariantHolds, PTL DEF Inv

\* A registered account that waits for its verification has a token, whatever
\* resend-verification, a failed register or a stale link do meanwhile.
THEOREM UnverifiedHasTokenHolds == Spec => []UnverifiedHasToken
BY InvariantHolds, PTL DEF Inv

\* verify-email spends a link once.
THEOREM LinkWorksOnceHolds == Spec => []LinkWorksOnce
BY InvariantHolds, PTL DEF Inv

\* Nobody has a session for an account that no link verified and no identity
\* provider vouched for.
THEOREM SessionsAreProvedHolds == Spec => []SessionsAreProved
BY InvariantHolds, PTL DEF Inv

\* An account disappears because somebody signed in to it deleted it, or in
\* the rollback of the very registration that created it, and in no other way.
THEOREM DisappearsForAReasonHolds == Spec => DisappearsForAReason
<1> DEFINE Reason == \/ account.id \in sessions
                     \/ \E r \in Requests : request[r].at = "undo" /\ request[r].account = account.id
<1>1. ASSUME Next, account # NoAccount, account' = NoAccount
      PROVE  Reason
  <2>1. CASE DeleteAccount
    BY <2>1 DEF DeleteAccount
  <2>2. CASE \E r \in Requests : Undo(r)
    BY <1>1, <2>2 DEF Undo, UndoTarget
  <2>3. CASE \E r \in Requests : InsertToken(r) \/ OAuthCreate(r) \/ Verify(r)
    BY <1>1, <2>3 DEF InsertToken, OAuthCreate, Verify, NoAccount, User
  <2>4. CASE GoogleOnPhone
    BY <1>1, <2>4 DEF GoogleOnPhone, NoAccount, User
  <2>5. CASE \/ \E r \in Requests :
                  \/ CheckFree(r) \/ InsertUser(r) \/ FindUnverified(r) \/ DeleteTokens(r)
                  \/ ReplaceToken(r) \/ FindUser(r) \/ DropToken(r) \/ OAuthCheck(r) \/ Crash(r)
             \/ \E r \in Requests, arrives, throws \in BOOLEAN : SendMail(r, arrives, throws)
             \/ \E r \in Requests, t \in mailbox : OpenLink(r, t)
             \/ SignIn
    BY <1>1, <2>5 DEF CheckFree, InsertUser, FindUnverified, DeleteTokens, ReplaceToken, FindUser,
                      DropToken, OAuthCheck, Crash, SendMail, OpenLink, SignIn
  <2>6. QED
    BY <1>1, <2>1, <2>2, <2>3, <2>4, <2>5 DEF Next
<1>2. [Next]_vars => [account # NoAccount /\ account' = NoAccount => Reason]_vars
  BY <1>1
<1>3. QED
  BY <1>2, PTL DEF Spec, DisappearsForAReason
=============================================================================

------------------------------ MODULE Accounts ------------------------------
(***************************************************************************)
(* Accounts of the storefront: registration by e-mail, its verification    *)
(* links, sign-in and deletion (apps/web/src/auth.ts, app/api/auth and     *)
(* app/api/account/delete), for one e-mail address. Rows of other          *)
(* addresses are never read or written with it, and every writer lowers    *)
(* the case of an address, so a unique index leaves it one User row.       *)
(*                                                                         *)
(* A transaction that has begun shows nothing to the others, keeps its     *)
(* claim on the address and its locks on the rows it deleted, and deletes  *)
(* only the rows it saw (Postgres, READ COMMITTED).                        *)
(***************************************************************************)
EXTENDS Integers

CONSTANTS
  Requests,     \* request handlers that may run at once
  MaxAccounts,  \* bound: User rows ever created for the address
  MaxTokens     \* bound: verification tokens ever issued for it

ASSUME AccountsAssumption == MaxAccounts \in Nat /\ MaxTokens \in Nat

VARIABLES
  account,   \* the User row of the address, or NoAccount
  tokens,    \* its VerificationToken rows
  mailbox,   \* tokens whose link arrived by mail
  sessions,  \* accounts with a web session; a session outlives its account
  request,   \* each handler: where it is, and what it holds
  created,   \* User rows created so far
  issued,    \* tokens issued so far
  used,      \* history: which token verified which account
  vouched    \* history: accounts an identity provider vouched for

vars == <<account, tokens, mailbox, sessions, request, created, issued, used, vouched>>
history == <<used, vouched>>

Kinds == {"none", "password", "oauth", "phone"}

User(id, kind, verified) == [id |-> id, kind |-> kind, verified |-> verified]

NoAccount == User(0, "none", FALSE)

\* What a handler awaits next: the steps of register, resend-verification,
\* verify-email and a first OAuth sign-in.
Steps == {"idle", "insertUser", "insertToken", "mail", "undo",
          "deleteTokens", "replaceToken", "mailAgain",
          "findUser", "verify", "dropToken",
          "createUser"}

At(step, id, token, stale) == [at |-> step, account |-> id, token |-> token, stale |-> stale]

Idle == At("idle", 0, 0, {})

Init ==
  /\ account = NoAccount
  /\ tokens = {}
  /\ mailbox = {}
  /\ sessions = {}
  /\ request = [r \in Requests |-> Idle]
  /\ created = 0
  /\ issued = 0
  /\ used = {}
  /\ vouched = {}

Goto(r, state) == request' = [request EXCEPT ![r] = state]

\* An open registration holds the address in the unique index.
Claimed == \E q \in Requests : request[q].at = "insertToken"

Unverified(user) == user # NoAccount /\ ~user.verified

-----------------------------------------------------------------------------
(* POST /api/auth/register. *)

\* The address is free; hashing the password comes before the transaction.
CheckFree(r) ==
  /\ request[r] = Idle
  /\ account = NoAccount
  /\ Goto(r, At("insertUser", 0, 0, {}))
  /\ UNCHANGED <<account, tokens, mailbox, sessions, created, issued, history>>

\* tx.user.create waits for another claim of the address and fails, with the
\* request, if the address was taken; then tx.verificationToken.deleteMany.
InsertUser(r) ==
  /\ request[r].at = "insertUser"
  /\ ~Claimed
  /\ Goto(r, IF account = NoAccount THEN At("insertToken", 0, 0, tokens) ELSE Idle)
  /\ UNCHANGED <<account, tokens, mailbox, sessions, created, issued, history>>

\* tx.verificationToken.create and the commit.
InsertToken(r) ==
  /\ request[r].at = "insertToken"
  /\ created < MaxAccounts
  /\ issued < MaxTokens
  /\ account' = User(created + 1, "password", FALSE)
  /\ created' = created + 1
  /\ tokens' = (tokens \ request[r].stale) \cup {issued + 1}
  /\ issued' = issued + 1
  /\ Goto(r, At("mail", created + 1, issued + 1, {}))
  /\ UNCHANGED <<mailbox, sessions, history>>

\* A mail may arrive although sending it timed out, and get lost although it
\* did not. register rolls the account back, resend-verification does not.
SendMail(r, arrives, throws) ==
  /\ request[r].at \in {"mail", "mailAgain"}
  /\ mailbox' = IF arrives THEN mailbox \cup {request[r].token} ELSE mailbox
  /\ Goto(r, IF throws /\ request[r].at = "mail"
             THEN [request[r] EXCEPT !.at = "undo"]
             ELSE Idle)
  /\ UNCHANGED <<account, tokens, sessions, created, issued, history>>

\* Mutation: the clean-up finds the account by its address.
UndoTarget_ByEmail(r) == account

UndoTarget(r) == IF account.id = request[r].account THEN account ELSE NoAccount

\* Mutation: the two deletes of the clean-up are no transaction.
TokensAfterUndo_NotAtomic(r) == {}

\* A clean-up that finds no account to delete keeps the tokens too.
TokensAfterUndo(r) == IF UndoTarget(r) = NoAccount THEN tokens ELSE {}

Undo(r) ==
  /\ request[r].at = "undo"
  /\ account' = IF UndoTarget(r) = NoAccount THEN account ELSE NoAccount
  /\ tokens' = TokensAfterUndo(r)
  /\ Goto(r, Idle)
  /\ UNCHANGED <<mailbox, sessions, created, issued, history>>

-----------------------------------------------------------------------------
(* POST /api/auth/resend-verification. *)

FindUnverified(r) ==
  /\ request[r] = Idle
  /\ account.kind = "password"
  /\ ~account.verified
  /\ Goto(r, At("deleteTokens", 0, 0, {}))
  /\ UNCHANGED <<account, tokens, mailbox, sessions, created, issued, history>>

DeleteTokens(r) ==
  /\ request[r].at = "deleteTokens"
  /\ Goto(r, At("replaceToken", 0, 0, tokens))
  /\ UNCHANGED <<account, tokens, mailbox, sessions, created, issued, history>>

ReplaceToken(r) ==
  /\ request[r].at = "replaceToken"
  /\ issued < MaxTokens
  /\ tokens' = (tokens \ request[r].stale) \cup {issued + 1}
  /\ issued' = issued + 1
  /\ Goto(r, At("mailAgain", 0, issued + 1, {}))
  /\ UNCHANGED <<account, mailbox, sessions, created, history>>

-----------------------------------------------------------------------------
(* GET /api/auth/verify-email. A link opened after 48 hours, or whose token *)
(* was replaced, changes nothing.                                           *)

OpenLink(r, t) ==
  /\ request[r] = Idle
  /\ t \in tokens
  /\ Goto(r, At("findUser", 0, t, {}))
  /\ UNCHANGED <<account, tokens, mailbox, sessions, created, issued, history>>

FindUser(r) ==
  /\ request[r].at = "findUser"
  /\ Goto(r, IF Unverified(account)
             THEN [request[r] EXCEPT !.at = "verify", !.account = account.id]
             ELSE [request[r] EXCEPT !.at = "dropToken"])
  /\ UNCHANGED <<account, tokens, mailbox, sessions, created, issued, history>>

\* Mutation: the token is removed with deleteMany, which never fails.
MayVerify_AnyToken(r) == account.id = request[r].account

\* Mutation: the update does not mind which account it finds.
MayVerify_AnyAccount(r) == request[r].token \in tokens

\* user.update and verificationToken.delete both fail on a missing row.
MayVerify(r) ==
  /\ account.id = request[r].account
  /\ request[r].token \in tokens

\* The transaction waits for one that has deleted its token.
Verify(r) ==
  /\ request[r].at = "verify"
  /\ \A q \in Requests : request[r].token \notin request[q].stale
  /\ IF MayVerify(r)
     THEN /\ account' = [account EXCEPT !.verified = TRUE]
          /\ tokens' = tokens \ {request[r].token}
          /\ used' = used \cup {[token |-> request[r].token, account |-> account.id]}
     ELSE UNCHANGED <<account, tokens, used>>
  /\ Goto(r, Idle)
  /\ UNCHANGED <<mailbox, sessions, created, issued, vouched>>

\* Nobody was waiting for this link.
DropToken(r) ==
  /\ request[r].at = "dropToken"
  /\ tokens' = tokens \ {request[r].token}
  /\ Goto(r, Idle)
  /\ UNCHANGED <<account, mailbox, sessions, created, issued, history>>

-----------------------------------------------------------------------------
(* Signing in, on the web and on a phone, and leaving. *)

\* Mutation: a password is enough.
MaySignIn_Unverified(user) == user.kind = "password"

MaySignIn(user) == user.kind = "password" /\ user.verified

\* Credentials: authorize.
SignIn ==
  /\ MaySignIn(account)
  /\ sessions' = sessions \cup {account.id}
  /\ UNCHANGED <<account, tokens, mailbox, request, created, issued, history>>

\* OAuth, with consent: the signIn callback lets a known address and a new one
\* pass; Auth.js then refuses an address that was not created through OAuth.
OAuthCheck(r) ==
  /\ request[r] = Idle
  /\ account.kind \in {"none", "oauth"}
  /\ IF account = NoAccount
     THEN Goto(r, At("createUser", 0, 0, {})) /\ UNCHANGED sessions
     ELSE sessions' = sessions \cup {account.id} /\ UNCHANGED request
  /\ UNCHANGED <<account, tokens, mailbox, created, issued, history>>

\* The adapter creates the User row, or fails if the address was taken.
OAuthCreate(r) ==
  /\ request[r].at = "createUser"
  /\ ~Claimed
  /\ account # NoAccount \/ created < MaxAccounts
  /\ IF account = NoAccount
     THEN /\ account' = User(created + 1, "oauth", FALSE)
          /\ created' = created + 1
          /\ vouched' = vouched \cup {created + 1}
          /\ sessions' = sessions \cup {created + 1}
     ELSE UNCHANGED <<account, created, vouched, sessions>>
  /\ Goto(r, Idle)
  /\ UNCHANGED <<tokens, mailbox, issued, used>>

\* Google on a phone: one upsert, which also verifies the row it finds.
GoogleOnPhone ==
  /\ ~Claimed
  /\ account # NoAccount \/ created < MaxAccounts
  /\ account' = IF account = NoAccount
                THEN User(created + 1, "phone", TRUE)
                ELSE [account EXCEPT !.verified = TRUE]
  /\ created' = IF account = NoAccount THEN created + 1 ELSE created
  /\ vouched' = vouched \cup {account'.id}
  /\ UNCHANGED <<tokens, mailbox, sessions, request, issued, used>>

\* POST /api/account/delete. It removes no token and ends no session.
DeleteAccount ==
  /\ account.id \in sessions
  /\ account' = NoAccount
  /\ UNCHANGED <<tokens, mailbox, sessions, request, created, issued, history>>

\* A handler dies; an open transaction leaves nothing behind.
Crash(r) ==
  /\ request[r] # Idle
  /\ Goto(r, Idle)
  /\ UNCHANGED <<account, tokens, mailbox, sessions, created, issued, history>>

-----------------------------------------------------------------------------
Next ==
  \/ \E r \in Requests :
       \/ CheckFree(r) \/ InsertUser(r) \/ InsertToken(r) \/ Undo(r)
       \/ FindUnverified(r) \/ DeleteTokens(r) \/ ReplaceToken(r)
       \/ FindUser(r) \/ Verify(r) \/ DropToken(r)
       \/ OAuthCheck(r) \/ OAuthCreate(r)
       \/ Crash(r)
  \/ \E r \in Requests, arrives, throws \in BOOLEAN : SendMail(r, arrives, throws)
  \/ \E r \in Requests, t \in mailbox : OpenLink(r, t)
  \/ SignIn
  \/ GoogleOnPhone
  \/ DeleteAccount

Spec == Init /\ [][Next]_vars

-----------------------------------------------------------------------------
(* Properties. *)

Ids == 1 .. created
Issued == 1 .. issued

TypeOK ==
  /\ created \in 0 .. MaxAccounts
  /\ issued \in 0 .. MaxTokens
  /\ account \in [id : Ids, kind : Kinds \ {"none"}, verified : BOOLEAN] \cup {NoAccount}
  /\ tokens \subseteq Issued
  /\ mailbox \subseteq Issued
  /\ sessions \subseteq Ids
  /\ request \in [Requests -> [at : Steps, account : Ids \cup {0},
                               token : Issued \cup {0}, stale : SUBSET Issued]]
  /\ used \subseteq [token : Issued, account : Ids]
  /\ vouched \subseteq Ids

\* A registered account is never stranded: while it waits for verification a
\* token for it is in the table, whatever resends, rollbacks of other
\* registrations and stale links do at the same time.
UnverifiedHasToken ==
  account.kind = "password" /\ ~account.verified => tokens # {}

\* "Expiry and single use" (verify-email/route.ts): a link verifies one
\* account, even when it is opened twice and the address changes hands.
LinkWorksOnce ==
  \A u, v \in used : u.token = v.token => u = v

\* "Block credentials sign-in until the link is used" (register/route.ts): every
\* session belongs to an account that a link verified, or that an identity
\* provider vouched for.
SessionsAreProved ==
  sessions \subseteq vouched \cup {u.account : u \in used}

\* "register rolls back user" (storefrontMail.ts) reaches no further than its own
\* registration: an account disappears only because somebody signed in
\* deleted it, or because the mail of the very call that created it failed.
DisappearsForAReason ==
  [][account # NoAccount /\ account' = NoAccount =>
       \/ account.id \in sessions
       \/ \E r \in Requests : request[r].at = "undo" /\ request[r].account = account.id]_vars
=============================================================================

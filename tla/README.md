# A verification of OPUS

OPUS is a marketplace for limited-edition digital art: a Next.js storefront and API
(`apps/web`), an operator console (`apps/console`), an Expo app for collectors
(`apps/mobile`). Its registry of works lives in append-only JSONL files that the
request handlers of `apps/web` read and append to; accounts, orders and a mirror of
the catalogue live in Postgres through Prisma. There is no lock around a file, no
queue in front of one, and the repository has no tests. What this directory verifies is
therefore mostly one question, asked of one subsystem after another: *what does a ledger
still guarantee when every handler is a read, some awaits, and an append?*

Paths below are relative to `apps/web/src/` unless they begin with `apps/`.

## 1. Inventory

| Component | State it keeps | Operations | What makes it correct |
|---|---|---|---|
| JSONL ledgers (`lib/ledgerStores.ts`, `lib/privateStorage.ts`) | one file per ledger | append a row; read all and fold, the last row of a key wins; a failed read is an empty list | a reader sees a prefix of what was appended |
| Submission ledger and review (`lib/privateStorage.ts`, `lib/operatorSubmissionReview.ts`, `api/artwork-submissions/**`) | `submissions.jsonl`, master files | register, review, withdraw, change editions, acknowledge a notice, repair | withdrawal is final and only before the review is; editions fixed once decided |
| Ownership and transfer (`lib/privateStorage.ts`, `lib/demoPrimaryPurchase.ts`, `api/artwork-sales/settle`) | `ownership-events.jsonl`, master files | settle a sale, demo purchase | file, submission row, owner and certificates tell one story, in an order a crash respects |
| Edition certificates (`lib/editionCertificate.ts`) | `edition-certificates.jsonl` | issue on approval, backfill on a visit, reissue on transfer | only approved editions; one chain per edition |
| Chronicle (`lib/chronicleLedger.ts`) | `chronicle-entries.jsonl` | append ISSUED entry | one chain per submission, only for approvals |
| Mint queue (`lib/onchainMintQueue.ts`) | `onchain-mint-jobs.jsonl` | enqueue on approval, sweep due jobs, retry with backoff | one job per submission, no more attempts than allowed but one per failure, no unlogged transaction, every job settles |
| Catalogue mirror (`lib/chroniclePrismaSync.ts`, `lib/editionLedgerBinding.ts`) | `Artwork`, `Edition`, `ChronicleEntry` tables | copy an approval (not awaited), link older rows to submissions, copy what is missing when the list is opened | one genesis entry per issued edition; every certified work whose artist and approver have accounts gets its row; a link once made stays |
| Payments (`api/payments/**`) | `Order`, `Payment`, `PaymentEvent` | create an order under an idempotency key; webhook | one order per key; order and payment agree; an event counts once |
| Device binding (`lib/deviceBinding.ts`, `api/mobile/device/**`) | `device-bindings.jsonl` | register, take over, status | one active device, epochs only grow, a takeover does not strand the user |
| Leases (`lib/mobileAssetLease.ts`, `lib/mobileLeaseReplayStore.ts`, `api/mobile/artwork/**`) | `mobile-lease-uses.jsonl`, in-memory rate buckets | issue a lease, download once with it | a lease is used once, by the active device of the owner |
| Mobile tokens (`lib/mobileAuthToken.ts`, `api/mobile/auth/**`) | none (signed) | sign in, refresh | a refresh token is single-use and dies with its device |
| Mobile app (`apps/mobile/src/{auth,security}`) | keychain, encrypted files | boot, poll, ask for the status, download, wipe | a revoked device that asks keeps nothing |
| Accounts (`auth.ts`, `api/auth/**`, `api/account/delete`) | `User`, `VerificationToken` | register, verify, resend, delete | no sign-in before verification; a token works once |
| Transfer listings (`lib/collectorTransferListings.ts`) | `collector-transfer-listings.jsonl` | create | an open listing belongs to the owner |
| Roles and consent (`auth.ts`, `apps/console/src/auth.ts`, `api/operator/{staff-role,users}`, `api/auth/artist-upgrade`) | `User.role` and consent stamps, `operator-role-audit.jsonl` | sign in, upgrade, change a role and log it | operator power is traceable in the log; a designated address is an operator once it has signed in |
| Tile sessions, profiles, payment methods | small JSONL or Prisma rows | grant, record | single-request, little to interleave |
| Catalogue, search, images, pages, console, packages, infrastructure | none of their own | read and render | presentation |

How they interact. An approval (`runOperatorSubmissionReview`) appends to the submission
ledger, then to the chronicle, then one certificate per edition, then links the
catalogue, then enqueues a mint job; each of these later writes may fail alone. A sale
renames the master file, appends the submission row with the new path, appends the
ownership event, rereads the submission and reissues the certificates. A visit of a
certificate page issues missing certificates, a visit of "my artworks" acknowledges
notices: both are writes by readers. The mobile endpoints read the device, submission and
ownership ledgers on every call.

What is hard: handlers interleave at every `await`; every patch is a copy of the whole
submission as it was read; a crash or an exception leaves a handler's writes half done; a
reader's `catch` turns an unreadable file into an empty one; the mint worker talks to a
chain that may confirm late. `PROJECT.json` lists each hazard at its line.

## 2. Modules

| Module | What it is |
|---|---|
| `JsonlLedger` | a ledger as a sequence of rows with a `key`; `Has`, `Latest`, `ReadRows` |
| `LedgerTheorems` | lemmas about those operators, for every ledger |
| `JobLifecycle` | abstract: a mint job per submission, with no ledger, worker or clock |
| `OnchainMintQueue`, `MCOnchainMintQueue` | the mint queue and its instances |
| `OnchainMintQueueProofs` | its inductive invariant and theorems |
| `SubmissionLifecycle` | abstract: status, editions and "was sold" of each submission |
| `ArtworkRegistry`, `MCArtworkRegistry` | submission, ownership, certificate and chronicle ledgers with all their handlers, and the instances |
| `ArtworkRegistryProofs` | its inductive invariant and theorems |
| `Payments`, `MCPayments` | checkout and webhook over the order, payment and event tables |
| `PaymentsProofs` | its inductive invariant and theorems |
| `DeviceBinding`, `MCDeviceBinding` | the device ledger of one account, its handlers and the phones |
| `DeviceBindingProofs` | its inductive invariant and theorems |
| `Accounts`, `MCAccounts` | registration, verification, sign-in and deletion of the accounts of one address |
| `AccountsProofs` | its inductive invariant and theorems |
| `Roles`, `MCRoles` | the role of every address, what writes it in both applications, and the audit log |
| `RolesProofs` | its inductive invariant and theorems |
| `CatalogMirror`, `MCCatalogMirror` | the rows Postgres keeps of the works of one artist, the copies and links that write them, and what approvals and certificates give them to do |
| `CatalogMirrorProofs` | its inductive invariant and theorems |

### Mint queue

`jobs` is the file; a row is `[key, job, status, attempt, next]` for
`{submissionId, id, status, attemptCount, nextAttemptAt}`. `EnqueueRead` is
`enqueueMintJobForApprovedSubmission` up to the row it builds, `EnqueueAppend` its append,
`EnqueueThrows` the configuration errors. `Sweep` is the read, filter, sort and slice of
`processDueMintJobs`; then for each due job `AppendSubmitted`, `Broadcast`
(`sendMintTxWithPolicy` up to the hash), `AppendConfirmed` (the receipt) or
`AppendFailure` (the catch block, before or after the broadcast). `SweepAborts` is a throw
inside the catch block, `Crash` the death of the process. The clock moves only while some
job waits for it. Gas, networks, ABI and arguments are data and left out.

### Registry

`handler[h]` is a request in flight: the step it is at and the submission copy it holds.
Submission rows keep `status`, `mint` (`initialMint`), `file` (`storedFile.relativePath` by
directory). Other fields never reach a guard of these handlers, but for the operator's note,
which decides only whether a visit acknowledges it: `Acknowledge` leaves that open. Approving
explicit content is recorded by the code as a rejection, so it is the decision "rejected".
`appendSubmission` reads the ledger once more and merges the copy in hand over it
(`lib/privateStorage.ts:221`). The modelled fields are in every copy, so the copy's win, however
old it is, and the reread has no action; an optional field the copy lacks would keep the
value read again. `repairCanonicalSubmissionLedgerSnapshots` appends a
snapshot of every submission it listed; the model takes one submission per request.
Submission ids are fresh, so an id whose file was stored is not registered again.

An append of one line is atomic: the code writes it with one `writeFile(..., "a")`. A torn
line would make the file unparsable, which is what a failed read stands for. Where a run
sets `ReadsFail`, any read may return no rows. A failed read of the submission ledger at
the start of a request ends it, and is no step.

### Payments

The tables are the committed rows; `request[r]` is a handler in flight with the statement it
stops before and what its transaction has staged. Prisma's interactive transactions await
every statement, so `InsertOrder`, `InsertPayment`, `InsertEvent`, `UpdatePayment`,
`UpdateOrder` and `Commit` are steps, and Postgres at READ COMMITTED is what they contend for:
staged rows are invisible, a unique key claimed by an open transaction makes a second writer
wait and then fail, an updated row stays locked until the end. `Abort` is a crash, a dropped
connection or Prisma's time-out; after the commit it loses only the reply. The provider is not
in the repository: `Emit`, `ProviderAllows` and `TypesEmitted` are an external provider that may
fail a payment repeatedly, then succeeds or cancels once, then may refund, and delivers
anything it has not seen answered, in any order. Assumed of it, because the webhook does: it names
an event by one of the four types `mapEventType` knows. Any other name would be taken for a refund
(`api/payments/webhook/mock/route.ts:38-41`). `events` is in commit order; `receivedAt` is
stamped at the insert and may order two overlapping events the other way. The code applies
events as they come: a success delivered after the refund makes the order paid again, payment
and order alike. `OrderFollowsEvents` says what the code does keep, that the two never
disagree. `GET /orders/[id]` changes nothing.

### Device binding

`bindings` holds the rows of one account, `[type, device, epoch]`; the readers skip the rows of
others. `PressRegister` is the button and the route up to its first row; `Decide` the read and the
three answers; `ConfirmTakeover` the OK of the alert and the route's read; `AppendRevoke` and
`AppendActivate` the appends after it. A phone keeps the id in its keychain (`stored`), the
one its profile screen read when mounted (`shown`), the id an open question will send
(`prompt`), and whether the notice that it was revoked is open (`told`). A request
whose answer is lost ends in the same ledger, so losing one has no action. `CheckStatus` is the status button
with an answer that says revoked, `Wipe` the OK of the notice it opens, `WipeFails` a wipe that did
not reach the device id or a notice closed with the app, `PressWipe` the wipe button.

The account is the one the profile screen names, `collector-demo-001`, and its calls carry only
the development headers: the model is of a server that honours them. In production `authContext.ts:34-42`
answers all of them 401, and neither side changes. The poll that a signed-in app makes by itself
(`App.tsx:34-37`) asks as the signed-in user, for whom no device is registered: it never wipes, in
development because the answer is about another account and in production because it is refused.
`Poll` is that, a call that at most creates a device id.

`status` says revoked to a device that was ever revoked, active or not, so a device that
took over twice wipes itself and returns as a new one; and the profile screen goes on with the id
it read. No document says otherwise, and no property is claimed against it.

### Accounts

Rows of different addresses never meet and every writer lowers the case of an address, so the
model is of one address: at most one `account`, its `tokens`, and the `mailbox` of links that
arrived. Transactions are as in Payments: registration is `CheckFree`, `InsertUser` (the unique
index, and the tokens its `deleteMany` sees), `InsertToken` (the commit), `SendMail`, and `Undo`,
the clean-up after a failed mail; a resend is `FindUnverified`, `DeleteTokens`, `ReplaceToken`,
`SendMail`; a link is `OpenLink`, `FindUser`, then `Verify` or `DropToken`. The batch transactions of
`Undo` and `Verify` are one step each, since every row they touch stays locked. A crash is possible
between any two steps, and a link may be opened any number of times. The mail service and
Auth.js are external; Auth.js refuses OAuth for an address that has an account of another
kind, which changes nothing and is no action. Roles and consents are `Roles`; expiry gates none of
these steps: a link opened too late does nothing. `used` and `vouched` are history.

`Undo` deletes by id whatever became of the account, so a mail that arrived although sending it
timed out can verify an account that is then deleted, signed in to or not.
`DisappearsForAReason` allows it, and no more: nothing of a later registration goes with it.

### Roles

`user[a]` is the `User` row of an address, `n` counting the rows it has had so that a handler's
remembered id may be that of a deleted one; `Updated` is `prisma.user.update` by id, which then
throws. A session carries an id, and every request reads the role of that row, so a handler's
caller is checked in the step that begins it. `OAuthSignIn`, `SyncRole`, `BecomeArtist` are the
storefront's `signIn` callback, which reads the row and the consent cookie once; `InsertUser` is the
adapter's own look for the row, which ends the sign-in when it finds one and inserts one when it
does not, so a row deleted after the callback is created anew, consent or not; `Welcome` and
`StampConsent` are `events.createUser`, which stops after the first without the cookie. The console has its own
callbacks, its own longer list and no consent: `ConsoleSignIn`, `ConsoleSession`, `FindListed`,
`Promote`. The two endpoints for role changes differ only in how they name the target, and are
`BeginChange`, `ReadTarget`, `SetRole`, `AppendAudit`; nothing reads the order of the audit log,
so it is a set. `CutShort` is a crash, a failed write, or the fifteen minutes of the consent
cookie running out in `createUser`. Who may sign in to an address is `Accounts`.

`PowerIsTraceable` says more than "a grant has a row": no group of users without a
designated one can hold an operator unless somebody outside it granted that, so following the
log ends at a designated address. A role is written before it is logged, and a handler that
dies in between leaves power nothing explains; the property allows each handler cut short one
such user, and no more: everything else must still be explained, including what such a
user grants. It holds although operators are demoted, delete their accounts and register again
while their requests are under way.

### Catalogue mirror

`review` and `certificates` are what the mirror reads of the ledgers; their own hazards are
`ArtworkRegistry`. A row of `review` says who approved the work, if it is approved. `artwork` holds
one row per work and one per artwork that was in the table before its `opus_submission_id` column,
each with the issued numbers of its `Edition` rows and a count of their genesis entries (`FirstRow`;
an older row is assumed to have an entry for every number it calls issued). `syncs` are the calls of `syncIssuanceToPrismaAfterJsonl` that
were started and not begun, `transactions` those in the database. The transaction begins with an
upsert of the `Artwork` row, which holds that row, or its place in the unique index, to the end:
`MayBegin` and `MayLink` are that wait, so what a transaction found at `SyncBegin` is
current at `SyncCommit`. `Approve` includes the chronicle entry and the start of the copy: nobody
awaits it, so it may begin any time later. `gone` are the deleted accounts. A copy names the artist
and the approver; it ends silently without the one's row and fails on the foreign key without the
other's, every time (`SyncRefused`), where `SyncFails` is a failure that another attempt may
not meet. `DeleteAccount` is refused for an artist the tables name, and waits for an open transaction
that names it; the artist may also have left before. A handler's `links` are the pairs it read and will update one by one.
A work's submission is approved, certified as far as it gets (the loop runs from edition 1,
so certificates are a prefix), linked by certificate, and only the operator's list goes on to
`ensurePrismaCatalogForCertifiedSubmissions` (`Mirror`, `Awaited`); the last update of a
list and the reading after it are one step, and so are the queries `FromCertificates` makes for one
submission after another. Where Prisma returns rows in no stated order, `Link`
takes any pair next. All works have one artist and one edition size, since rows of others are
never candidates for one another. The owner column is left out: no handler of the storefront
reads it, and the copy resets it to the artist whenever a work is approved again, as it
resets `isIssued` to the approval's `initialMint`.

## 3. Runs

| Run | Instance | Shows |
|---|---|---|
| `mint_serial` | 2 submissions, 1 enqueuer, 1 sweep of limit 1, 2 attempts, 2 jobs, 1 fault | with one handler of each kind the queue implements `JobLifecycle`; retries, backoff and settling are as documented, and a job is submitted no more often than it may, plus once per failure |
| `mint_concurrent` | 1 submission, 2 enqueuers, 2 sweeps, failing reads | every transaction is logged even so |
| `registry_serial` | 1 submission, 4 requests, 2 kinds of buyer, 1 fault | one request at a time, dying anywhere: the lifecycle, the chains and the master file agree; certificates catch up |
| `registry_concurrent` | 1 submission, 2 overlapping handlers, 4 requests, 1 fault, failing reads | approvals justify certificates, and transfers leave a trail: no owner before the row that says where the file went |
| `registry_stale_withdraw` | 2 handlers, no fault | violation of `WithdrawnWhileOpen` |
| `payments_overlap` | 2 requests, 2 idempotency keys, 2 events, 1 abort | one order per key, an event counts once, order and payment agree, an acknowledged event is recorded, every event arrives |
| `devices_overlap` | 2 phones, 2 overlapping calls, 2 devices, 5 rows, 1 fault | only registered devices are activated; a call pushes out only what it asked about or could not see; a pushed-out phone that asks wipes; an account a takeover left without a device gets one |
| `accounts_overlap` | 2 overlapping requests, 3 accounts, 4 tokens | a waiting account has a token, a link works once, no session without proof, a failed registration removes only itself |
| `roles_overlap` | 3 addresses, one of them designated, 2 overlapping requests, 2 rows per address and 3 in all, 1 row in the audit log, 1 handler cut short | operator power is traceable, but for one user per handler cut short |
| `roles_designated` | 1 designated address, 1 request, no fault | violation of `DesignatedAfterSignIn` |
| `mirror_overlap` | 2 works, 1 older row, 1 operator, a review and a list that overlap, 2 approvals, 1 failure or deleted account | one genesis entry per edition, no issued edition without one, certified works whose artist and approver have accounts get their row |
| `mirror_relinks` | 2 works of edition size 1, 1 older row | violation of `LinksStay` |

Bounds. Submissions do not interact in the registry except through a shared file, where
only rows of the same key are read, so one is enough there; the mint queue needs two to
compete for a sweep. `MaxMint = 2` is the least for which a loop over editions can be cut
short; `MAX_EDITIONS` is 20. `MaxAttempts = 2` has a first, a last and no other
attempt; the code's is 5, and the theorems are for every value. Four requests are a
registration and three others, enough for approve, sell and interfere. One fault falls
anywhere. `MaxRequests`, `MaxJobs`, `MaxRows` and `MaxFaults` bound counters the code does not have.
Handlers are interchangeable, so the concurrent safety runs use symmetry; the runs with
liveness do not.

Two requests are what a lock or a unique key has to decide between, and two events are a
success and its refund, a failure and its retry, or two deliveries that race. Five
rows of the device ledger let one phone register, another ask and take over, and the first
register again during it; a takeover begins only where a registration still fits after it, so an account
can recover when the takeover breaks.
Three accounts of one address are the failed registration, the one it must not touch and another
after it; four tokens are one for each and a resend.
Three addresses are a designated operator and two whom that one may promote and who may then
change each other; two rows per address let one account be deleted and created anew, and one row of
the log is the grant everything else must follow from; the theorem is for every number. The mirror needs two works to compete for one older row,
two editions for an edition that grows between two approvals, and a review beside a list for a copy
that races a link; two handlers of one kind contend for nothing else. One operator is enough for a
copy that may name nobody any more; two operators differ only in what the copy names. `MaxUsers`, `MaxChanges`,
`MaxApprovals`, `MaxEvents`, `MaxDevices`, `MaxAccounts`, `MaxTokens` and the ledger bound of `DeviceBinding` stand for counters the code does
not have.

The registry, device, account, role and mirror runs do not check deadlock: a system whose requests or
tokens are used up stops. The mint and payment runs do, except where the row bound of `mint_concurrent` stops it.

Serial runs are not a claim that the deployment serialises requests. They separate what a
*crash* can do to a sequence of requests from what *overlap* can do, and
`registry_concurrent` and `mint_concurrent` what withstands the second. Properties of the serial runs that
overlap breaks are not repeated as violations; the list below names them.

Fairness. A request that has begun keeps running (`WF` of its steps): Node does not starve
a resolved promise. `Sweep` is weakly fair only under the assumption that operators keep
calling the process endpoint, for which the code has no timer; `Backfill` only under the
assumption that certificate pages keep being visited. Enqueueing, reviews and sales are not fair.
The provider's redelivery is strongly fair per event: it retries until a 200, and a free handler is
not always there. Checkout and new events are not fair. Whoever looks at the profile screen
is assumed to press the status button again and again and to answer the notice (`WF` of `CheckStatus`
and `Wipe` per phone): no code of the app does either by itself. `RegisterAgain` assumes that someone on
an account without a device keeps pressing register; it is strongly fair, because an open notice covers
the button for a while. Nothing else on the phones is fair. Handlers of the mirror and
its copies go on (`WF`). `ListEditions` is strongly fair, which assumes that operators keep opening the list
and that one of those requests finds a free handler; no approval, visit or backfill is assumed.
`Roles` has no liveness property and no fairness.

### Where the code departs from its comments

* `registry_stale_withdraw`: `lib/privateStorage.ts:587` allows withdrawal only during review;
  a review appended between 621 and 630 is overwritten.
* `roles_designated`: `auth.ts:56` promises that designated operators are operators after they sign
  in; at a first OAuth sign-in the role of the consent cookie (202-205) is written over the
  promotion (197).
* `mirror_relinks`: `lib/editionLedgerBinding.ts:13` promises no guessing; the sole unlinked
  row of an artist is paired with every certified work (141), and the updates (168) take it from one
  work to the next. The work that lost it is copied by the next list, which is `MirrorCatchesUp`.

Met while modelling, and stated without a run of their own:

* two overlapping approvals queue two mint jobs (`lib/onchainMintQueue.ts:310` promises one; the
  idempotency key is written and never read), so `QueuedOnce` and `ImplementsLifecycle` of the queue
  are properties of `mint_serial`;
* two overlapping sweeps take up each other's submitted rows, before their backoff and past
  `maxAttempts`, and may write a failure over a confirmation: `BackoffHonoured` and `RetryBudget` fail
  too. Without overlap, a sweep that dies after its last submitted row still gives that job one more
  attempt, which is why `RetryBudget` counts the failures;
* two visits of a certificate page append two first certificates (`lib/editionCertificate.ts:256`), and
  two approvals two chronicle entries with one predecessor, so `CertificatesChained` and
  `ChronicleChained` are properties of `registry_serial`;
* a copy read before another request's row and appended after it undoes that row: a review or an edition
  change is lost or overwritten, which is no step of `SubmissionLifecycle` (`ImplementsLifecycle` of the registry), and a
  notice, a repair or a review overwrites the place of a file that a sale moved meanwhile, so
  `OwnerHasTheMaster` fails: readers take the last row, and it names the wrong directory;
* "all changes are audit-logged" (`api/operator/staff-role/route.ts:21`, and `users/[id]/role/route.ts:21`)
  fails when the handler dies between the update (54) and the append (59). `PowerIsTraceable` bounds what
  that costs;
* operators who demote each other at once each pass the `self_guard`, and none may be left; nothing in
  the repository promises otherwise, and a designated address that signs in has the power back;
* "New OAuth accounts are rejected without the short-lived signed consent cookie" (`auth.ts:33`) fails for
  a row that is deleted between the `signIn` callback (134) and the adapter's lookup: Auth.js
  creates a user and `createUser` returns at 198;
* "the app must wipe local assets/keys and log out immediately" (`api/mobile/device/status/route.ts:14`): the
  app's own poll (`apps/mobile/App.tsx:34-37`) asks for another account than the profile screen
  registers (`ProfileScreen.tsx:16`), in production both are refused (`lib/authContext.ts:34-42`), and the wipe
  does not log out (`wipe.ts:22`). `PushedOutPhoneWipes` is about the status button, in development;
* a work whose approver's account was deleted gets no catalogue row until somebody else approves it
  (`lib/chroniclePrismaSync.ts:148`), and one whose artist's account was deleted never does and nothing is
  logged (116), although lists try again each time;
* an edition cut down and approved again takes back `isIssued` from editions whose genesis entry
  stays, and any repeated approval resets the owner column to the artist;
* registration on the console adds a password to an account that exists, and deletes that account
  when the mail fails (`apps/console/src/app/[locale]/register/actions.ts:124`).

## 4. Proofs

All theorems hold for every number of submissions, handlers, requests and faults, and every
`MaxMint`, `MaxAttempts` and `Backoff`, under the assumptions named in the modules
(`MintQueueAssumption`, `RegistryAssumption`, `PaymentsAssumption`, `DeviceAssumption`,
`AccountsAssumption`, `RolesAssumption`, `MirrorAssumption`), which TLC evaluates on the instances.

*Ledgers* (`LedgerTheorems`). `LatestIndex` is 0 or the greatest position of the key; the
latest row after an append is the appended row or, for other keys, unchanged.

*Mint queue*. `EveryTxIsLogged` is not inductive: a transaction is sent from the row a sweep
holds, not from the ledger. The invariant adds that a worker past `AppendSubmitted` finds its
attempted row in the ledger, that due rows carry a type and an attempt number, and that a row's
status fits its number. Every action then preserves the ledger facts by one lemma about appends.

*Registry*. `IssuanceIsApproved` needs to know what a handler in flight holds: one at the
certificates has a submission row that an approved ledger row justifies, with at least as many
editions; one about to record an owner has a move row in the ledger; one about to reissue has the
ownership event, and the certificate it will replace. `JobOK(j, subs, own, certs)` says so
for a handler given the ledgers, `JobStaysOK` that it survives every append, so each action
only has to establish it for the handler that moves. `CustodyTrail` follows from the same invariant.

*Payments*. The tables alone are not inductive: a commit appends what was staged many steps
before. The invariant adds that staged statuses come from the request's event
(`RequestFits`), and that two open transactions never claim one unique key and no open one claims
a key already in a table (`RequestsApart`). Uniqueness of orders and events follows, and
`OrderFollowsEvents` because only the commit of the claimed event moves a row.

*Device binding*. The lemmas say what an append does to `Active` and `LastActivation`. The
invariant says of every call in flight that its device has registered and that what it found
active is still active, gone, or followed by an activation it has not seen
(`ReplacesAtMost`); `ReplacesAtMostStays` carries that over any append. That `Epoch` is a number
is an induction over the prefixes of the ledger, by its least counterexample.

*Accounts*. `UnverifiedHasToken` breaks if a handler about to drop a link nobody waits for drops
the last token of an account registered since. The invariant says such a link is older than some
token in the table (`DroppedIsOld`), which every commit preserves because its token is new and
every drop because the newest token is nobody's to drop. `UsedIsGone` (a used token is no longer in
the table) gives `LinkWorksOnce`; `MaySignInIsProved` gives `SessionsAreProved`.

*Roles*. `PowerIsTraceable` is not inductive, because operators act through handlers: a role
change was begun by somebody who was an operator then and may be nothing now. The invariant
states it for every group that holds an operator or the caller of a role change in flight, with one
set of users the log says nothing of, no larger than the number of handlers cut short. A step that
brings a first such member into a group brings a grant with it: its caller either is outside the group,
or was such a member already. A handler cut short with its grant unlogged adds the one user it was about to the set.

*Catalogue mirror*. Uniqueness of the genesis entry needs the lock: two open transactions are of
different submissions (`Apart`), what one found is what is there (`SeenIsCurrent`), and two
transactions never write one row, which needs one row per submission (`LinksUnique`) and that the
row a copy creates is nobody else's (`OwnRows`). `IssuedIsChronicled` follows: a commit
writes an entry for every issued number it did not find one for.

*Not under overlap.* Some properties hold only of requests that do not get into each
other's way, and the code has no lock that keeps them apart. Their theorems take that as a
hypothesis on the behaviour, in the form in which a lock would give it, not as one on the number of
handlers. `SweepsInTurn`: no two sweeps run at once. `Serialised`: besides, no two approvals
hold a new job for one submission. `Apart`: no two requests hold one submission; any number of
requests for different ones overlap. The serial runs, with one handler of each kind, are
instances of it. `ReadsFail = FALSE` where
a theorem names it: a read that fails and returns no rows makes a check let anything through.
"Where the code departs from its comments" lists what breaks without them.

* `BackoffHonoured` (under `SweepsInTurn`): a sweep submits a job long after it picked it. The invariant says
  that the jobs it has left are of different submissions (`DueDistinct`), that each still has a
  due row (`DueKept`), and that an approval writes no time later than its clock (`EnqueuedInTime`), so
  a job queued meanwhile is due as well.
* `RetryBudget` (under `SweepsInTurn`): the rows of a job are counted by their numbers. Two rows of one attempt
  number are never of one job (`NumbersDiffer`), a fresh job has none (`Fresh`), the latest row and the
  one in hand carry the highest number (`Numbered`), and numbers stay within `MaxAttempts + faults`: a job
  at that limit is the one in hand of a sweep (`LastUnderWay`), and only a failure ends the sweep without
  closing it, which raises the limit.
* `QueuedOnce` and `ImplementsLifecycle` of the queue (under `Serialised`, reads do not fail): what an approval
  saw is so when it appends (`StillNeeded`), because a sweep holds only jobs of submissions with a
  live one (`InHandLive`). Each append is then a step of `JobLifecycle` and every other action a stutter.
* `ChronicleChained`, `CertificatesChained` (under `Apart`, reads do not fail): the row about to be
  appended links to the last one of its submission or edition (`LinkOK`). `getLatestEditionCertificate` picks
  by version and the chain is by position, so the invariant adds that versions grow along the
  ledger (`VersionsGrow`): then the highest version is the last row.
* `OwnerHasTheMaster` (under `Apart`): of every submission, either the place of the file, its latest
  row and its owner agree (`Settled`), or a handler is half way through a registration or sale of
  it, and holds what it has yet to write (`PlaceInHand`). The rows others append leave the place alone
  because what they hold says where the file is.
* `ImplementsLifecycle` of the registry (under `Apart`, reads do not fail): the copy in hand differs from the
  latest row only as its request may change it (`ReviewInHand`, `Allowed`), a stored file keeps its id
  from being registered again (`Stored`), and the owner check of a withdrawal or an edit still holds
  when it appends. Decisions, edits and sales map to the steps of `SubmissionLifecycle`; the copies appended by
  moves, holds and repairs are stutters.

Only model-checked: liveness (`JobsSettle`, `CertificatesCatchUp`, `EventsArrive`, `PushedOutPhoneWipes`,
`AccountRecovers`, `MirrorCatchesUp`), which needs fairness and ENABLED; the three violations, which are
counterexamples; and what `retryDelayMs` computes, a power of two. Every other
property of a run is a theorem.

## 5. Not modelled

The model covers what keeps state and is written by more than one step. Most lines of the repository
render pages: forms, message catalogues in three languages, tables, vault and certificate pages;
they read the state modelled here and have none of their own. Left out besides:

* *Leases and downloads*: a signed grant with one piece of state, the file of used ids. Its check and its
  append are separate (`lib/mobileLeaseReplayStore.ts:35`), and the id is used up before the checks
  that may still fail (`download/route.ts:83`). The rate buckets are in memory and per process. The
  app sends its lease in `x-opus-lease-token` where the route reads a bearer token, so the two
  halves do not compose.
* *Mobile tokens*: signed, stateless, bound to the device epoch that `DeviceBinding` maintains.
* *Transfer listings*: an append after a check of the owner; no code closes a listing or acts on it.
* *Tile sessions, profiles, payment methods*: one row of one user, last writer wins.
* *Seller consent*: an append nobody reads.
* *Console*: besides its sign-in, which is in `Roles`, a proxy for the internal operator API.
  Its own registration by password is the storefront's without the check of what a roll-back removes.
* *Backup and restore*: shell scripts run by hand.
* *Data*: signatures, hashes, amounts, prices, images, titles and notes, except where one decides a
  step; the modules name each.

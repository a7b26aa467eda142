--------------------------- MODULE CatalogMirror ---------------------------
(***************************************************************************)
(* The mirror of the registry in Postgres (apps/web/src/lib:               *)
(* chroniclePrismaSync.ts, editionLedgerBinding.ts and their callers in    *)
(* chronicleLedger.ts, operatorSubmissionReview.ts and                     *)
(* operatorIssuedEditionList.ts), for the works of one artist, all of the  *)
(* same edition size.                                                      *)
(*                                                                         *)
(* An approval appends its rows to the ledgers and starts, without         *)
(* awaiting it, a transaction that copies the approved work into the       *)
(* Artwork, Edition and ChronicleEntry tables. Works those tables held     *)
(* before they knew submissions, and works whose copy failed, are linked   *)
(* or copied later, by the next approval or when an operator lists the     *)
(* issued editions. The ledgers themselves are ArtworkRegistry.            *)
(*                                                                         *)
(* The rows name the artist and whoever approved the work, and accounts    *)
(* may be deleted (api/account/delete/route.ts): a copy that would name a  *)
(* deleted account is refused, however often it is tried.                  *)
(***************************************************************************)
EXTENDS Integers, FiniteSets

CONSTANTS
  Submissions,   \* works of the artist in the submission ledger
  Legacy,        \* Artwork rows from before the column opus_submission_id
  Title,         \* the submission whose title a legacy row bears
  LegacyIssued,  \* the numbers its Edition rows say are issued
  Total,         \* the edition size of every work
  DualWrite,     \* OPUS_PRISMA_CHRONICLE_DUAL_WRITE
  NoSubmission,  \* the column is null
  NoRow,         \* there is no row
  Artist,        \* her account
  Operators,     \* accounts of operators
  Nobody,        \* no operator
  Reviews,       \* handlers of reviews that may run at once
  Lists,         \* handlers of the operator's list and backfill
  MaxApprovals,  \* bound: approvals
  MaxFaults      \* bound: failures, and accounts deleted

Editions == 1 .. Total

ASSUME MirrorAssumption ==
  /\ Total \in Nat \ {0}
  /\ DualWrite \in BOOLEAN
  /\ {NoSubmission, NoRow} \cap Submissions = {}
  /\ NoSubmission # NoRow
  /\ Nobody \notin Operators
  /\ Submissions \cap Legacy = {}
  /\ LegacyIssued \in [Legacy -> SUBSET Editions]
  /\ Lists \cap Nat = {}
  /\ Reviews \cap Lists = {}

Requests == Reviews \cup Lists

\* A work that is copied gets a row of its own.
Artworks == Submissions \cup Legacy

VARIABLES
  review,        \* latest row of each submission: who approved it, initialMint
  certificates,  \* editions with a certificate
  artwork,       \* each Artwork row with its Edition and ChronicleEntry rows
  syncs,         \* copies that have been started
  transactions,  \* copies with an open transaction
  request,       \* each handler: where it is, and what it holds
  approvals,     \* approvals so far
  gone,          \* accounts that were deleted
  faults         \* failures and deletions so far

vars == <<review, certificates, artwork, syncs, transactions, request, approvals, gone, faults>>

\* from: the approval, or the list, that started the copy.
Sync(s, mint, by, from) == [submission |-> s, mint |-> mint, by |-> by, from |-> from]

\* A transaction knows the editions whose genesis entry it found.
Transaction(sync, seen) == [sync |-> sync, seen |-> seen]

\* What a handler awaits next, and whether it is to list the editions at the end.
Steps == {"idle", "certify", "findLinks", "link", "mirror", "await"}

At(step, s, mint, links, todo, lists) ==
  [at |-> step, submission |-> s, mint |-> mint, links |-> links, todo |-> todo, lists |-> lists]

Idle == At("idle", NoSubmission, 0, {}, {}, FALSE)
Reviewing(step, s, mint) == At(step, s, mint, {}, {}, FALSE)
Linking(links, lists) == At("link", NoSubmission, 0, links, {}, lists)
Mirroring(step, todo) == At(step, NoSubmission, 0, {}, todo, TRUE)

\* An old row calls some numbers issued, and each of them has its entry. An artist
\* who left before has no row, though her works are in the ledger all the same.
FirstRow(a) ==
  LET unlinked == a \in Legacy /\ gone = {}
      issued == IF unlinked THEN LegacyIssued[a] ELSE {}
  IN  [link |-> IF unlinked THEN NoSubmission ELSE NoRow,
       issued |-> issued,
       genesis |-> [n \in Editions |-> IF n \in issued THEN 1 ELSE 0]]

Init ==
  /\ review = [s \in Submissions |-> [by |-> Nobody, mint |-> 1]]
  /\ certificates = {}
  /\ gone \in {{}, {Artist}}
  /\ artwork = [a \in Artworks |-> FirstRow(a)]
  /\ syncs = {}
  /\ transactions = {}
  /\ request = [r \in Requests |-> Idle]
  /\ approvals = 0
  /\ faults = 0

Goto(r, state) == request' = [request EXCEPT ![r] = state]

Linked(s) == {a \in Artworks : artwork[a].link = s}

\* upsert where opusSubmissionId = s
Target(s) == IF Linked(s) = {} THEN s ELSE CHOOSE a \in Linked(s) : TRUE

Approved(s) == review[s].by # Nobody
Certified(s) == \E n \in Editions : <<s, n>> \in certificates
FullyCertified(s) == \A n \in 1 .. review[s].mint : <<s, n>> \in certificates

-----------------------------------------------------------------------------
(* A review, as far as the mirror sees it. *)

\* The edition may change while the work is not approved. A session of a deleted
\* account no longer has the role. appendIssuanceChronicleIfNewlyApproved starts
\* the copy once its own row is written, and the review goes on either way: the
\* copy is not awaited, and may begin any time later.
Approve(r, s, mint, by, written) ==
  /\ request[r] = Idle
  /\ approvals < MaxApprovals
  /\ by \notin gone
  /\ Approved(s) => mint = review[s].mint
  /\ written \/ faults < MaxFaults
  /\ review' = [review EXCEPT ![s] = [by |-> by, mint |-> mint]]
  /\ approvals' = approvals + 1
  /\ syncs' = IF ~Approved(s) /\ written /\ DualWrite
              THEN syncs \cup {Sync(s, mint, by, approvals)}
              ELSE syncs
  /\ faults' = IF written THEN faults ELSE faults + 1
  /\ Goto(r, Reviewing("certify", s, mint))
  /\ UNCHANGED <<certificates, artwork, transactions, gone>>

\* An approved work goes back to changes_requested.
AskChanges(s) ==
  /\ Approved(s)
  /\ review' = [review EXCEPT ![s].by = Nobody]
  /\ UNCHANGED <<certificates, artwork, syncs, transactions, request, approvals, gone, faults>>

\* One certificate per edition; the next step only if none was missed.
Certify(r, upTo) ==
  LET complete == upTo = request[r].mint IN
  /\ request[r].at = "certify"
  /\ upTo \in 0 .. request[r].mint
  /\ complete \/ faults < MaxFaults
  /\ certificates' = certificates \cup {<<request[r].submission, n>> : n \in 1 .. upTo}
  /\ faults' = IF complete THEN faults ELSE faults + 1
  /\ Goto(r, IF complete THEN Reviewing("findLinks", NoSubmission, 0) ELSE Idle)
  /\ UNCHANGED <<review, artwork, syncs, transactions, approvals, gone>>

\* A visit of a certificate page issues what is missing, unless it fails on the way.
IssueMissing(s, upTo) ==
  LET complete == upTo = review[s].mint IN
  /\ Approved(s)
  /\ upTo <= review[s].mint
  /\ complete \/ faults < MaxFaults
  /\ certificates' = certificates \cup {<<s, n>> : n \in 1 .. upTo}
  /\ faults' = IF complete THEN faults ELSE faults + 1
  /\ UNCHANGED <<review, artwork, syncs, transactions, request, approvals, gone>>

-----------------------------------------------------------------------------
(* syncIssuanceToPrismaAfterJsonl. *)

\* Mutation: find and create instead of upsert.
MayBegin_NoLock(sync) == TRUE

\* The upsert of the Artwork row comes first: of two transactions for one
\* submission, the second waits for the row, or for its place in the unique
\* index.
MayBegin(sync) == \A t \in transactions : t.sync.submission # sync.submission

Names(sync) == {Artist, sync.by}

SyncBegin(sync) ==
  /\ sync \in syncs
  /\ MayBegin(sync)
  /\ Names(sync) \cap gone = {}
  /\ syncs' = syncs \ {sync}
  /\ transactions' = transactions \cup
       {Transaction(sync, {n \in Editions : artwork[Target(sync.submission)].genesis[n] > 0})}
  /\ UNCHANGED <<review, certificates, artwork, request, approvals, gone, faults>>

\* Mutation: only a new row gets its genesis entries.
NeedsGenesis_NewRowOnly(t, n) == t.seen = {} /\ Linked(t.sync.submission) = {} /\ n <= t.sync.mint

NeedsGenesis(t, n) == n \notin t.seen /\ n <= t.sync.mint

\* Mutation: the numbers start at 0.
Copied_FromZero(t, old) ==
  [link |-> t.sync.submission, issued |-> 0 .. t.sync.mint, genesis |-> old.genesis]

\* The Edition rows are reset to what was approved: issued, and the artist's,
\* up to initialMint, and nobody's above.
Copied(t, old) ==
  [link |-> t.sync.submission,
   issued |-> 1 .. t.sync.mint,
   genesis |-> [n \in Editions |-> IF NeedsGenesis(t, n) THEN old.genesis[n] + 1 ELSE old.genesis[n]]]

SyncCommit(t) ==
  LET a == Target(t.sync.submission) IN
  /\ t \in transactions
  /\ artwork' = [artwork EXCEPT ![a] = Copied(t, artwork[a])]
  /\ transactions' = transactions \ {t}
  /\ UNCHANGED <<review, certificates, syncs, request, approvals, gone, faults>>

\* Without the artist's account the copy ends before it begins, and says nothing;
\* without the reviewer's the foreign key fails, which is logged.
SyncRefused(sync) ==
  /\ sync \in syncs
  /\ Names(sync) \cap gone # {}
  /\ syncs' = syncs \ {sync}
  /\ UNCHANGED <<review, certificates, artwork, transactions, request, approvals, gone, faults>>

\* A statement fails that might succeed another time: logged, and forgotten.
SyncFails(sync) ==
  /\ faults < MaxFaults
  /\ sync \in syncs \cup {t.sync : t \in transactions}
  /\ faults' = faults + 1
  /\ syncs' = syncs \ {sync}
  /\ transactions' = {t \in transactions : t.sync # sync}
  /\ UNCHANGED <<review, certificates, artwork, request, approvals, gone>>

\* A row of hers keeps the artist's account. Her rows, and those that name an
\* operator, are locked while a transaction writes them.
DeleteAccount(u) ==
  /\ u \notin gone
  /\ faults < MaxFaults
  /\ faults' = faults + 1
  /\ u = Artist => \A a \in Artworks : artwork[a].link = NoRow
  /\ \A t \in transactions : u \notin Names(t.sync)
  /\ gone' = gone \cup {u}
  /\ UNCHANGED <<review, certificates, artwork, syncs, transactions, request, approvals>>

-----------------------------------------------------------------------------
(* Linking what the tables already hold: editionLedgerBinding.ts. *)

Linkable == {a \in Legacy : artwork[a].link = NoSubmission}
SameTitle(s) == {a \in Linkable : Title[a] = s}

\* The only row of the artist without a link, or the only one with the title.
Picked(s) == IF Cardinality(Linkable) = 1 THEN Linkable ELSE SameTitle(s)

\* listCertificateLedgerBackfillCandidates. An ambiguous submission has none. The
\* rows of each submission are queried in turn; the model takes what the queries
\* see as one reading.
FromCertificates ==
  {c \in Legacy \X Submissions :
     /\ Linked(c[2]) = {}
     /\ Approved(c[2])
     /\ FullyCertified(c[2])
     /\ Picked(c[2]) = {c[1]}}

\* findCertProvenSubmissionIdForArtwork: the certificates of exactly one
\* submission cover every issued number.
Proven(a) ==
  {s \in Submissions : \A n \in artwork[a].issued : <<s, n>> \in certificates}

FromIssued ==
  {c \in Legacy \X Submissions :
     c[1] \in Linkable /\ artwork[c[1]].issued # {} /\ Proven(c[1]) = {c[2]}}

\* Only the operator's own backfill merges its candidates, one per row; what the
\* issued numbers prove wins.
Merged ==
  FromIssued \cup
  {c \in FromCertificates :
     /\ \A d \in FromIssued : d[1] # c[1]
     /\ c[2] = CHOOSE s \in Submissions : <<c[1], s>> \in FromCertificates}

\* An approval, a list and the operator's backfill each begin with a reading of
\* the tables.
StartLinking(r, links, lists) ==
  /\ Goto(r, Linking(links, lists))
  /\ UNCHANGED <<review, certificates, artwork, syncs, transactions, approvals, gone, faults>>

FindLinks(r) == request[r].at = "findLinks" /\ StartLinking(r, FromCertificates, FALSE)
ListEditions(r) == request[r] = Idle /\ StartLinking(r, FromCertificates, TRUE)
BackfillLinks(r) == request[r] = Idle /\ StartLinking(r, Merged, FALSE)

\* An update waits for a transaction that holds its row or its place in the
\* index.
MayLink(a, s) ==
  \A t \in transactions : t.sync.submission # s /\ Target(t.sync.submission) # a

\* The update does not look at the row again. The unique index refuses a second
\* row for a submission, and that ends the request.
Link(r, a, s) ==
  /\ request[r].at = "link"
  /\ <<a, s>> \in request[r].links
  /\ MayLink(a, s)
  /\ IF Linked(s) \subseteq {a}
     THEN /\ artwork' = [artwork EXCEPT ![a].link = s]
          /\ Goto(r, [request[r] EXCEPT !.links = @ \ {<<a, s>>}])
     ELSE Goto(r, Idle) /\ UNCHANGED artwork
  /\ UNCHANGED <<review, certificates, syncs, transactions, approvals, gone, faults>>

\* Mutation: nobody but a fully certified work is copied.
Missing_FullyCertified(s) == FullyCertified(s) /\ review[s].mint = Total /\ Linked(s) = {}

Missing(s) == Certified(s) /\ Linked(s) = {}

GoMirror(r, todo) == Goto(r, IF todo = {} THEN Idle ELSE Mirroring("mirror", todo))

\* Only the list goes on, to ensurePrismaCatalogForCertifiedSubmissions.
LinksDone(r) ==
  /\ request[r].at = "link"
  /\ request[r].links = {}
  /\ GoMirror(r, IF request[r].lists THEN {s \in Submissions : Missing(s)} ELSE {})
  /\ UNCHANGED <<review, certificates, artwork, syncs, transactions, approvals, gone, faults>>

\* The copy is forced, and awaited.
Mirror(r, s) ==
  /\ request[r].at = "mirror"
  /\ s \in request[r].todo
  /\ IF Approved(s)
     THEN /\ syncs' = syncs \cup {Sync(s, review[s].mint, review[s].by, r)}
          /\ Goto(r, Mirroring("await", request[r].todo \ {s}))
     ELSE GoMirror(r, request[r].todo \ {s}) /\ UNCHANGED syncs
  /\ UNCHANGED <<review, certificates, artwork, transactions, approvals, gone, faults>>

Awaited(r) ==
  /\ request[r].at = "await"
  /\ \A sync \in syncs \cup {t.sync : t \in transactions} : sync.from # r
  /\ GoMirror(r, request[r].todo)
  /\ UNCHANGED <<review, certificates, artwork, syncs, transactions, approvals, gone, faults>>

-----------------------------------------------------------------------------
\* The process ends: every handler, and every copy nobody awaits, is gone.
Restart ==
  /\ faults < MaxFaults
  /\ faults' = faults + 1
  /\ request' = [r \in Requests |-> Idle]
  /\ syncs' = {}
  /\ transactions' = {}
  /\ UNCHANGED <<review, certificates, artwork, approvals, gone>>

Continue(r) ==
  \/ \E upTo \in 0 .. Total : Certify(r, upTo)
  \/ FindLinks(r)
  \/ \E a \in Legacy, s \in Submissions : Link(r, a, s)
  \/ LinksDone(r)
  \/ \E s \in Submissions : Mirror(r, s)
  \/ Awaited(r)

CopyOne ==
  \/ \E sync \in syncs : SyncBegin(sync)
  \/ \E sync \in syncs : SyncRefused(sync)
  \/ \E t \in transactions : SyncCommit(t)

Next ==
  \/ \E r \in Reviews, s \in Submissions, mint \in Editions, by \in Operators,
        written \in BOOLEAN : Approve(r, s, mint, by, written)
  \/ \E s \in Submissions : AskChanges(s)
  \/ \E s \in Submissions, upTo \in Editions : IssueMissing(s, upTo)
  \/ \E r \in Lists : ListEditions(r)
  \/ \E r \in Lists : BackfillLinks(r)
  \/ \E r \in Requests : Continue(r)
  \/ CopyOne
  \/ \E sync \in syncs \cup {t.sync : t \in transactions} : SyncFails(sync)
  \/ \E u \in Operators \cup {Artist} : DeleteAccount(u)
  \/ Restart

Spec == Init /\ [][Next]_vars

\* Handlers and copies go on, and an operator opens the list now and then.
FairSpec ==
  /\ Spec
  /\ \A r \in Requests : WF_vars(Continue(r))
  /\ WF_vars(CopyOne)
  /\ SF_vars(\E r \in Lists : ListEditions(r))

-----------------------------------------------------------------------------
(* Properties. *)

Reviewed == [by : Operators \cup {Nobody}, mint : Editions]
Rows == [link : Submissions \cup {NoSubmission, NoRow},
         issued : SUBSET Editions, genesis : [Editions -> Nat]]
Syncs == [submission : Submissions, mint : Editions, by : Operators, from : Requests \cup Nat]
Handlers == [at : Steps, submission : Submissions \cup {NoSubmission}, mint : Editions \cup {0},
             links : SUBSET (Legacy \X Submissions), todo : SUBSET Submissions, lists : BOOLEAN]

\* Rows, copies and handlers hold what their operations expect; no edition number
\* lies outside the work's edition.
TypeOK ==
  /\ review \in [Submissions -> Reviewed]
  /\ certificates \subseteq Submissions \X Editions
  /\ artwork \in [Artworks -> Rows]
  /\ syncs \subseteq Syncs
  /\ transactions \subseteq [sync : Syncs, seen : SUBSET Editions]
  /\ request \in [Requests -> Handlers]
  /\ approvals \in Nat
  /\ gone \subseteq Operators \cup {Artist}
  /\ faults \in Nat

\* The database's chronicle does not fork: an edition has one genesis entry,
\* although a copy looks for it and writes it in two statements, and two copies
\* of one work may overlap.
GenesisOnce ==
  \A a \in Artworks, n \in Editions : artwork[a].genesis[n] <= 1

\* The copy writes the missing entries of every number it marks issued: an edition
\* the mirror calls issued has its genesis entry, also on a row that was linked
\* before it was copied, or whose edition grew between two approvals. Of the rows
\* that were there before, this is assumed (FirstRow).
IssuedIsChronicled ==
  \A a \in Artworks : \A n \in artwork[a].issued : artwork[a].genesis[n] > 0

\* A certified work whose artist, and whose last approver, still have accounts.
MayBeMirrored(s) ==
  Approved(s) /\ Certified(s) /\ {Artist, review[s].by} \cap gone = {}

\* "failures never roll back JSONL truth" (chroniclePrismaSync.ts), and those that
\* can be made good are: again and again every such work has its row, even when a
\* copy was lost or a link was taken by another work. A certified work whose
\* approver is gone gets no row until somebody else approves it.
MirrorCatchesUp ==
  []<>(\A s \in Submissions : MayBeMirrored(s) => Linked(s) # {})

\* "Bind editions only via Artwork.opusSubmissionId (no guessing)"
\* (editionLedgerBinding.ts): a row that is linked to a submission is not given to
\* another one, though several are looked for and linked in one request.
LinksStay ==
  [][\A a \in Artworks :
       artwork[a].link \in Submissions => artwork'[a].link = artwork[a].link]_vars
=============================================================================

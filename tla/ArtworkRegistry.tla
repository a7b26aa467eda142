--------------------------- MODULE ArtworkRegistry ---------------------------
(***************************************************************************)
(* The registry of artworks in apps/web: the submission, ownership,        *)
(* certificate and chronicle ledgers, the master files, and the request    *)
(* handlers that read and append to them (lib/privateStorage.ts,           *)
(* lib/operatorSubmissionReview.ts, lib/chronicleLedger.ts,                *)
(* lib/editionCertificate.ts, lib/demoPrimaryPurchase.ts and the routes    *)
(* that call them).                                                        *)
(*                                                                         *)
(* Every "await" that touches a file ends a step. A handler keeps the      *)
(* submission it read until it appends a patched copy of it, and other     *)
(* handlers run in between; nothing locks a ledger.                        *)
(***************************************************************************)
EXTENDS JsonlLedger

CONSTANTS
  Submissions,   \* submission ids
  Users,         \* account ids
  ArtistOf,      \* who registered each submission
  Buyers,        \* the holders a sale may name
  MaxMint,       \* MAX_EDITIONS, the bound on initialMint
  Handlers,      \* requests that may be in flight at once
  MaxRequests,   \* bound: requests that change or may change a ledger
  MaxFaults,     \* bound: crashes and failed file reads or writes
  ReadsFail,     \* whether a file read may fail, and so return no rows
  None           \* no row, no holder, no file

Holders == [type : {"artist", "collector"}, user : Users]

\* The directories of a master file: the artist's works, and the collected works
\* of whoever bought it (an artist's collection or a collector's).
Places == [type : {"studio", "artist", "collector"}, user : Users]

ASSUME RegistryAssumption ==
  /\ ArtistOf \in [Submissions -> Users]
  /\ Buyers \subseteq Holders
  /\ MaxMint \in Nat \ {0}
  /\ MaxRequests \in Nat
  /\ MaxFaults \in Nat
  /\ ReadsFail \in BOOLEAN
  /\ None \notin Places

VARIABLES
  submissions,   \* storage/submissions.jsonl
  ownership,     \* the ownership events
  certificates,  \* the signed edition certificates
  chronicle,     \* the ISSUED entries, each linked to its predecessor
  master,        \* where the master file of each submission lies on disk
  handler,       \* what each request handler is doing, and the data it holds
  requests,      \* requests taken so far
  faults         \* crashes and file errors so far

ledgers == <<submissions, ownership, certificates, chronicle>>
vars == <<ledgers, master, handler, requests, faults>>

-----------------------------------------------------------------------------
(* The data of the ledgers. *)

Open == {"pending_review", "changes_requested"}
Decisions == Open \cup {"approved", "rejected"}
Statuses == Decisions \cup {"withdrawn"}
Noticed == {"changes_requested", "rejected"}
Mints == 1 .. MaxMint

\* The artist's own directory.
Studio(s) == [type |-> "studio", user |-> ArtistOf[s]]

\* The fields every row carries from the registration on: what mergeSubmissionRows
\* makes of them is the last row's. The optional ones (the operator's note, when it
\* was acknowledged) are left out: an append takes over those its copy lacks from
\* the rows it reads again, and nothing here depends on them.
SubmissionRow(s, status, mint, file) ==
  [key |-> s, status |-> status, mint |-> mint, file |-> file]
SubmissionRows ==
  [key : Submissions, status : Statuses, mint : Mints, file : Places]

OwnershipRow(s, holder) == [key |-> s, holder |-> holder]
OwnershipRows == [key : Submissions, holder : Holders]

\* editionBindingKey
Binding(s, n) == <<s, n>>
CertificateRow(s, n, version, holder, prior) ==
  [key |-> Binding(s, n), version |-> version, holder |-> holder, prior |-> prior]
CertificateRows ==
  [key : Submissions \X Mints, version : Nat, holder : Holders, prior : Nat]

ChronicleRow(s, prev) == [key |-> s, prev |-> prev]
ChronicleRows == [key : Submissions, prev : Nat]

ArtistHolds(s) == [type |-> "artist", user |-> ArtistOf[s]]

\* getCurrentOwner: the last event, the artist when there is none.
Owner(events, s) == IF Has(events, s) THEN Latest(events, s).holder ELSE ArtistHolds(s)

\* hasCollectorOwnershipEvent
CollectorEver(events, s) ==
  \E i \in DOMAIN events : events[i].key = s /\ events[i].holder.type = "collector"

\* Mutation: the comparison of versions is the wrong way round.
LatestCertificate_Lowest(certs, b) ==
  LET ofBinding == {i \in DOMAIN certs : certs[i].key = b}
  IN  IF ofBinding = {} THEN 0
      ELSE CHOOSE i \in ofBinding : \A j \in ofBinding : certs[i].version <= certs[j].version

\* getLatestEditionCertificate: the highest version, the first row among equals;
\* 0 when the edition has no certificate.
LatestCertificate(certs, b) ==
  LET ofBinding == {i \in DOMAIN certs : certs[i].key = b}
  IN  IF ofBinding = {} THEN 0
      ELSE CHOOSE i \in ofBinding :
             \A j \in ofBinding : \/ certs[j].version < certs[i].version
                                  \/ certs[j].version = certs[i].version /\ i <= j

-----------------------------------------------------------------------------
(* Handlers. *)

\* pc: the next step; row: the submission in hand; then: the step after its
\* append; buyer: who a sale delivers to; n: the edition being certified;
\* seen: the ledger position a new row will link to.
Job(pc, row, then, buyer, n, seen) ==
  [pc |-> pc, row |-> row, then |-> then, buyer |-> buyer, n |-> n, seen |-> seen]

Idle == Job("idle", None, "idle", None, 0, 0)

Writing(pc, row, then) == Job(pc, row, then, None, 0, 0)
Selling(pc, row, buyer) == Job(pc, row, "idle", buyer, 0, 0)
Issuing(pc, row, n, seen) == Job(pc, row, "idle", None, n, seen)
Reissuing(pc, row, buyer, n, seen) == Job(pc, row, "idle", buyer, n, seen)

Become(h, job) == handler' = [handler EXCEPT ![h] = job]

Free(h) == handler[h].pc = "idle"

\* A request that counts against the bound.
MayTake(h) == Free(h) /\ requests < MaxRequests

Take(h, job) == requests' = requests + 1 /\ Become(h, job)

At(h, pc) == handler[h].pc = pc
RowOf(h) == handler[h].row

\* A read returns the rows, or nothing when it fails.
ReadOutcome(readable) ==
  /\ ~readable => ReadsFail /\ faults < MaxFaults
  /\ faults' = IF readable THEN faults ELSE faults + 1

Init ==
  /\ submissions = << >>
  /\ ownership = << >>
  /\ certificates = << >>
  /\ chronicle = << >>
  /\ master = [s \in Submissions |-> None]
  /\ handler = [h \in Handlers |-> Idle]
  /\ requests = 0
  /\ faults = 0

-----------------------------------------------------------------------------
(* Registration: the upload is stored, then the two ledger rows. *)

\* A fresh id each time: a submission whose file exists is never registered again.
Submit(h, s, mint) ==
  /\ MayTake(h)
  /\ master[s] = None
  /\ Take(h, Writing("register", SubmissionRow(s, "pending_review", mint, Studio(s)), "registerOwner"))
  /\ master' = [master EXCEPT ![s] = Studio(s)]
  /\ UNCHANGED <<ledgers, faults>>

RegisterOwner(h) ==
  /\ At(h, "registerOwner")
  /\ ownership' = Append(ownership, OwnershipRow(RowOf(h).key, ArtistHolds(RowOf(h).key)))
  /\ Become(h, Idle)
  /\ UNCHANGED <<submissions, certificates, chronicle, master, requests, faults>>

-----------------------------------------------------------------------------
(* Requests that read the submission and append a patched copy. *)

\* Mutation: a rejected submission still counts as under review.
StillOpen_Rejected(row) == row.status \in Open \cup {"rejected"}

\* The review is not final yet.
StillOpen(row) == row.status \in Open

Revised(row, status, mint) == SubmissionRow(row.key, status, mint, row.file)

\* Mutation: the decision is not looked at.
AfterReview_AnyDecision(before, decision) ==
  IF before = "approved" THEN "certificates" ELSE "chronicle"

\* What the operator's decision sets off once it is on the ledger.
AfterReview(before, decision) ==
  IF decision # "approved" THEN "idle"
  ELSE IF before = "approved" THEN "certificates" ELSE "chronicle"

\* An approval of explicit content is a rejection: one of the decisions already.
Review(h, s, decision, mint) ==
  /\ MayTake(h)
  /\ Has(submissions, s)
  /\ LET row == Latest(submissions, s) IN
     /\ row.status # "withdrawn"
     /\ mint # row.mint => StillOpen(row)
     /\ Take(h, Writing("append", Revised(row, decision, mint),
                        AfterReview(row.status, decision)))
  /\ UNCHANGED <<ledgers, master, faults>>

Withdraw(h, s) ==
  /\ MayTake(h)
  /\ Has(submissions, s)
  /\ LET row == Latest(submissions, s) IN
     /\ StillOpen(row)
     /\ Take(h, Writing("ownerCheck", Revised(row, "withdrawn", row.mint), "idle"))
  /\ UNCHANGED <<ledgers, master, faults>>

EditEdition(h, s, mint) ==
  /\ MayTake(h)
  /\ Has(submissions, s)
  /\ LET row == Latest(submissions, s) IN
     /\ StillOpen(row)
     /\ Take(h, Writing("ownerCheck", Revised(row, row.status, mint), "idle"))
  /\ UNCHANGED <<ledgers, master, faults>>

\* Withdrawals and edition changes are refused once a collector has held the work.
OwnerCheck(h, readable) ==
  /\ At(h, "ownerCheck")
  /\ ReadOutcome(readable)
  /\ IF CollectorEver(ReadRows(ownership, readable), RowOf(h).key)
     THEN Become(h, Idle)
     ELSE Become(h, Writing("append", RowOf(h), "idle"))
  /\ UNCHANGED <<ledgers, master, requests>>

\* acknowledgeArtistReviewNoticeIfNeeded, when a visit of "my artworks" finds a note
\* not yet acknowledged: whether there is one is left open.
Acknowledge(h, s) ==
  /\ MayTake(h)
  /\ Has(submissions, s)
  /\ LET row == Latest(submissions, s) IN
     /\ row.status \in Noticed
     /\ Take(h, Writing("append", row, "idle"))
  /\ UNCHANGED <<ledgers, master, faults>>

\* repairCanonicalSubmissionLedgerSnapshots, for one of the submissions it read.
Repair(h, s) ==
  /\ MayTake(h)
  /\ Has(submissions, s)
  /\ Take(h, Writing("append", Latest(submissions, s), "idle"))
  /\ UNCHANGED <<ledgers, master, faults>>

\* What follows the append of the submission in hand.
Continue(h, next) ==
  CASE next = "idle"         -> Idle
    [] next = "certificates" -> Issuing("certificates", RowOf(h), 1, 0)
    [] OTHER                 -> Writing(next, RowOf(h), "idle")

\* appendSubmission: the row in hand has every modelled field, so in the merge with
\* the rows read again the copy's fields win, however old they are.
AppendSubmission(h) ==
  /\ handler[h].pc \in {"register", "append"}
  /\ submissions' = Append(submissions, RowOf(h))
  /\ Become(h, Continue(h, handler[h].then))
  /\ UNCHANGED <<ownership, certificates, chronicle, master, requests, faults>>

-----------------------------------------------------------------------------
(* Issuance: the chronicle entry of a new approval, then a certificate for *)
(* each edition that has none.                                             *)

ReadChronicle(h, readable) ==
  /\ At(h, "chronicle")
  /\ ReadOutcome(readable)
  /\ Become(h, Issuing("chronicleAppend", RowOf(h), 0,
                       LatestIndex(ReadRows(chronicle, readable), RowOf(h).key)))
  /\ UNCHANGED <<ledgers, master, requests>>

\* Mutation: every entry starts a chain of its own.
AppendChronicle_Unlinked(h) ==
  /\ At(h, "chronicleAppend")
  /\ chronicle' = Append(chronicle, ChronicleRow(RowOf(h).key, 0))
  /\ Become(h, Issuing("certificates", RowOf(h), 1, 0))
  /\ UNCHANGED <<submissions, ownership, certificates, master, requests, faults>>

AppendChronicle(h) ==
  /\ At(h, "chronicleAppend")
  /\ chronicle' = Append(chronicle, ChronicleRow(RowOf(h).key, handler[h].seen))
  /\ Become(h, Issuing("certificates", RowOf(h), 1, 0))
  /\ UNCHANGED <<submissions, ownership, certificates, master, requests, faults>>

\* Mutation: one edition too many.
NextEdition_OffByOne(h, pc) ==
  IF handler[h].n <= RowOf(h).mint
  THEN Job(pc, RowOf(h), "idle", handler[h].buyer, handler[h].n + 1, 0)
  ELSE Idle

\* Mutation: the loop ends after its first edition.
NextEdition_StopsAtFirst(h, pc) == Idle

\* The loop over editions 1 .. initialMint of the submission in hand.
NextEdition(h, pc) ==
  IF handler[h].n < RowOf(h).mint
  THEN Job(pc, RowOf(h), "idle", handler[h].buyer, handler[h].n + 1, 0)
  ELSE Idle

ReadCertificate(h, readable) ==
  /\ At(h, "certificates")
  /\ ReadOutcome(readable)
  /\ IF LatestCertificate(ReadRows(certificates, readable), Binding(RowOf(h).key, handler[h].n)) # 0
     THEN Become(h, NextEdition(h, "certificates"))
     ELSE Become(h, Issuing("issue", RowOf(h), handler[h].n, 0))
  /\ UNCHANGED <<ledgers, master, requests>>

\* A first certificate always names the artist.
Issue(h) ==
  /\ At(h, "issue")
  /\ LET s == RowOf(h).key IN
     certificates' = Append(certificates, CertificateRow(s, handler[h].n, 1, ArtistHolds(s), 0))
  /\ Become(h, NextEdition(h, "certificates"))
  /\ UNCHANGED <<submissions, ownership, chronicle, master, requests, faults>>

MissingCertificate(s) ==
  \E n \in 1 .. Latest(submissions, s).mint : LatestCertificate(certificates, Binding(s, n)) = 0

\* ensureEditionCertificatesBackfill and issueMissingEditionCertificates: a
\* visitor of a certificate page, or an operator, finds one missing.
Backfill(h, s) ==
  /\ Free(h)
  /\ Has(submissions, s)
  /\ Latest(submissions, s).status = "approved"
  /\ MissingCertificate(s)
  /\ Become(h, Issuing("certificates", Latest(submissions, s), 1, 0))
  /\ UNCHANGED <<ledgers, master, requests, faults>>

-----------------------------------------------------------------------------
(* Sales: transferOwnershipToBuyer and the certificates that follow it. *)

\* The operator's settlement looks at neither the review status nor the owner.
Settle(h, s, buyer) ==
  /\ MayTake(h)
  /\ Has(submissions, s)
  /\ Take(h, Selling("move", Latest(submissions, s), buyer))
  /\ UNCHANGED <<ledgers, master, faults>>

\* A collector's demo purchase of an approved work.
DemoPurchase(h, s, buyer) ==
  /\ MayTake(h)
  /\ buyer.type = "collector"
  /\ Has(submissions, s)
  /\ Latest(submissions, s).status = "approved"
  /\ Take(h, Selling("holdCheck", Latest(submissions, s), buyer))
  /\ UNCHANGED <<ledgers, master, faults>>

\* The artist must still hold the work.
HoldCheck(h, readable) ==
  /\ At(h, "holdCheck")
  /\ ReadOutcome(readable)
  /\ LET s == RowOf(h).key IN
     IF Owner(ReadRows(ownership, readable), s) = ArtistHolds(s)
     THEN Become(h, Selling("move", RowOf(h), handler[h].buyer))
     ELSE Become(h, Idle)
  /\ UNCHANGED <<ledgers, master, requests>>

\* Mutation: the patch keeps the old place of the file.
Moved_KeepsPlace(row, place) == row

Moved(row, place) == SubmissionRow(row.key, row.status, row.mint, place)

\* rename fails when the file is no longer where the row in hand says.
MoveMaster(h) ==
  /\ At(h, "move")
  /\ LET row == RowOf(h) IN
     IF master[row.key] = row.file
     THEN /\ master' = [master EXCEPT ![row.key] = handler[h].buyer]
          /\ Become(h, Selling("recordMove", Moved(row, handler[h].buyer), handler[h].buyer))
     ELSE Become(h, Idle) /\ UNCHANGED master
  /\ UNCHANGED <<ledgers, requests, faults>>

\* Mutation: the new place is never written to the ledger.
RecordMove_Skipped(h) ==
  /\ At(h, "recordMove")
  /\ Become(h, Selling("recordOwner", RowOf(h), handler[h].buyer))
  /\ UNCHANGED <<ledgers, master, requests, faults>>

RecordMove(h) ==
  /\ At(h, "recordMove")
  /\ submissions' = Append(submissions, RowOf(h))
  /\ Become(h, Selling("recordOwner", RowOf(h), handler[h].buyer))
  /\ UNCHANGED <<ownership, certificates, chronicle, master, requests, faults>>

RecordOwner(h) ==
  /\ At(h, "recordOwner")
  /\ ownership' = Append(ownership, OwnershipRow(RowOf(h).key, handler[h].buyer))
  /\ Become(h, Selling("reread", RowOf(h), handler[h].buyer))
  /\ UNCHANGED <<submissions, certificates, chronicle, master, requests, faults>>

\* reissueEditionCertificatesOnCustodyTransfer reads the submission afresh.
Reread(h, readable) ==
  /\ At(h, "reread")
  /\ ReadOutcome(readable)
  /\ LET rows == ReadRows(submissions, readable)
         s == RowOf(h).key
     IN  IF Has(rows, s) /\ Latest(rows, s).status = "approved"
         THEN Become(h, Reissuing("reissue", Latest(rows, s), handler[h].buyer, 1, 0))
         ELSE Become(h, Idle)
  /\ UNCHANGED <<ledgers, master, requests>>

\* An edition with no certificate, or already in the buyer's name, is skipped.
ReadForReissue(h, readable) ==
  /\ At(h, "reissue")
  /\ ReadOutcome(readable)
  /\ LET certs == ReadRows(certificates, readable)
         latest == LatestCertificate(certs, Binding(RowOf(h).key, handler[h].n))
     IN  IF latest # 0 /\ certs[latest].holder # handler[h].buyer
         THEN Become(h, Reissuing("reissueAppend", RowOf(h), handler[h].buyer, handler[h].n, latest))
         ELSE Become(h, NextEdition(h, "reissue"))
  /\ UNCHANGED <<ledgers, master, requests>>

\* A new version of the certificate, linked to the one it replaces.
AppendReissue(h) ==
  /\ At(h, "reissueAppend")
  /\ LET j == handler[h] IN
     certificates' = Append(certificates,
       CertificateRow(j.row.key, j.n, certificates[j.seen].version + 1, j.buyer, j.seen))
  /\ Become(h, NextEdition(h, "reissue"))
  /\ UNCHANGED <<submissions, ownership, chronicle, master, requests, faults>>

-----------------------------------------------------------------------------
(* Failures. *)

\* A write or a rename throws. The review goes on to the certificates when it
\* was the chronicle's; every other handler gives up where it is.
StepFails(h) ==
  /\ handler[h].pc \in {"register", "registerOwner", "append", "chronicleAppend", "issue",
                        "move", "recordMove", "recordOwner", "reissueAppend"}
  /\ faults < MaxFaults
  /\ faults' = faults + 1
  /\ Become(h, IF At(h, "chronicleAppend") THEN Issuing("certificates", RowOf(h), 1, 0) ELSE Idle)
  /\ UNCHANGED <<ledgers, master, requests>>

\* The process dies with every request in flight; the files remain.
Crash ==
  /\ faults < MaxFaults
  /\ faults' = faults + 1
  /\ handler' = [h \in Handlers |-> Idle]
  /\ UNCHANGED <<ledgers, master, requests>>

-----------------------------------------------------------------------------
Artist(h, s) ==
  \/ \E mint \in Mints : Submit(h, s, mint)
  \/ Withdraw(h, s)
  \/ \E mint \in Mints : EditEdition(h, s, mint)
  \/ Acknowledge(h, s)

Operator(h, s) ==
  \/ \E decision \in Decisions, mint \in Mints : Review(h, s, decision, mint)
  \/ Repair(h, s)
  \/ \E buyer \in Buyers : Settle(h, s, buyer)

Visitor(h, s) ==
  \/ \E buyer \in Buyers : DemoPurchase(h, s, buyer)
  \/ Backfill(h, s)

ReadStep(h) ==
  \E readable \in BOOLEAN :
    \/ OwnerCheck(h, readable)
    \/ ReadChronicle(h, readable)
    \/ ReadCertificate(h, readable)
    \/ HoldCheck(h, readable)
    \/ Reread(h, readable)
    \/ ReadForReissue(h, readable)

WriteStep(h) ==
  \/ AppendSubmission(h)
  \/ RegisterOwner(h)
  \/ AppendChronicle(h)
  \/ Issue(h)
  \/ MoveMaster(h)
  \/ RecordMove(h)
  \/ RecordOwner(h)
  \/ AppendReissue(h)

Next ==
  \/ \E h \in Handlers :
       \/ \E s \in Submissions : Artist(h, s) \/ Operator(h, s) \/ Visitor(h, s)
       \/ ReadStep(h)
       \/ WriteStep(h)
       \/ StepFails(h)
  \/ Crash

Spec == Init /\ [][Next]_vars

\* A request that started keeps running, and certificate pages keep being visited.
FairSpec ==
  /\ Spec
  /\ \A h \in Handlers :
       /\ WF_vars(ReadStep(h) \/ WriteStep(h))
       /\ \A s \in Submissions : WF_vars(Backfill(h, s))
-----------------------------------------------------------------------------
(* Properties. *)

PCs == {"idle", "register", "registerOwner", "ownerCheck", "append", "chronicle",
        "chronicleAppend", "certificates", "issue", "holdCheck", "move", "recordMove",
        "recordOwner", "reread", "reissue", "reissueAppend"}

SalePCs == {"holdCheck", "move", "recordMove", "recordOwner", "reread", "reissue", "reissueAppend"}

Jobs == [pc : PCs, row : SubmissionRows \cup {None}, then : PCs,
         buyer : Holders \cup {None}, n : Nat, seen : Nat]

\* Every ledger row, file place and handler has its type; a busy handler has a
\* submission in hand, and one that delivers a work has a buyer.
TypeOK ==
  /\ submissions \in Seq(SubmissionRows)
  /\ ownership \in Seq(OwnershipRows)
  /\ certificates \in Seq(CertificateRows)
  /\ chronicle \in Seq(ChronicleRows)
  /\ master \in [Submissions -> Places \cup {None}]
  /\ handler \in [Handlers -> Jobs]
  /\ \A h \in Handlers : ~Free(h) => RowOf(h) \in SubmissionRows
  /\ \A h \in Handlers : handler[h].pc \in SalePCs => handler[h].buyer \in Holders
  /\ requests \in Nat /\ faults \in Nat

\* No certificate and no chronicle entry without an approval: each one follows a
\* row of the submission that was approved, with as many editions as the number
\* certified, whatever stale copies other requests append and wherever a request
\* dies. About the order of writes in runOperatorSubmissionReview, the backfill
\* and the reissue.
IssuanceIsApproved ==
  /\ \A i \in DOMAIN certificates : \E j \in DOMAIN submissions :
       /\ submissions[j].status = "approved"
       /\ certificates[i].key[1] = submissions[j].key
       /\ certificates[i].key[2] <= submissions[j].mint
  /\ \A i \in DOMAIN chronicle : \E j \in DOMAIN submissions :
       submissions[j].status = "approved" /\ submissions[j].key = chronicle[i].key

\* A certificate names the artist or someone the ownership ledger names, and the
\* ownership ledger names a new holder only after a submission row records that
\* the master file went to them: a sale that stops half way never certifies a
\* buyer who has not got the work.
CustodyTrail ==
  /\ \A i \in DOMAIN certificates :
       LET s == certificates[i].key[1] IN
       \/ certificates[i].holder = ArtistHolds(s)
       \/ \E j \in DOMAIN ownership : ownership[j] = OwnershipRow(s, certificates[i].holder)
  /\ \A i \in DOMAIN ownership :
       \/ ownership[i].holder = ArtistHolds(ownership[i].key)
       \/ \E j \in DOMAIN submissions :
            submissions[j].key = ownership[i].key /\ submissions[j].file = ownership[i].holder

Quiet == \A h \in Handlers : Free(h)

\* One request at a time and no faults: whenever none is running, the master file
\* lies where the ledger says, and that is the directory of the current owner.
OwnerHasTheMaster ==
  faults = 0 /\ Quiet =>
    \A s \in Submissions : Has(submissions, s) =>
      LET file == Latest(submissions, s).file
          owner == Owner(ownership, s)
      IN  master[s] = file /\ (file = owner \/ (file = Studio(s) /\ owner = ArtistHolds(s)))

\* The row of the same key before position i, 0 when it is the first.
Previous(ledger, i) == LatestIndex(SubSeq(ledger, 1, i - 1), ledger[i].key)

\* One request at a time, crashes included: the certificates of an edition are
\* numbered 1, 2, 3, ... and each is linked to the one it replaces, so that none
\* is issued twice and a reissue never replaces one that is already replaced.
CertificatesChained ==
  \A i \in DOMAIN certificates :
    LET p == Previous(certificates, i) IN
    /\ certificates[i].prior = p
    /\ certificates[i].version = IF p = 0 THEN 1 ELSE certificates[p].version + 1

\* One request at a time, crashes included: the chronicle entries of a submission
\* form one chain.
ChronicleChained ==
  \A i \in DOMAIN chronicle : chronicle[i].prev = Previous(chronicle, i)

\* What the rest of the system sees of a submission.
Status(s) == IF Has(submissions, s) THEN Latest(submissions, s).status ELSE "none"
MintOf(s) == IF Has(submissions, s) THEN Latest(submissions, s).mint ELSE 0

Lifecycle == INSTANCE SubmissionLifecycle WITH
  status <- [s \in Submissions |-> Status(s)],
  mint <- [s \in Submissions |-> MintOf(s)],
  sold <- [s \in Submissions |-> CollectorEver(ownership, s)]

\* One request at a time, crashes included: a withdrawal is final and comes only
\* while the review is open and before any collector held the work, and the
\* number of editions is fixed while the work is approved or rejected.
ImplementsLifecycle == Lifecycle!Spec

\* However a review was cut short, an approved submission gets its certificates
\* while its certificate pages are visited, unless a later row changes its status.
CertificatesCatchUp ==
  \A s \in Submissions :
    Status(s) = "approved" ~> (Status(s) # "approved" \/ ~MissingCertificate(s))

\* "Artist may withdraw registration only while pending review or
\* changes-requested": the row a withdrawal follows is one of an open review.
WithdrawnWhileOpen ==
  \A i \in DOMAIN submissions :
    submissions[i].status = "withdrawn" =>
      submissions[Previous(submissions, i)].status \in Open \cup {"withdrawn"}
=============================================================================

------------------------ MODULE ArtworkRegistryProofs ------------------------
(***************************************************************************)
(* Safety of the artwork registry for any number of requests in flight,    *)
(* any number of editions, and any crashes and file errors: the types, no  *)
(* issuance without an approval, and the trail from a certificate's        *)
(* custodian through the ownership ledger to the place of the file. Then   *)
(* what holds besides as long as no two requests for one submission        *)
(* overlap: the chains of chronicle and certificates, that the owner has   *)
(* the master file, and that the registry implements the lifecycle of a    *)
(* submission.                                                             *)
(***************************************************************************)
EXTENDS ArtworkRegistry, LedgerTheorems

(***************************************************************************)
(* Facts a ledger establishes once and for all: appending keeps them.      *)
(***************************************************************************)
Approved(subs, s, n) ==
  \E i \in 1 .. Len(subs) : subs[i].status = "approved" /\ subs[i].key = s /\ n <= subs[i].mint

Delivered(subs, s, holder) ==
  \E i \in 1 .. Len(subs) : subs[i].key = s /\ subs[i].file = holder

Owned(own, s, holder) ==
  \E i \in 1 .. Len(own) : own[i] = OwnershipRow(s, holder)

\* "new" is "old" with rows appended.
Grown(old, new) ==
  /\ Len(old) \in Nat /\ Len(new) \in Nat /\ Len(old) <= Len(new)
  /\ \A i \in 1 .. Len(old) : new[i] = old[i]

LEMMA GrownSame ==
  ASSUME NEW R, NEW ledger \in Seq(R)
  PROVE  Grown(ledger, ledger)
<1>. QED
  BY LenProperties DEF Grown

LEMMA GrownAppend ==
  ASSUME NEW R, NEW ledger \in Seq(R), NEW row \in R
  PROVE  /\ Append(ledger, row) \in Seq(R)
         /\ Len(ledger) \in Nat
         /\ Len(Append(ledger, row)) = Len(ledger) + 1
         /\ Append(ledger, row)[Len(ledger) + 1] = row
         /\ \A i \in 1 .. Len(ledger) : Append(ledger, row)[i] = ledger[i]
         /\ Grown(ledger, Append(ledger, row))
<1>1. /\ Append(ledger, row) \in Seq(R)
      /\ Len(ledger) \in Nat
      /\ Len(Append(ledger, row)) = Len(ledger) + 1
      /\ Append(ledger, row)[Len(ledger) + 1] = row
      /\ \A i \in 1 .. Len(ledger) : Append(ledger, row)[i] = ledger[i]
  BY AppendProperties, LenProperties
<1>. QED
  BY <1>1 DEF Grown

LEMMA GrownKeeps ==
  ASSUME NEW old, NEW new, Grown(old, new)
  PROVE  /\ \A s, n : Approved(old, s, n) => Approved(new, s, n)
         /\ \A s, holder : Delivered(old, s, holder) => Delivered(new, s, holder)
         /\ \A s, holder : Owned(old, s, holder) => Owned(new, s, holder)
<1>. QED
  BY DEF Grown, Approved, Delivered, Owned

(***************************************************************************)
(* The certificate getLatestEditionCertificate returns is one of the       *)
(* binding. That a highest version exists needs the versions to be         *)
(* bounded, here by the position of the row.                               *)
(***************************************************************************)
LEMMA LatestCertificateType ==
  ASSUME NEW certs \in Seq(CertificateRows), NEW b,
         \A i \in 1 .. Len(certs) : certs[i].version <= i
  PROVE  /\ LatestCertificate(certs, b) \in 0 .. Len(certs)
         /\ LatestCertificate(certs, b) # 0 => certs[LatestCertificate(certs, b)].key = b
<1> DEFINE I == {i \in DOMAIN certs : certs[i].key = b}
           Best(i) == \A j \in I : \/ certs[j].version < certs[i].version
                                   \/ certs[j].version = certs[i].version /\ i <= j
<1>1. Len(certs) \in Nat /\ DOMAIN certs = 1 .. Len(certs)
  BY LenProperties
<1>2. CASE I = {}
  BY <1>1, <1>2 DEF LatestCertificate
<1>3. CASE I # {}
  <2>1. I \in SUBSET (1 .. Len(certs)) /\ \A i \in I : certs[i].version \in 0 .. Len(certs)
    <3>1. \A i \in 1 .. Len(certs) : certs[i] \in CertificateRows
      BY ElementOfSeq
    <3>2. \A i \in 1 .. Len(certs) : certs[i].version \in Nat /\ certs[i].version <= i
      BY <3>1 DEF CertificateRows
    <3>. QED
      BY <1>1, <3>2
  <2>2. \E m \in I : \A j \in I : certs[j].version <= certs[m].version
    <3> DEFINE V == {certs[i].version + 1 : i \in I}
    <3>1. V \in SUBSET (1 .. (Len(certs) + 1)) /\ V # {} /\ Len(certs) + 1 \in Nat
      <4>1. \A i \in I : certs[i].version + 1 \in 1 .. (Len(certs) + 1)
        BY <1>1, <2>1
      <4>2. \A v \in V : v \in 1 .. (Len(certs) + 1)
        BY <4>1
      <4>3. V # {}
        BY <1>3
      <4> HIDE DEF V
      <4>. QED
        BY <1>1, <4>2, <4>3
    <3>2. PICK v \in V : \A u \in V : u <= v
      BY <3>1, GreatestPosition
    <3>3. PICK m \in I : v = certs[m].version + 1
      OBVIOUS
    <3>4. ASSUME NEW j \in I PROVE certs[j].version <= certs[m].version
      <4>1. certs[j].version + 1 <= certs[m].version + 1
        BY <3>2, <3>3
      <4>2. certs[j].version \in Nat /\ certs[m].version \in Nat
        BY <1>1, <2>1
      <4>. QED
        BY <4>1, <4>2
    <3>. QED
      BY <3>4
  <2>m. PICK m \in I : \A j \in I : certs[j].version <= certs[m].version
    BY <2>2
  <2>3. \E i \in I : certs[i].version = certs[m].version
                       /\ \A j \in I : certs[j].version = certs[m].version => i <= j
    <3> DEFINE T == {i \in I : certs[i].version = certs[m].version}
    <3>1. T \in SUBSET (1 .. Len(certs)) /\ T # {}
      BY <2>1
    <3>2. \E i \in T : \A j \in T : i <= j
      BY <1>1, <3>1, LeastPosition
    <3>. QED
      BY <3>2
  <2>i. PICK i \in I : certs[i].version = certs[m].version
                       /\ \A j \in I : certs[j].version = certs[m].version => i <= j
    BY <2>3
  <2>4. Best(i)
    <3>1. ASSUME NEW j \in I
          PROVE  \/ certs[j].version < certs[i].version
                 \/ certs[j].version = certs[i].version /\ i <= j
      <4>1. certs[j].version \in Nat /\ certs[i].version \in Nat
        BY <1>1, <2>1
      <4>. QED
        BY <2>m, <2>i, <4>1
    <3>. QED
      BY <3>1
  <2>5. LatestCertificate(certs, b) = CHOOSE x \in I : Best(x)
    BY <1>3 DEF LatestCertificate
  <2>6. LatestCertificate(certs, b) \in I
    BY <2>4, <2>5
  <2>. QED
    BY <2>1, <2>6
<1>. QED
  BY <1>2, <1>3

-----------------------------------------------------------------------------
(***************************************************************************)
(* The inductive invariant. What a handler holds is justified by rows that *)
(* are already in the ledgers: an issuing handler has an approved row, a   *)
(* selling one has the row and the event it wrote. Ledgers only grow, so   *)
(* what justified a handler's data once does so for good.                  *)
(***************************************************************************)
IssuingPCs == {"chronicle", "chronicleAppend", "certificates", "issue", "reissue", "reissueAppend"}

JobOK(j, subs, own, certs) ==
  /\ j \in Jobs
  /\ j.pc # "idle" => j.row \in SubmissionRows
  /\ j.pc \in SalePCs => j.buyer \in Holders
  /\ j.pc \in {"certificates", "issue", "reissue", "reissueAppend"} => j.n \in 1 .. j.row.mint
  /\ j.pc \in {"append", "register"} =>
       /\ j.then \in {"idle", "registerOwner", "chronicle", "certificates"}
       /\ j.then \in {"chronicle", "certificates"} => j.row.status = "approved"
  /\ j.pc \in IssuingPCs => Approved(subs, j.row.key, j.row.mint)
  /\ j.pc = "recordMove" => j.row.file = j.buyer
  /\ j.pc = "recordOwner" => Delivered(subs, j.row.key, j.buyer)
  /\ j.pc \in {"reread", "reissue", "reissueAppend"} => Owned(own, j.row.key, j.buyer)
  /\ j.pc = "reissueAppend" => j.seen \in 1 .. Len(certs)

LedgerTypes ==
  /\ submissions \in Seq(SubmissionRows)
  /\ ownership \in Seq(OwnershipRows)
  /\ certificates \in Seq(CertificateRows)
  /\ chronicle \in Seq(ChronicleRows)

\* No version is higher than the position of its row.
VersionsBounded(certs) == \A i \in 1 .. Len(certs) : certs[i].version <= i

CertificatesOK(certs, subs, own) ==
  \A i \in 1 .. Len(certs) :
    /\ Approved(subs, certs[i].key[1], certs[i].key[2])
    /\ \/ certs[i].holder = ArtistHolds(certs[i].key[1])
       \/ Owned(own, certs[i].key[1], certs[i].holder)

OwnershipOK(own, subs) ==
  \A i \in 1 .. Len(own) :
    \/ own[i].holder = ArtistHolds(own[i].key)
    \/ Delivered(subs, own[i].key, own[i].holder)

ChronicleOK(chron, subs) == \A i \in 1 .. Len(chron) : Approved(subs, chron[i].key, 1)

HandlersOK ==
  /\ handler \in [Handlers -> Jobs]
  /\ \A h \in Handlers : JobOK(handler[h], submissions, ownership, certificates)

IInv ==
  /\ LedgerTypes
  /\ master \in [Submissions -> Places \cup {None}]
  /\ requests \in Nat /\ faults \in Nat
  /\ VersionsBounded(certificates)
  /\ CertificatesOK(certificates, submissions, ownership)
  /\ OwnershipOK(ownership, submissions)
  /\ ChronicleOK(chronicle, submissions)
  /\ HandlersOK

(***************************************************************************)
(* Handlers other than the one that moves are left as they were, and stay  *)
(* justified by the grown ledgers.                                         *)
(***************************************************************************)
LEMMA JobStaysOK ==
  ASSUME NEW j, NEW s1, NEW s2, NEW o1, NEW o2, NEW c1, NEW c2,
         Grown(s1, s2), Grown(o1, o2), Grown(c1, c2), JobOK(j, s1, o1, c1)
  PROVE  JobOK(j, s2, o2, c2)
<1>1. /\ \A s, n : Approved(s1, s, n) => Approved(s2, s, n)
      /\ \A s, holder : Delivered(s1, s, holder) => Delivered(s2, s, holder)
      /\ \A s, holder : Owned(o1, s, holder) => Owned(o2, s, holder)
  BY GrownKeeps
<1>2. Len(c1) \in Nat /\ Len(c2) \in Nat /\ Len(c1) <= Len(c2)
  BY DEF Grown
<1>. QED
  BY <1>1, <1>2 DEF JobOK

LEMMA HandlersStayOK ==
  ASSUME HandlersOK, NEW h \in Handlers, NEW job,
         Grown(submissions, submissions'), Grown(ownership, ownership'),
         Grown(certificates, certificates'),
         JobOK(job, submissions', ownership', certificates'),
         handler' = [handler EXCEPT ![h] = job]
  PROVE  HandlersOK'
<1>1. \A g \in Handlers : JobOK(handler[g], submissions', ownership', certificates')
  BY JobStaysOK DEF HandlersOK
<1>2. job \in Jobs
  BY DEF JobOK
<1>3. handler' \in [Handlers -> Jobs]
  BY <1>2 DEF HandlersOK
<1>4. \A g \in Handlers : handler'[g] = IF g = h THEN job ELSE handler[g]
  BY DEF HandlersOK
<1>. QED
  BY <1>1, <1>3, <1>4 DEF HandlersOK

\* A step that appends nothing keeps the invariant when the new job is justified.
LEMMA QuietStep ==
  ASSUME IInv, UNCHANGED ledgers, NEW h \in Handlers, NEW job,
         handler' = [handler EXCEPT ![h] = job],
         JobOK(job, submissions, ownership, certificates),
         master' \in [Submissions -> Places \cup {None}],
         requests' \in Nat, faults' \in Nat
  PROVE  IInv'
<1>1. /\ submissions' = submissions /\ ownership' = ownership
      /\ certificates' = certificates /\ chronicle' = chronicle
  BY DEF ledgers
<1>2. /\ Grown(submissions, submissions') /\ Grown(ownership, ownership')
      /\ Grown(certificates, certificates')
  BY <1>1, GrownSame DEF IInv, LedgerTypes
<1>3. HandlersOK'
  BY <1>1, <1>2, HandlersStayOK DEF IInv
<1>. QED
  BY <1>1, <1>3 DEF IInv, LedgerTypes

(***************************************************************************)
(* What a handler reads of a submission.                                   *)
(***************************************************************************)
LEMMA LatestRow ==
  ASSUME submissions \in Seq(SubmissionRows), NEW s, Has(submissions, s)
  PROVE  /\ Latest(submissions, s) \in SubmissionRows
         /\ Latest(submissions, s).key = s
         /\ Latest(submissions, s).status = "approved" =>
              Approved(submissions, s, Latest(submissions, s).mint)
<1> DEFINE i == LatestIndex(submissions, s)
<1>1. i \in 1 .. Len(submissions) /\ submissions[i].key = s /\ Len(submissions) \in Nat
  BY LatestIndexProperties, LenProperties DEF Has
<1>2. Latest(submissions, s) = submissions[i]
  BY DEF Latest
<1>3. submissions[i] \in SubmissionRows
  BY <1>1, ElementOfSeq
<1>4. submissions[i].mint <= submissions[i].mint
  BY <1>3 DEF SubmissionRows, Mints
<1> HIDE DEF i
<1>. QED
  BY <1>1, <1>2, <1>3, <1>4 DEF Approved

\* The jobs a handler may take up, each justified by what it needs.
LEMMA IdleOK ==
  ASSUME NEW subs, NEW own, NEW certs
  PROVE  JobOK(Idle, subs, own, certs)
<1>. QED
  BY DEF JobOK, Idle, Job, Jobs, PCs, SalePCs, IssuingPCs

LEMMA WritingOK ==
  ASSUME NEW subs, NEW own, NEW certs, NEW row \in SubmissionRows,
         NEW pc \in {"register", "registerOwner", "ownerCheck", "append"},
         NEW then \in {"idle", "registerOwner", "chronicle", "certificates"},
         then \in {"chronicle", "certificates"} => row.status = "approved"
  PROVE  JobOK(Writing(pc, row, then), subs, own, certs)
<1>. QED
  BY DEF JobOK, Writing, Job, Jobs, PCs, SalePCs, IssuingPCs

LEMMA IssuingOK ==
  ASSUME NEW subs, NEW own, NEW certs, NEW row \in SubmissionRows,
         NEW pc \in {"chronicle", "chronicleAppend", "certificates", "issue"},
         NEW then \in PCs, NEW n \in Nat, NEW seen \in Nat, NEW buyer \in Holders \cup {None},
         Approved(subs, row.key, row.mint),
         pc \in {"certificates", "issue"} => n \in 1 .. row.mint
  PROVE  JobOK(Job(pc, row, then, buyer, n, seen), subs, own, certs)
<1>. QED
  BY DEF JobOK, Job, Jobs, PCs, SalePCs, IssuingPCs

LEMMA SellingOK ==
  ASSUME NEW subs, NEW own, NEW certs, NEW row \in SubmissionRows, NEW buyer \in Holders,
         NEW pc \in {"holdCheck", "move", "recordMove", "recordOwner", "reread"},
         pc = "recordMove" => row.file = buyer,
         pc = "recordOwner" => Delivered(subs, row.key, buyer),
         pc = "reread" => Owned(own, row.key, buyer)
  PROVE  JobOK(Selling(pc, row, buyer), subs, own, certs)
<1>. QED
  BY DEF JobOK, Selling, Job, Jobs, PCs, SalePCs, IssuingPCs

LEMMA ReissuingOK ==
  ASSUME NEW subs, NEW own, NEW certs, NEW row \in SubmissionRows, NEW buyer \in Holders,
         NEW pc \in {"reissue", "reissueAppend"}, NEW n \in 1 .. row.mint, NEW seen \in Nat,
         Approved(subs, row.key, row.mint), Owned(own, row.key, buyer),
         pc = "reissueAppend" => seen \in 1 .. Len(certs)
  PROVE  JobOK(Reissuing(pc, row, buyer, n, seen), subs, own, certs)
<1>1. n \in Nat
  BY DEF SubmissionRows, Mints
<1>. QED
  BY <1>1 DEF JobOK, Reissuing, Job, Jobs, PCs, SalePCs, IssuingPCs

\* The next edition of the loop is still one of the submission's.
LEMMA NextEditionOK ==
  ASSUME NEW h \in Handlers, NEW subs, NEW own, NEW certs, NEW pc \in {"certificates", "reissue"},
         handler[h] \in Jobs, RowOf(h) \in SubmissionRows, handler[h].n \in 1 .. RowOf(h).mint,
         Approved(subs, RowOf(h).key, RowOf(h).mint),
         pc = "reissue" => handler[h].buyer \in Holders /\ Owned(own, RowOf(h).key, handler[h].buyer)
  PROVE  JobOK(NextEdition(h, pc), subs, own, certs)
<1>1. RowOf(h).mint \in Nat
  BY DEF SubmissionRows, Mints
<1>2. CASE handler[h].n < RowOf(h).mint
  <2>1. handler[h].n + 1 \in 1 .. RowOf(h).mint /\ handler[h].n + 1 \in Nat
    BY <1>1, <1>2
  <2>2. NextEdition(h, pc) = Job(pc, RowOf(h), "idle", handler[h].buyer, handler[h].n + 1, 0)
    BY <1>2 DEF NextEdition
  <2>3. handler[h].buyer \in Holders \cup {None}
    BY DEF Jobs
  <2>4. CASE pc = "certificates"
    BY <2>1, <2>2, <2>3, <2>4, IssuingOK DEF PCs
  <2>5. CASE pc = "reissue"
    BY <2>1, <2>2, <2>5, ReissuingOK DEF Reissuing
  <2>. QED
    BY <2>4, <2>5
<1>3. CASE ~(handler[h].n < RowOf(h).mint)
  BY <1>3, IdleOK DEF NextEdition
<1>. QED
  BY <1>2, <1>3

-----------------------------------------------------------------------------
(***************************************************************************)
(* The invariant holds initially.                                          *)
(***************************************************************************)
LEMMA InitIInv == Init => IInv
<1> SUFFICES ASSUME Init PROVE IInv
  OBVIOUS
<1>1. LedgerTypes
  BY DEF Init, LedgerTypes
<1>2. /\ VersionsBounded(certificates) /\ ChronicleOK(chronicle, submissions)
      /\ CertificatesOK(certificates, submissions, ownership)
      /\ OwnershipOK(ownership, submissions)
  BY DEF Init, VersionsBounded, CertificatesOK, OwnershipOK, ChronicleOK
<1>3. HandlersOK
  <2>1. \A h \in Handlers : handler[h] = Idle
    BY DEF Init
  <2>2. Idle \in Jobs
    BY DEF Idle, Job, Jobs, PCs
  <2>3. handler \in [Handlers -> Jobs]
    BY <2>2 DEF Init
  <2>. QED
    BY <2>1, <2>3, IdleOK DEF HandlersOK
<1>. QED
  BY <1>1, <1>2, <1>3 DEF Init, IInv

(***************************************************************************)
(* Requests that start, and the reads: nothing is appended.                *)
(***************************************************************************)
LEMMA ArtistIInv ==
  ASSUME IInv, NEW h \in Handlers, NEW s \in Submissions, Artist(h, s)
  PROVE  IInv'
<1>0. submissions \in Seq(SubmissionRows)
  BY DEF IInv, LedgerTypes
<1>1. ASSUME NEW mint \in Mints, Submit(h, s, mint) PROVE IInv'
  <2> DEFINE row == SubmissionRow(s, "pending_review", mint, Studio(s))
  <2>1. row \in SubmissionRows /\ Studio(s) \in Places
    BY RegistryAssumption
       DEF SubmissionRow, SubmissionRows, Studio, Places, Statuses, Decisions, Open
  <2> HIDE DEF row
  <2>2. JobOK(Writing("register", row, "registerOwner"), submissions, ownership, certificates)
    BY <2>1, WritingOK
  <2>3. /\ handler' = [handler EXCEPT ![h] = Writing("register", row, "registerOwner")]
        /\ requests' = requests + 1 /\ UNCHANGED <<ledgers, faults>>
        /\ master' = [master EXCEPT ![s] = Studio(s)]
    BY <1>1 DEF Submit, Take, Become, row
  <2>4. requests' \in Nat /\ faults' \in Nat /\ master' \in [Submissions -> Places \cup {None}]
    BY <2>1, <2>3 DEF IInv
  <2>. QED
    BY <2>2, <2>3, <2>4, QuietStep
<1>2. ASSUME NEW row \in SubmissionRows, NEW pc \in {"ownerCheck", "append"},
             Take(h, Writing(pc, row, "idle")), UNCHANGED <<ledgers, master, faults>>
      PROVE  IInv'
  <2>1. JobOK(Writing(pc, row, "idle"), submissions, ownership, certificates)
    BY WritingOK
  <2>2. /\ handler' = [handler EXCEPT ![h] = Writing(pc, row, "idle")]
        /\ requests' \in Nat /\ faults' \in Nat
        /\ master' \in [Submissions -> Places \cup {None}] /\ UNCHANGED ledgers
    BY <1>2 DEF Take, Become, IInv
  <2>. QED
    BY <2>1, <2>2, QuietStep
<1>3. ASSUME NEW row \in SubmissionRows, NEW status \in Statuses, NEW mint \in Mints
      PROVE  Revised(row, status, mint) \in SubmissionRows
  BY DEF Revised, SubmissionRow, SubmissionRows
<1>4. ASSUME Withdraw(h, s) PROVE IInv'
  <2> DEFINE row == Latest(submissions, s)
  <2>1. Has(submissions, s) /\ row \in SubmissionRows /\ row.mint \in Mints
    BY <1>0, <1>4, LatestRow DEF Withdraw, SubmissionRows
  <2> HIDE DEF row
  <2>2. Revised(row, "withdrawn", row.mint) \in SubmissionRows
    BY <1>3, <2>1 DEF Statuses
  <2>. QED
    BY <1>2, <1>4, <2>2 DEF Withdraw, row
<1>5. ASSUME NEW mint \in Mints, EditEdition(h, s, mint) PROVE IInv'
  <2> DEFINE row == Latest(submissions, s)
  <2>1. Has(submissions, s) /\ row \in SubmissionRows
    BY <1>0, <1>5, LatestRow DEF EditEdition
  <2> HIDE DEF row
  <2>2. row.status \in Statuses
    BY <2>1 DEF SubmissionRows
  <2>3. Revised(row, row.status, mint) \in SubmissionRows
    BY <1>3, <2>1, <2>2
  <2>. QED
    BY <1>2, <1>5, <2>3 DEF EditEdition, row
<1>6. ASSUME Acknowledge(h, s) PROVE IInv'
  <2> DEFINE row == Latest(submissions, s)
  <2>1. Has(submissions, s) /\ row \in SubmissionRows
    BY <1>0, <1>6, LatestRow DEF Acknowledge
  <2> HIDE DEF row
  <2>. QED
    BY <1>2, <1>6, <2>1 DEF Acknowledge, row
<1>. QED
  BY <1>1, <1>4, <1>5, <1>6 DEF Artist

LEMMA OperatorIInv ==
  ASSUME IInv, NEW h \in Handlers, NEW s \in Submissions, Operator(h, s)
  PROVE  IInv'
<1>0. submissions \in Seq(SubmissionRows)
  BY DEF IInv, LedgerTypes
<1>1. ASSUME NEW job, Take(h, job), UNCHANGED <<ledgers, master, faults>>,
             JobOK(job, submissions, ownership, certificates)
      PROVE  IInv'
  <2>1. /\ handler' = [handler EXCEPT ![h] = job]
        /\ requests' \in Nat /\ faults' \in Nat
        /\ master' \in [Submissions -> Places \cup {None}] /\ UNCHANGED ledgers
    BY <1>1 DEF Take, Become, IInv
  <2>. QED
    BY <1>1, <2>1, QuietStep
<1>2. ASSUME NEW decision \in Decisions, NEW mint \in Mints,
             Review(h, s, decision, mint)
      PROVE  IInv'
  <2> DEFINE row == Latest(submissions, s)
             new == Revised(row, decision, mint)
             then == AfterReview(row.status, decision)
  <2>1. Has(submissions, s) /\ row \in SubmissionRows
    BY <1>0, <1>2, LatestRow DEF Review
  <2>2. new \in SubmissionRows /\ new.status = decision
    BY <2>1 DEF Revised, SubmissionRow, SubmissionRows, Statuses
  <2>3. then \in {"idle", "registerOwner", "chronicle", "certificates"}
        /\ (then \in {"chronicle", "certificates"} => decision = "approved")
    BY DEF AfterReview
  <2>4. Take(h, Writing("append", new, then)) /\ UNCHANGED <<ledgers, master, faults>>
    BY <1>2 DEF Review
  <2> HIDE DEF row, new, then
  <2>5. JobOK(Writing("append", new, then), submissions, ownership, certificates)
    BY <2>2, <2>3, WritingOK
  <2>. QED
    BY <1>1, <2>4, <2>5
<1>3. ASSUME Repair(h, s) PROVE IInv'
  <2>1. Has(submissions, s) /\ Latest(submissions, s) \in SubmissionRows
    BY <1>0, <1>3, LatestRow DEF Repair
  <2>2. JobOK(Writing("append", Latest(submissions, s), "idle"), submissions, ownership, certificates)
    BY <2>1, WritingOK
  <2>. QED
    BY <1>1, <1>3, <2>2 DEF Repair
<1>4. ASSUME NEW buyer \in Buyers, Settle(h, s, buyer) PROVE IInv'
  <2>1. Has(submissions, s) /\ Latest(submissions, s) \in SubmissionRows /\ buyer \in Holders
    BY <1>0, <1>4, LatestRow, RegistryAssumption DEF Settle
  <2>2. JobOK(Selling("move", Latest(submissions, s), buyer), submissions, ownership, certificates)
    BY <2>1, SellingOK
  <2>. QED
    BY <1>1, <1>4, <2>2 DEF Settle
<1>. QED
  BY <1>2, <1>3, <1>4 DEF Operator

LEMMA VisitorIInv ==
  ASSUME IInv, NEW h \in Handlers, NEW s \in Submissions, Visitor(h, s)
  PROVE  IInv'
<1>0. submissions \in Seq(SubmissionRows)
  BY DEF IInv, LedgerTypes
<1>1. ASSUME NEW buyer \in Buyers, DemoPurchase(h, s, buyer) PROVE IInv'
  <2>1. Has(submissions, s) /\ Latest(submissions, s) \in SubmissionRows /\ buyer \in Holders
    BY <1>0, <1>1, LatestRow, RegistryAssumption DEF DemoPurchase
  <2>2. JobOK(Selling("holdCheck", Latest(submissions, s), buyer), submissions, ownership, certificates)
    BY <2>1, SellingOK
  <2>3. /\ handler' = [handler EXCEPT ![h] = Selling("holdCheck", Latest(submissions, s), buyer)]
        /\ requests' \in Nat /\ faults' \in Nat
        /\ master' \in [Submissions -> Places \cup {None}] /\ UNCHANGED ledgers
    BY <1>1 DEF DemoPurchase, Take, Become, IInv
  <2>. QED
    BY <2>2, <2>3, QuietStep
<1>2. ASSUME Backfill(h, s) PROVE IInv'
  <2> DEFINE row == Latest(submissions, s)
  <2>1. /\ row \in SubmissionRows /\ Approved(submissions, row.key, row.mint)
    BY <1>0, <1>2, LatestRow DEF Backfill
  <2>2. /\ handler' = [handler EXCEPT ![h] = Issuing("certificates", row, 1, 0)]
        /\ requests' \in Nat /\ faults' \in Nat
        /\ master' \in [Submissions -> Places \cup {None}] /\ UNCHANGED ledgers
    BY <1>2 DEF Backfill, Become, IInv
  <2> HIDE DEF row
  <2>3. 1 \in 1 .. row.mint
    BY <2>1 DEF SubmissionRows, Mints
  <2>4. JobOK(Issuing("certificates", row, 1, 0), submissions, ownership, certificates)
    BY <2>1, <2>3, IssuingOK DEF Issuing, PCs
  <2>. QED
    BY <2>2, <2>4, QuietStep
<1>. QED
  BY <1>1, <1>2 DEF Visitor

\* What the invariant says of a busy handler.
LEMMA JobFacts ==
  ASSUME IInv, NEW h \in Handlers, handler[h].pc # "idle"
  PROVE  /\ JobOK(handler[h], submissions, ownership, certificates)
         /\ handler[h] \in Jobs
         /\ RowOf(h) \in SubmissionRows
         /\ RowOf(h).key \in Submissions
         /\ handler[h].buyer \in Holders \cup {None}
<1>1. JobOK(handler[h], submissions, ownership, certificates) /\ handler[h] \in Jobs
  BY DEF IInv, HandlersOK
<1>2. RowOf(h) \in SubmissionRows
  BY <1>1 DEF JobOK, RowOf
<1>. QED
  BY <1>1, <1>2 DEF SubmissionRows, Jobs

LEMMA ReadIInv ==
  ASSUME IInv, NEW h \in Handlers, ReadStep(h)
  PROVE  IInv'
<1>1. PICK readable \in BOOLEAN :
        \/ OwnerCheck(h, readable) \/ ReadChronicle(h, readable) \/ ReadCertificate(h, readable)
        \/ HoldCheck(h, readable) \/ Reread(h, readable) \/ ReadForReissue(h, readable)
  BY DEF ReadStep
<1>2. ASSUME ReadOutcome(readable) PROVE faults' \in Nat
  BY <1>2 DEF ReadOutcome, IInv
<1>3. ASSUME NEW job, ReadOutcome(readable), Become(h, job), UNCHANGED <<ledgers, master, requests>>,
             JobOK(job, submissions, ownership, certificates)
      PROVE  IInv'
  <2>1. /\ handler' = [handler EXCEPT ![h] = job] /\ UNCHANGED ledgers
        /\ requests' \in Nat /\ faults' \in Nat /\ master' \in [Submissions -> Places \cup {None}]
    BY <1>2, <1>3 DEF Become, IInv
  <2>. QED
    BY <1>3, <2>1, QuietStep
<1>4. JobOK(Idle, submissions, ownership, certificates)
  BY IdleOK
<1>5. CASE OwnerCheck(h, readable)
  <2>1. RowOf(h) \in SubmissionRows
    BY <1>5, JobFacts DEF OwnerCheck, At
  <2>2. JobOK(Writing("append", RowOf(h), "idle"), submissions, ownership, certificates)
    BY <2>1, WritingOK
  <2>. QED
    BY <1>3, <1>4, <1>5, <2>2 DEF OwnerCheck
<1>6. CASE ReadChronicle(h, readable)
  <2> DEFINE seen == LatestIndex(ReadRows(chronicle, readable), RowOf(h).key)
  <2>1. RowOf(h) \in SubmissionRows /\ Approved(submissions, RowOf(h).key, RowOf(h).mint)
    BY <1>6, JobFacts DEF ReadChronicle, At, JobOK, IssuingPCs, RowOf
  <2>2. ReadRows(chronicle, readable) \in Seq(ChronicleRows)
    BY DEF ReadRows, IInv, LedgerTypes
  <2>3. seen \in Nat
    BY <2>2, LatestIndexProperties, LenProperties
  <2>4. Become(h, Issuing("chronicleAppend", RowOf(h), 0, seen))
    BY <1>6 DEF ReadChronicle
  <2> HIDE DEF seen
  <2>5. JobOK(Issuing("chronicleAppend", RowOf(h), 0, seen), submissions, ownership, certificates)
    BY <2>1, <2>3, IssuingOK DEF Issuing, PCs
  <2>. QED
    BY <1>3, <1>6, <2>4, <2>5 DEF ReadChronicle
<1>7. CASE ReadCertificate(h, readable)
  <2>1. /\ RowOf(h) \in SubmissionRows /\ Approved(submissions, RowOf(h).key, RowOf(h).mint)
        /\ handler[h].n \in 1 .. RowOf(h).mint /\ handler[h] \in Jobs
    BY <1>7, JobFacts DEF ReadCertificate, At, JobOK, IssuingPCs, RowOf
  <2>2. JobOK(NextEdition(h, "certificates"), submissions, ownership, certificates)
    BY <2>1, NextEditionOK
  <2>3. handler[h].n \in Nat
    BY <2>1 DEF Jobs
  <2>4. JobOK(Issuing("issue", RowOf(h), handler[h].n, 0), submissions, ownership, certificates)
    BY <2>1, <2>3, IssuingOK DEF Issuing, PCs
  <2>. QED
    BY <1>3, <1>7, <2>2, <2>4 DEF ReadCertificate
<1>8. CASE HoldCheck(h, readable)
  <2>1. RowOf(h) \in SubmissionRows /\ handler[h].buyer \in Holders
    BY <1>8, JobFacts DEF HoldCheck, At, JobOK, SalePCs
  <2>2. JobOK(Selling("move", RowOf(h), handler[h].buyer), submissions, ownership, certificates)
    BY <2>1, SellingOK
  <2>. QED
    BY <1>3, <1>4, <1>8, <2>2 DEF HoldCheck
<1>9. CASE Reread(h, readable)
  <2> DEFINE s == RowOf(h).key
             row == Latest(submissions, s)
  <2>1. handler[h].buyer \in Holders /\ Owned(ownership, s, handler[h].buyer)
    BY <1>9, JobFacts DEF Reread, At, JobOK, SalePCs, RowOf
  <2>2. CASE readable /\ Has(submissions, s) /\ row.status = "approved"
    <3>1. row \in SubmissionRows /\ row.key = s /\ Approved(submissions, s, row.mint)
      BY <2>2, LatestRow DEF IInv, LedgerTypes
    <3>2. Become(h, Reissuing("reissue", row, handler[h].buyer, 1, 0))
      BY <1>9, <2>2 DEF Reread, ReadRows
    <3> HIDE DEF row
    <3>3. 1 \in 1 .. row.mint
      BY <3>1 DEF SubmissionRows, Mints
    <3>4. JobOK(Reissuing("reissue", row, handler[h].buyer, 1, 0), submissions, ownership, certificates)
      BY <2>1, <3>1, <3>3, ReissuingOK
    <3>. QED
      BY <1>3, <1>9, <3>2, <3>4 DEF Reread
  <2>3. CASE ~(readable /\ Has(submissions, s) /\ row.status = "approved")
    <3>1. ~Has(<< >>, s)
      <4>1. << >> \in Seq(SubmissionRows) /\ Len(<< >>) = 0
        OBVIOUS
      <4>2. \A j \in 1 .. Len(<< >>) : << >>[j].key # s
        BY <4>1
      <4>. QED
        BY <4>1, <4>2, LatestIndexNone DEF Has
    <3>2. Become(h, Idle)
      BY <1>9, <2>3, <3>1 DEF Reread, ReadRows
    <3>. QED
      BY <1>3, <1>4, <1>9, <3>2 DEF Reread
  <2>. QED
    BY <2>2, <2>3
<1>10. CASE ReadForReissue(h, readable)
  <2> DEFINE certs == ReadRows(certificates, readable)
             latest == LatestCertificate(certs, Binding(RowOf(h).key, handler[h].n))
  <2>1. /\ RowOf(h) \in SubmissionRows /\ Approved(submissions, RowOf(h).key, RowOf(h).mint)
        /\ handler[h].n \in 1 .. RowOf(h).mint /\ handler[h] \in Jobs
        /\ handler[h].buyer \in Holders /\ Owned(ownership, RowOf(h).key, handler[h].buyer)
    BY <1>10, JobFacts DEF ReadForReissue, At, JobOK, IssuingPCs, SalePCs, RowOf
  <2>2. JobOK(NextEdition(h, "reissue"), submissions, ownership, certificates)
    BY <2>1, NextEditionOK
  <2>3. certs \in Seq(CertificateRows) /\ \A i \in 1 .. Len(certs) : certs[i].version <= i
    BY DEF ReadRows, IInv, LedgerTypes, VersionsBounded
  <2>4. latest \in 0 .. Len(certs) /\ Len(certs) \in Nat
    BY <2>3, LatestCertificateType, LenProperties
  <2>5. Len(certs) = 0 \/ certs = certificates
    BY DEF ReadRows
  <2>6. CASE latest # 0 /\ certs[latest].holder # handler[h].buyer
    <3>1. Become(h, Reissuing("reissueAppend", RowOf(h), handler[h].buyer, handler[h].n, latest))
      BY <1>10, <2>6 DEF ReadForReissue
    <3>2. latest \in 1 .. Len(certificates) /\ latest \in Nat
      BY <2>4, <2>5, <2>6
    <3> HIDE DEF latest
    <3>3. JobOK(Reissuing("reissueAppend", RowOf(h), handler[h].buyer, handler[h].n, latest),
                submissions, ownership, certificates)
      BY <2>1, <3>2, ReissuingOK
    <3>. QED
      BY <1>3, <1>10, <3>1, <3>3 DEF ReadForReissue
  <2>7. CASE ~(latest # 0 /\ certs[latest].holder # handler[h].buyer)
    <3>1. Become(h, NextEdition(h, "reissue"))
      BY <1>10, <2>7 DEF ReadForReissue
    <3>. QED
      BY <1>3, <1>10, <2>2, <3>1 DEF ReadForReissue
  <2>. QED
    BY <2>6, <2>7
<1>. QED
  BY <1>1, <1>5, <1>6, <1>7, <1>8, <1>9, <1>10

(***************************************************************************)
(* The appends. Each new row is justified by what the handler holds.       *)
(***************************************************************************)
LEMMA SubmissionAppended ==
  ASSUME IInv, NEW h \in Handlers, NEW row \in SubmissionRows, NEW job,
         submissions' = Append(submissions, row),
         handler' = [handler EXCEPT ![h] = job],
         UNCHANGED <<ownership, certificates, chronicle, master, requests, faults>>,
         JobOK(job, submissions', ownership, certificates)
  PROVE  IInv'
<1>1. submissions' \in Seq(SubmissionRows) /\ Grown(submissions, submissions')
  BY GrownAppend DEF IInv, LedgerTypes
<1>2. Grown(ownership, ownership') /\ Grown(certificates, certificates')
  BY GrownSame DEF IInv, LedgerTypes
<1>3. HandlersOK'
  BY <1>1, <1>2, HandlersStayOK DEF IInv
<1>4. LedgerTypes'
  BY <1>1 DEF IInv, LedgerTypes
<1>5. /\ CertificatesOK(certificates', submissions', ownership')
      /\ OwnershipOK(ownership', submissions')
      /\ ChronicleOK(chronicle', submissions')
  BY <1>1, GrownKeeps DEF IInv, CertificatesOK, OwnershipOK, ChronicleOK
<1>. QED
  BY <1>3, <1>4, <1>5 DEF IInv

LEMMA OwnershipAppended ==
  ASSUME IInv, NEW h \in Handlers, NEW row \in OwnershipRows, NEW job,
         ownership' = Append(ownership, row),
         row.holder = ArtistHolds(row.key) \/ Delivered(submissions, row.key, row.holder),
         handler' = [handler EXCEPT ![h] = job],
         UNCHANGED <<submissions, certificates, chronicle, master, requests, faults>>,
         JobOK(job, submissions, ownership', certificates)
  PROVE  IInv'
<1>1. /\ ownership' \in Seq(OwnershipRows) /\ Grown(ownership, ownership')
      /\ Len(ownership) \in Nat
      /\ Len(ownership') = Len(ownership) + 1 /\ ownership'[Len(ownership) + 1] = row
      /\ \A i \in 1 .. Len(ownership) : ownership'[i] = ownership[i]
  BY GrownAppend DEF IInv, LedgerTypes
<1>2. Grown(submissions, submissions') /\ Grown(certificates, certificates')
  BY GrownSame DEF IInv, LedgerTypes
<1>3. HandlersOK'
  BY <1>1, <1>2, HandlersStayOK DEF IInv
<1>4. LedgerTypes'
  BY <1>1 DEF IInv, LedgerTypes
<1>5. CertificatesOK(certificates', submissions', ownership')
  BY <1>1, GrownKeeps DEF IInv, CertificatesOK
<1>6. OwnershipOK(ownership', submissions')
  BY <1>1 DEF IInv, OwnershipOK
<1>. QED
  BY <1>3, <1>4, <1>5, <1>6 DEF IInv

LEMMA ChronicleAppended ==
  ASSUME IInv, NEW h \in Handlers, NEW row \in ChronicleRows, NEW job,
         chronicle' = Append(chronicle, row),
         Approved(submissions, row.key, 1),
         handler' = [handler EXCEPT ![h] = job],
         UNCHANGED <<submissions, ownership, certificates, master, requests, faults>>,
         JobOK(job, submissions, ownership, certificates)
  PROVE  IInv'
<1>1. /\ chronicle' \in Seq(ChronicleRows)
      /\ Len(chronicle) \in Nat
      /\ Len(chronicle') = Len(chronicle) + 1 /\ chronicle'[Len(chronicle) + 1] = row
      /\ \A i \in 1 .. Len(chronicle) : chronicle'[i] = chronicle[i]
  BY GrownAppend DEF IInv, LedgerTypes
<1>2. /\ Grown(submissions, submissions') /\ Grown(ownership, ownership')
      /\ Grown(certificates, certificates')
  BY GrownSame DEF IInv, LedgerTypes
<1>3. HandlersOK'
  BY <1>2, HandlersStayOK DEF IInv
<1>4. LedgerTypes'
  BY <1>1 DEF IInv, LedgerTypes
<1>5. ChronicleOK(chronicle', submissions')
  BY <1>1 DEF IInv, ChronicleOK
<1>. QED
  BY <1>3, <1>4, <1>5 DEF IInv

LEMMA CertificateAppended ==
  ASSUME IInv, NEW h \in Handlers, NEW row \in CertificateRows, NEW job,
         certificates' = Append(certificates, row),
         row.version <= Len(certificates) + 1,
         Approved(submissions, row.key[1], row.key[2]),
         row.holder = ArtistHolds(row.key[1]) \/ Owned(ownership, row.key[1], row.holder),
         handler' = [handler EXCEPT ![h] = job],
         UNCHANGED <<submissions, ownership, chronicle, master, requests, faults>>,
         JobOK(job, submissions, ownership, certificates')
  PROVE  IInv'
<1>1. /\ certificates' \in Seq(CertificateRows) /\ Grown(certificates, certificates')
      /\ Len(certificates) \in Nat
      /\ Len(certificates') = Len(certificates) + 1 /\ certificates'[Len(certificates) + 1] = row
      /\ \A i \in 1 .. Len(certificates) : certificates'[i] = certificates[i]
  BY GrownAppend DEF IInv, LedgerTypes
<1>2. Grown(submissions, submissions') /\ Grown(ownership, ownership')
  BY GrownSame DEF IInv, LedgerTypes
<1>3. HandlersOK'
  BY <1>1, <1>2, HandlersStayOK DEF IInv
<1>4. LedgerTypes'
  BY <1>1 DEF IInv, LedgerTypes
<1>5. VersionsBounded(certificates')
  BY <1>1 DEF IInv, VersionsBounded
<1>6. CertificatesOK(certificates', submissions', ownership')
  BY <1>1 DEF IInv, CertificatesOK
<1>. QED
  BY <1>3, <1>4, <1>5, <1>6 DEF IInv

\* A row approved for a number of editions is approved for any smaller one.
LEMMA ApprovedForFewer ==
  ASSUME submissions \in Seq(SubmissionRows), NEW s, NEW m \in Nat, NEW n \in Nat, n <= m,
         Approved(submissions, s, m)
  PROVE  Approved(submissions, s, n)
<1>1. PICK i \in 1 .. Len(submissions) :
        submissions[i].status = "approved" /\ submissions[i].key = s /\ m <= submissions[i].mint
  BY DEF Approved
<1>2. submissions[i] \in SubmissionRows
  BY <1>1, ElementOfSeq
<1>3. submissions[i].mint \in Nat
  BY <1>2 DEF SubmissionRows, Mints
<1>4. n <= submissions[i].mint
  BY <1>1, <1>3
<1>. QED
  BY <1>1, <1>4 DEF Approved

LEMMA ArtistIsHolder ==
  ASSUME NEW s \in Submissions
  PROVE  ArtistHolds(s) \in Holders
<1>. QED
  BY RegistryAssumption DEF ArtistHolds, Holders

LEMMA WriteIInv ==
  ASSUME IInv, NEW h \in Handlers, WriteStep(h)
  PROVE  IInv'
<1> DEFINE row == RowOf(h)
           buyer == handler[h].buyer
<1>0. submissions \in Seq(SubmissionRows) /\ ownership \in Seq(OwnershipRows)
      /\ certificates \in Seq(CertificateRows)
  BY DEF IInv, LedgerTypes
<1>1. CASE AppendSubmission(h)
  <2> DEFINE then == handler[h].then
  <2>1. /\ row \in SubmissionRows
        /\ then \in {"idle", "registerOwner", "chronicle", "certificates"}
        /\ then \in {"chronicle", "certificates"} => row.status = "approved"
    BY <1>1, JobFacts DEF AppendSubmission, JobOK, RowOf
  <2>2. submissions' = Append(submissions, row)
        /\ handler' = [handler EXCEPT ![h] = Continue(h, then)]
        /\ UNCHANGED <<ownership, certificates, chronicle, master, requests, faults>>
    BY <1>1 DEF AppendSubmission, Become
  <2>3. row.status = "approved" => Approved(submissions', row.key, row.mint)
    <3>1. /\ Len(submissions) \in Nat /\ Len(submissions') = Len(submissions) + 1
          /\ submissions'[Len(submissions) + 1] = row
      BY <1>0, <2>1, <2>2, GrownAppend
    <3>2. row.mint <= row.mint
      BY <2>1 DEF SubmissionRows, Mints
    <3>. QED
      BY <3>1, <3>2 DEF Approved
  <2>4. 1 \in 1 .. row.mint
    BY <2>1 DEF SubmissionRows, Mints
  <2> HIDE DEF then, row
  <2>5. JobOK(Continue(h, then), submissions', ownership, certificates)
    <3>1. CASE then = "idle"
      BY <3>1, IdleOK DEF Continue
    <3>2. CASE then = "certificates"
      <4>1. Continue(h, then) = Job("certificates", row, "idle", None, 1, 0)
        BY <3>2 DEF Continue, Issuing, row
      <4>. QED
        BY <2>1, <2>3, <2>4, <3>2, <4>1, IssuingOK DEF PCs
    <3>3. CASE then = "registerOwner"
      <4>1. Continue(h, then) = Writing("registerOwner", row, "idle")
        BY <3>3 DEF Continue, row
      <4>. QED
        BY <2>1, <4>1, WritingOK
    <3>4. CASE then = "chronicle"
      <4>1. Continue(h, then) = Job("chronicle", row, "idle", None, 0, 0)
        BY <3>4 DEF Continue, Writing, row
      <4>. QED
        BY <2>1, <2>3, <3>4, <4>1, IssuingOK DEF PCs
    <3>. QED
      BY <2>1, <3>1, <3>2, <3>3, <3>4
  <2>. QED
    BY <2>1, <2>2, <2>5, SubmissionAppended
<1>2. CASE RegisterOwner(h)
  <2> DEFINE event == OwnershipRow(row.key, ArtistHolds(row.key))
  <2>1. row.key \in Submissions
    BY <1>2, JobFacts DEF RegisterOwner, At
  <2>2. event \in OwnershipRows /\ event.holder = ArtistHolds(event.key)
    BY <2>1, ArtistIsHolder DEF OwnershipRow, OwnershipRows
  <2>3. /\ ownership' = Append(ownership, event) /\ handler' = [handler EXCEPT ![h] = Idle]
        /\ UNCHANGED <<submissions, certificates, chronicle, master, requests, faults>>
    BY <1>2 DEF RegisterOwner, Become
  <2>4. JobOK(Idle, submissions, ownership', certificates)
    BY IdleOK
  <2> HIDE DEF event
  <2>. QED
    BY <2>2, <2>3, <2>4, OwnershipAppended
<1>3. CASE AppendChronicle(h)
  <2> DEFINE entry == ChronicleRow(row.key, handler[h].seen)
  <2>1. /\ row \in SubmissionRows /\ row.key \in Submissions /\ handler[h].seen \in Nat
        /\ Approved(submissions, row.key, row.mint)
    BY <1>3, JobFacts DEF AppendChronicle, At, JobOK, IssuingPCs, RowOf, Jobs
  <2>2. entry \in ChronicleRows /\ entry.key = row.key
    BY <2>1 DEF ChronicleRow, ChronicleRows
  <2>3. row.mint \in Nat /\ 1 <= row.mint /\ 1 \in 1 .. row.mint
    BY <2>1 DEF SubmissionRows, Mints
  <2>4. Approved(submissions, row.key, 1)
    BY <1>0, <2>1, <2>3, ApprovedForFewer
  <2>5. /\ chronicle' = Append(chronicle, entry)
        /\ handler' = [handler EXCEPT ![h] = Issuing("certificates", row, 1, 0)]
        /\ UNCHANGED <<submissions, ownership, certificates, master, requests, faults>>
    BY <1>3 DEF AppendChronicle, Become
  <2> HIDE DEF entry, row
  <2>6. JobOK(Issuing("certificates", row, 1, 0), submissions, ownership, certificates)
    BY <2>1, <2>3, IssuingOK DEF Issuing, PCs
  <2>. QED
    BY <2>2, <2>4, <2>5, <2>6, ChronicleAppended
<1>4. ASSUME NEW pc \in {"certificates", "reissue"},
             handler[h].pc \in {"issue", "reissueAppend"},
             pc = "reissue" => handler[h].pc = "reissueAppend",
             NEW cert \in CertificateRows, certificates' = Append(certificates, cert),
             cert.key = Binding(row.key, handler[h].n),
             cert.version <= Len(certificates) + 1,
             cert.holder = ArtistHolds(row.key) \/ Owned(ownership, row.key, cert.holder),
             Become(h, NextEdition(h, pc)),
             UNCHANGED <<submissions, ownership, chronicle, master, requests, faults>>
      PROVE  IInv'
  <2>1. /\ row \in SubmissionRows /\ handler[h] \in Jobs /\ handler[h].n \in 1 .. row.mint
        /\ Approved(submissions, row.key, row.mint)
        /\ pc = "reissue" => buyer \in Holders /\ Owned(ownership, row.key, buyer)
    BY <1>4, JobFacts DEF JobOK, IssuingPCs, SalePCs, RowOf
  <2>2. row.mint \in Nat /\ handler[h].n \in Nat /\ handler[h].n <= row.mint
    BY <2>1 DEF SubmissionRows, Mints, Jobs
  <2>3. Approved(submissions, row.key, handler[h].n)
    BY <1>0, <2>1, <2>2, ApprovedForFewer
  <2>4. cert.key[1] = row.key /\ cert.key[2] = handler[h].n
    BY <1>4 DEF Binding
  <2>5. JobOK(NextEdition(h, pc), submissions, ownership, certificates')
    BY <2>1, NextEditionOK
  <2>6. handler' = [handler EXCEPT ![h] = NextEdition(h, pc)]
    BY <1>4 DEF Become
  <2> HIDE DEF row
  <2>. QED
    BY <1>4, <2>3, <2>4, <2>5, <2>6, CertificateAppended
<1>5. CASE Issue(h)
  <2> DEFINE cert == CertificateRow(row.key, handler[h].n, 1, ArtistHolds(row.key), 0)
  <2>1. /\ row \in SubmissionRows /\ row.key \in Submissions /\ handler[h].n \in 1 .. row.mint
    BY <1>5, JobFacts DEF Issue, At, JobOK, RowOf
  <2>2. handler[h].n \in Mints
    BY <2>1, RegistryAssumption DEF SubmissionRows, Mints
  <2>3. cert \in CertificateRows
    BY <2>1, <2>2, ArtistIsHolder DEF CertificateRow, CertificateRows, Binding
  <2>4. cert.key = Binding(row.key, handler[h].n) /\ cert.version = 1
        /\ cert.holder = ArtistHolds(row.key)
    BY DEF CertificateRow
  <2>5. Len(certificates) \in Nat
    BY <1>0, LenProperties
  <2>6. /\ certificates' = Append(certificates, cert) /\ Become(h, NextEdition(h, "certificates"))
        /\ UNCHANGED <<submissions, ownership, chronicle, master, requests, faults>>
        /\ handler[h].pc = "issue"
    BY <1>5 DEF Issue, At
  <2> HIDE DEF cert
  <2>. QED
    BY <1>4, <2>3, <2>4, <2>5, <2>6
<1>6. CASE MoveMaster(h)
  <2>1. row \in SubmissionRows /\ row.key \in Submissions /\ buyer \in Holders
    BY <1>6, JobFacts DEF MoveMaster, At, JobOK, SalePCs
  <2>2. CASE master[row.key] = row.file
    <3> DEFINE new == Moved(row, buyer)
    <3>1. buyer \in Places
      BY <2>1 DEF Holders, Places
    <3>2. new \in SubmissionRows /\ new.file = buyer
      BY <2>1, <3>1 DEF Moved, SubmissionRow, SubmissionRows
    <3>3. /\ handler' = [handler EXCEPT ![h] = Selling("recordMove", new, buyer)]
          /\ master' = [master EXCEPT ![row.key] = buyer]
          /\ UNCHANGED <<ledgers, requests, faults>>
      BY <1>6, <2>2 DEF MoveMaster, Become
    <3>4. master' \in [Submissions -> Places \cup {None}] /\ requests' \in Nat /\ faults' \in Nat
      BY <2>1, <3>1, <3>3 DEF IInv
    <3> HIDE DEF new, buyer
    <3>5. JobOK(Selling("recordMove", new, buyer), submissions, ownership, certificates)
      BY <2>1, <3>2, SellingOK
    <3>. QED
      BY <3>3, <3>4, <3>5, QuietStep
  <2>3. CASE master[row.key] # row.file
    <3>1. /\ handler' = [handler EXCEPT ![h] = Idle]
          /\ UNCHANGED <<ledgers, master, requests, faults>>
      BY <1>6, <2>3 DEF MoveMaster, Become
    <3>2. master' \in [Submissions -> Places \cup {None}] /\ requests' \in Nat /\ faults' \in Nat
      BY <3>1 DEF IInv
    <3>3. JobOK(Idle, submissions, ownership, certificates)
      BY IdleOK
    <3>. QED
      BY <3>1, <3>2, <3>3, QuietStep
  <2>. QED
    BY <2>2, <2>3
<1>7. CASE RecordMove(h)
  <2>1. row \in SubmissionRows /\ buyer \in Holders /\ row.file = buyer
    BY <1>7, JobFacts DEF RecordMove, At, JobOK, SalePCs, RowOf
  <2>2. /\ submissions' = Append(submissions, row)
        /\ handler' = [handler EXCEPT ![h] = Selling("recordOwner", row, buyer)]
        /\ UNCHANGED <<ownership, certificates, chronicle, master, requests, faults>>
    BY <1>7 DEF RecordMove, Become
  <2>3. Delivered(submissions', row.key, buyer)
    <3>1. /\ Len(submissions) \in Nat /\ Len(submissions') = Len(submissions) + 1
          /\ submissions'[Len(submissions) + 1] = row
      BY <1>0, <2>1, <2>2, GrownAppend
    <3>. QED
      BY <2>1, <3>1 DEF Delivered
  <2> HIDE DEF row, buyer
  <2>4. JobOK(Selling("recordOwner", row, buyer), submissions', ownership, certificates)
    BY <2>1, <2>3, SellingOK
  <2>. QED
    BY <2>1, <2>2, <2>4, SubmissionAppended
<1>8. CASE RecordOwner(h)
  <2> DEFINE event == OwnershipRow(row.key, buyer)
  <2>1. /\ row \in SubmissionRows /\ row.key \in Submissions /\ buyer \in Holders
        /\ Delivered(submissions, row.key, buyer)
    BY <1>8, JobFacts DEF RecordOwner, At, JobOK, SalePCs, RowOf
  <2>2. event \in OwnershipRows /\ event.key = row.key /\ event.holder = buyer
    BY <2>1 DEF OwnershipRow, OwnershipRows
  <2>3. /\ ownership' = Append(ownership, event)
        /\ handler' = [handler EXCEPT ![h] = Selling("reread", row, buyer)]
        /\ UNCHANGED <<submissions, certificates, chronicle, master, requests, faults>>
    BY <1>8 DEF RecordOwner, Become
  <2>4. Owned(ownership', row.key, buyer)
    <3>1. /\ Len(ownership) \in Nat /\ Len(ownership') = Len(ownership) + 1
          /\ ownership'[Len(ownership) + 1] = event
      BY <1>0, <2>2, <2>3, GrownAppend
    <3>. QED
      BY <3>1 DEF Owned
  <2> HIDE DEF row, buyer, event
  <2>5. JobOK(Selling("reread", row, buyer), submissions, ownership', certificates)
    BY <2>1, <2>4, SellingOK
  <2>. QED
    BY <2>1, <2>2, <2>3, <2>5, OwnershipAppended
<1>9. CASE AppendReissue(h)
  <2> DEFINE seen == handler[h].seen
             cert == CertificateRow(row.key, handler[h].n, certificates[seen].version + 1, buyer, seen)
  <2>1. /\ row \in SubmissionRows /\ row.key \in Submissions /\ handler[h].n \in 1 .. row.mint
        /\ buyer \in Holders /\ Owned(ownership, row.key, buyer)
        /\ seen \in 1 .. Len(certificates)
    BY <1>9, JobFacts DEF AppendReissue, At, JobOK, SalePCs, RowOf
  <2>2. handler[h].n \in Mints
    BY <2>1, RegistryAssumption DEF SubmissionRows, Mints
  <2>3. /\ certificates[seen].version \in Nat /\ certificates[seen].version <= seen
        /\ seen \in Nat /\ Len(certificates) \in Nat
    <3>1. certificates[seen] \in CertificateRows /\ Len(certificates) \in Nat
      BY <1>0, <2>1, ElementOfSeq, LenProperties
    <3>. QED
      BY <2>1, <3>1 DEF CertificateRows, IInv, VersionsBounded
  <2> HIDE DEF seen
  <2>4. cert \in CertificateRows
    BY <2>1, <2>2, <2>3 DEF CertificateRow, CertificateRows, Binding
  <2>5. cert.key = Binding(row.key, handler[h].n) /\ cert.holder = buyer
        /\ cert.version <= Len(certificates) + 1
    BY <2>1, <2>3 DEF CertificateRow
  <2>6. /\ certificates' = Append(certificates, cert) /\ Become(h, NextEdition(h, "reissue"))
        /\ UNCHANGED <<submissions, ownership, chronicle, master, requests, faults>>
        /\ handler[h].pc = "reissueAppend"
    BY <1>9 DEF AppendReissue, At, RowOf, seen
  <2> HIDE DEF cert
  <2>. QED
    BY <1>4, <2>1, <2>4, <2>5, <2>6
<1>. QED
  BY <1>1, <1>2, <1>3, <1>5, <1>6, <1>7, <1>8, <1>9 DEF WriteStep

(***************************************************************************)
(* Failures leave the ledgers alone and the handlers idle, or past the     *)
(* chronicle with an approved row in hand.                                 *)
(***************************************************************************)
LEMMA FailIInv ==
  ASSUME IInv, NEW h \in Handlers, StepFails(h)
  PROVE  IInv'
<1>1. /\ requests' \in Nat /\ faults' \in Nat /\ UNCHANGED ledgers
      /\ master' \in [Submissions -> Places \cup {None}]
  BY DEF StepFails, IInv
<1>2. CASE At(h, "chronicleAppend")
  <2>1. RowOf(h) \in SubmissionRows /\ Approved(submissions, RowOf(h).key, RowOf(h).mint)
    BY <1>2, JobFacts DEF At, JobOK, IssuingPCs, RowOf
  <2>2. 1 \in 1 .. RowOf(h).mint
    BY <2>1 DEF SubmissionRows, Mints
  <2>3. JobOK(Issuing("certificates", RowOf(h), 1, 0), submissions, ownership, certificates)
    BY <2>1, <2>2, IssuingOK DEF Issuing, PCs
  <2>4. handler' = [handler EXCEPT ![h] = Issuing("certificates", RowOf(h), 1, 0)]
    BY <1>2 DEF StepFails, Become
  <2>. QED
    BY <1>1, <2>3, <2>4, QuietStep
<1>3. CASE ~At(h, "chronicleAppend")
  <2>1. JobOK(Idle, submissions, ownership, certificates)
    BY IdleOK
  <2>2. handler' = [handler EXCEPT ![h] = Idle]
    BY <1>3 DEF StepFails, Become
  <2>. QED
    BY <1>1, <2>1, <2>2, QuietStep
<1>. QED
  BY <1>2, <1>3

LEMMA CrashIInv ==
  ASSUME IInv, Crash
  PROVE  IInv'
<1>1. /\ submissions' = submissions /\ ownership' = ownership
      /\ certificates' = certificates /\ chronicle' = chronicle
      /\ master' = master /\ requests' = requests /\ faults' \in Nat
  BY DEF Crash, ledgers, IInv
<1>2. HandlersOK'
  <2>1. \A h \in Handlers : handler'[h] = Idle
    BY DEF Crash
  <2>2. Idle \in Jobs
    BY DEF Idle, Job, Jobs, PCs
  <2>3. handler' \in [Handlers -> Jobs]
    BY <2>2 DEF Crash
  <2>. QED
    BY <2>1, <2>3, IdleOK DEF HandlersOK
<1>. QED
  BY <1>1, <1>2 DEF IInv, LedgerTypes

LEMMA NextIInv == IInv /\ [Next]_vars => IInv'
<1> SUFFICES ASSUME IInv, [Next]_vars PROVE IInv'
  OBVIOUS
<1>1. ASSUME NEW h \in Handlers, NEW s \in Submissions,
             Artist(h, s) \/ Operator(h, s) \/ Visitor(h, s)
      PROVE  IInv'
  BY <1>1, ArtistIInv, OperatorIInv, VisitorIInv
<1>2. ASSUME NEW h \in Handlers, ReadStep(h) \/ WriteStep(h) \/ StepFails(h)
      PROVE  IInv'
  BY <1>2, ReadIInv, WriteIInv, FailIInv
<1>3. CASE Crash
  BY <1>3, CrashIInv
<1>4. CASE UNCHANGED vars
  BY <1>4 DEF vars, ledgers, IInv, LedgerTypes, HandlersOK
<1>. QED
  BY <1>1, <1>2, <1>3, <1>4 DEF Next

-----------------------------------------------------------------------------
(***************************************************************************)
(* The results.                                                            *)
(***************************************************************************)
THEOREM InvariantHolds == Spec => []IInv
<1>. QED
  BY InitIInv, NextIInv, PTL DEF Spec

\* Every row any request appends is well formed, and every request in flight has
\* the data its next step needs.
THEOREM RegistryTypeCorrect == Spec => []TypeOK
<1>1. IInv => TypeOK
  BY DEF IInv, LedgerTypes, HandlersOK, JobOK, TypeOK, Free, RowOf
<1>. QED
  BY <1>1, InvariantHolds, PTL

\* No certificate and no chronicle entry is ever issued for a submission, or an
\* edition number, that no row of the submission ledger approved.
THEOREM IssuanceIsApprovedHolds == Spec => []IssuanceIsApproved
<1>1. IInv => IssuanceIsApproved
  <2> SUFFICES ASSUME IInv PROVE IssuanceIsApproved
    OBVIOUS
  <2>1. /\ DOMAIN submissions = 1 .. Len(submissions)
        /\ DOMAIN certificates = 1 .. Len(certificates)
        /\ DOMAIN chronicle = 1 .. Len(chronicle)
    BY LenProperties DEF IInv, LedgerTypes
  <2>. QED
    BY <2>1 DEF IInv, CertificatesOK, ChronicleOK, Approved, IssuanceIsApproved
<1>. QED
  BY <1>1, InvariantHolds, PTL

\* A certificate's custodian is the artist or has an ownership event, and an
\* ownership event's holder is the artist or has a row that delivers the file.
THEOREM CustodyTrailHolds == Spec => []CustodyTrail
<1>1. IInv => CustodyTrail
  <2> SUFFICES ASSUME IInv PROVE CustodyTrail
    OBVIOUS
  <2>1. /\ DOMAIN submissions = 1 .. Len(submissions)
        /\ DOMAIN certificates = 1 .. Len(certificates)
        /\ DOMAIN ownership = 1 .. Len(ownership)
    BY LenProperties DEF IInv, LedgerTypes
  <2>. QED
    BY <2>1 DEF IInv, CertificatesOK, OwnershipOK, Owned, Delivered, CustodyTrail
<1>. QED
  BY <1>1, InvariantHolds, PTL

-----------------------------------------------------------------------------
(***************************************************************************)
(* What holds as long as no two requests for one submission overlap. The   *)
(* code does not see to that, so it is a hypothesis on the behaviour,      *)
(* []Apart: any number of requests for different submissions may overlap,  *)
(* and a lock held for each submission would establish it.                 *)
(***************************************************************************)
Apart ==
  \A g, h \in Handlers : g # h /\ ~Free(g) /\ ~Free(h) => RowOf(g).key # RowOf(h).key

\* A step gives one handler a new job and leaves the others where they are.
LEMMA OtherHandlers ==
  ASSUME IInv, NEW h \in Handlers, NEW job, Become(h, job)
  PROVE  /\ handler'[h] = job
         /\ \A g \in Handlers : g # h => handler'[g] = handler[g]
<1>. QED
  BY DEF IInv, HandlersOK, Become

(***************************************************************************)
(* The chains of the chronicle and of each edition's certificates, when no *)
(* read fails. A handler that is about to append an entry still holds the  *)
(* position of the last one.                                               *)
(***************************************************************************)

\* A row is linked to the one of its key that stood before it, and so is the row
\* appended by a writer that knows the latest.
LEMMA PreviousAppend ==
  ASSUME NEW R, NEW ledger \in Seq(R), NEW row \in R
  PROVE  /\ DOMAIN ledger = 1 .. Len(ledger) /\ Len(ledger) \in Nat
         /\ DOMAIN Append(ledger, row) = 1 .. (Len(ledger) + 1)
         /\ Append(ledger, row)[Len(ledger) + 1] = row
         /\ Previous(Append(ledger, row), Len(ledger) + 1) = LatestIndex(ledger, row.key)
         /\ \A i \in 1 .. Len(ledger) :
              /\ Append(ledger, row)[i] = ledger[i]
              /\ Previous(Append(ledger, row), i) = Previous(ledger, i)
              /\ Previous(ledger, i) \in 0 .. Len(ledger)
<1> DEFINE new == Append(ledger, row)
<1>1. /\ Len(ledger) \in Nat /\ DOMAIN ledger = 1 .. Len(ledger)
      /\ DOMAIN new = 1 .. (Len(ledger) + 1)
      /\ new[Len(ledger) + 1] = row
      /\ \A i \in 1 .. Len(ledger) : new[i] = ledger[i]
  BY AppendProperties, LenProperties
<1>2. /\ \A i \in 1 .. Len(ledger) : SubSeq(new, 1, i - 1) = SubSeq(ledger, 1, i - 1)
      /\ SubSeq(new, 1, Len(ledger)) = ledger
  BY PrefixAppend
<1>3. (Len(ledger) + 1) - 1 = Len(ledger)
  BY <1>1
<1>4. ASSUME NEW i \in 1 .. Len(ledger) PROVE Previous(ledger, i) \in 0 .. Len(ledger)
  <2> DEFINE before == SubSeq(ledger, 1, i - 1)
  <2>1. before \in Seq(R) /\ Len(before) \in Nat /\ Len(before) <= Len(ledger)
    BY <1>1
  <2> HIDE DEF before
  <2>2. LatestIndex(before, ledger[i].key) \in 0 .. Len(before)
    BY <2>1, LatestIndexProperties
  <2>. QED
    BY <1>1, <2>1, <2>2 DEF Previous, before
<1> HIDE DEF new
<1>5. /\ Previous(new, Len(ledger) + 1) = LatestIndex(ledger, row.key)
      /\ \A i \in 1 .. Len(ledger) : Previous(new, i) = Previous(ledger, i)
  BY <1>1, <1>2, <1>3 DEF Previous
<1>. QED
  BY <1>1, <1>4, <1>5 DEF new

\* Later certificates of an edition have higher versions.
VersionsGrow(certs) ==
  \A i, j \in 1 .. Len(certs) :
    certs[i].key = certs[j].key /\ i < j => certs[i].version < certs[j].version

\* Then the certificate with the highest version is the last one of its edition.
LEMMA LatestCertificateIsLast ==
  ASSUME NEW certs \in Seq(CertificateRows), NEW b, VersionsGrow(certs)
  PROVE  LatestCertificate(certs, b) = LatestIndex(certs, b)
<1> DEFINE I == {i \in DOMAIN certs : certs[i].key = b}
           Best(i) == \A j \in I : \/ certs[j].version < certs[i].version
                                   \/ certs[j].version = certs[i].version /\ i <= j
           m == LatestIndex(certs, b)
<1>1. Len(certs) \in Nat /\ DOMAIN certs = 1 .. Len(certs)
  BY LenProperties
<1>2. /\ m \in 0 .. Len(certs)
      /\ m = 0 <=> I = {}
      /\ m # 0 => m \in I
      /\ \A j \in I : j <= m
  BY <1>1, LatestIndexProperties
<1>3. CASE I = {}
  BY <1>2, <1>3 DEF LatestCertificate
<1>4. CASE I # {}
  <2>1. \A i \in I : i \in 1 .. Len(certs) /\ certs[i].version \in Nat /\ certs[i].key = b
    <3>1. \A i \in 1 .. Len(certs) : certs[i] \in CertificateRows
      BY ElementOfSeq
    <3>2. \A i \in 1 .. Len(certs) : certs[i].version \in Nat
      BY <3>1 DEF CertificateRows
    <3>. QED
      BY <1>1, <3>2
  <2>2. m \in I /\ \A j \in I : j = m \/ (j < m /\ certs[j].version < certs[m].version)
    <3>1. m \in I
      BY <1>2, <1>4
    <3> HIDE DEF m
    <3>2. \A j \in I : j = m \/ j < m
      BY <1>1, <1>2, <2>1
    <3>. QED
      BY <2>1, <3>1, <3>2 DEF VersionsGrow
  <2> HIDE DEF m, I
  <2>3. Best(m)
    BY <1>1, <2>1, <2>2
  <2>4. ASSUME NEW i \in I, Best(i) PROVE i = m
    BY <2>1, <2>2, <2>4
  <2>5. LatestCertificate(certs, b) = CHOOSE x \in I : Best(x)
    BY <1>4 DEF LatestCertificate, I
  <2>6. LatestCertificate(certs, b) \in I /\ Best(LatestCertificate(certs, b))
    BY <2>2, <2>3, <2>5
  <2>. QED
    BY <2>4, <2>6 DEF m
<1>. QED
  BY <1>3, <1>4

LinkingPCs == {"chronicleAppend", "issue", "reissueAppend"}

\* What a handler about to append an entry knows of the ledgers.
LinkOK(j, chron, certs) ==
  /\ j.pc = "chronicleAppend" => j.seen = LatestIndex(chron, j.row.key)
  /\ j.pc = "issue" => LatestIndex(certs, Binding(j.row.key, j.n)) = 0
  /\ j.pc = "reissueAppend" =>
       j.seen # 0 /\ j.seen = LatestIndex(certs, Binding(j.row.key, j.n))

ChainInv ==
  /\ IInv
  /\ ChronicleChained
  /\ CertificatesChained
  /\ VersionsGrow(certificates)
  /\ \A h \in Handlers : LinkOK(handler[h], chronicle, certificates)

\* The step each kind of job is at.
LEMMA JobSteps ==
  /\ Idle.pc = "idle"
  /\ \A pc, row, then : Writing(pc, row, then).pc = pc
  /\ \A pc, row, buyer : Selling(pc, row, buyer).pc = pc
  /\ \A pc, row, n, seen : Issuing(pc, row, n, seen).pc = pc
  /\ \A pc, row, buyer, n, seen : Reissuing(pc, row, buyer, n, seen).pc = pc
  /\ \A h \in Handlers : \A pc : NextEdition(h, pc).pc \in {pc, "idle"}
<1>. QED
  BY DEF Idle, Writing, Selling, Issuing, Reissuing, NextEdition, Job

\* A request starts with one of these steps, and changes no ledger.
StartPCs == {"register", "ownerCheck", "append", "move", "holdCheck", "certificates"}

LEMMA StartStep ==
  ASSUME NEW h \in Handlers, NEW s \in Submissions,
         Artist(h, s) \/ Operator(h, s) \/ Visitor(h, s)
  PROVE  /\ handler[h].pc = "idle"
         /\ UNCHANGED <<submissions, ownership, certificates, chronicle, faults>>
         /\ \E job : handler' = [handler EXCEPT ![h] = job] /\ job.pc \in StartPCs
<1> DEFINE Goal == /\ handler[h].pc = "idle"
                   /\ UNCHANGED <<submissions, ownership, certificates, chronicle, faults>>
                   /\ \E job : handler' = [handler EXCEPT ![h] = job] /\ job.pc \in StartPCs
<1>1. ASSUME NEW job, job.pc \in StartPCs, MayTake(h), Take(h, job), UNCHANGED <<ledgers, faults>>
      PROVE  Goal
  BY <1>1 DEF MayTake, Free, Take, Become, ledgers
<1> HIDE DEF Goal
<1>2. ASSUME NEW pc \in {"ownerCheck", "append", "register"}, NEW row, NEW then,
             MayTake(h), Take(h, Writing(pc, row, then)), UNCHANGED <<ledgers, faults>>
      PROVE  Goal
  BY <1>1, <1>2, JobSteps DEF StartPCs
<1>3. ASSUME NEW pc \in {"move", "holdCheck"}, NEW row, NEW buyer,
             MayTake(h), Take(h, Selling(pc, row, buyer)), UNCHANGED <<ledgers, faults>>
      PROVE  Goal
  BY <1>1, <1>3, JobSteps DEF StartPCs
<1>4. ASSUME Artist(h, s) PROVE Goal
  BY <1>2, <1>4 DEF Artist, Submit, Withdraw, EditEdition, Acknowledge
<1>5. ASSUME Operator(h, s) PROVE Goal
  BY <1>2, <1>3, <1>5 DEF Operator, Review, Repair, Settle
<1>6. ASSUME NEW buyer \in Buyers, DemoPurchase(h, s, buyer) PROVE Goal
  BY <1>3, <1>6 DEF DemoPurchase
<1>7. ASSUME Backfill(h, s) PROVE Goal
  <2> DEFINE job == Issuing("certificates", Latest(submissions, s), 1, 0)
  <2>1. job.pc \in StartPCs
    BY JobSteps DEF StartPCs
  <2>2. Free(h) /\ Become(h, job) /\ UNCHANGED <<ledgers, faults>>
    BY <1>7 DEF Backfill
  <2> HIDE DEF job
  <2>. QED
    BY <2>1, <2>2 DEF Goal, Free, Become, ledgers
<1>. QED
  BY <1>4, <1>5, <1>6, <1>7 DEF Visitor, Goal

LEMMA ChainQuiet ==
  ASSUME ChainInv, IInv', UNCHANGED <<chronicle, certificates>>,
         NEW h \in Handlers, NEW job, handler' = [handler EXCEPT ![h] = job],
         LinkOK(job, chronicle, certificates)
  PROVE  ChainInv'
<1>1. \A g \in Handlers : LinkOK(handler'[g], chronicle, certificates)
  BY OtherHandlers DEF ChainInv, Become
<1>. QED
  BY <1>1 DEF ChainInv, ChronicleChained, CertificatesChained, Previous, VersionsGrow

\* An entry of one submission leaves the last entries of the others the last.
LEMMA LinksElsewhere ==
  ASSUME Apart, ChainInv, NEW h \in Handlers, ~Free(h), NEW g \in Handlers, g # h
  PROVE  /\ \A row \in ChronicleRows : row.key = RowOf(h).key =>
              LinkOK(handler[g], Append(chronicle, row), certificates)
         /\ \A cert \in CertificateRows, n \in Nat : cert.key = Binding(RowOf(h).key, n) =>
              LinkOK(handler[g], chronicle, Append(certificates, cert))
<1>1. /\ chronicle \in Seq(ChronicleRows) /\ certificates \in Seq(CertificateRows)
      /\ LinkOK(handler[g], chronicle, certificates)
      /\ handler[g].pc \in LinkingPCs => RowOf(g).key # RowOf(h).key
  BY DEF Apart, Free, ChainInv, IInv, LedgerTypes, LinkingPCs
<1>2. \A row \in ChronicleRows : \A k : row.key # k =>
        LatestIndex(Append(chronicle, row), k) = LatestIndex(chronicle, k)
  BY <1>1, LatestIndexAppend
<1>3. \A cert \in CertificateRows : \A k : cert.key # k =>
        LatestIndex(Append(certificates, cert), k) = LatestIndex(certificates, k)
  BY <1>1, LatestIndexAppend
<1>4. \A m, n : RowOf(g).key # RowOf(h).key =>
        Binding(RowOf(g).key, m) # Binding(RowOf(h).key, n)
  BY DEF Binding
<1>. QED
  BY <1>1, <1>2, <1>3, <1>4 DEF LinkOK, LinkingPCs, RowOf

LEMMA ChronicleLinked ==
  ASSUME ChainInv, NEW row \in ChronicleRows, chronicle' = Append(chronicle, row),
         row.prev = LatestIndex(chronicle, row.key)
  PROVE  ChronicleChained'
<1>1. chronicle \in Seq(ChronicleRows) /\ ChronicleChained
  BY DEF ChainInv, IInv, LedgerTypes
<1> SUFFICES ASSUME NEW i \in 1 .. (Len(chronicle) + 1)
             PROVE  chronicle'[i].prev = Previous(chronicle', i)
  BY <1>1, PreviousAppend DEF ChronicleChained
<1>2. CASE i = Len(chronicle) + 1
  BY <1>1, <1>2, PreviousAppend
<1>3. CASE i # Len(chronicle) + 1
  <2>1. i \in 1 .. Len(chronicle)
    BY <1>1, <1>3, LenProperties
  <2>. QED
    BY <1>1, <2>1, PreviousAppend DEF ChronicleChained
<1>. QED
  BY <1>2, <1>3

LEMMA CertificateLinked ==
  ASSUME ChainInv, NEW cert \in CertificateRows, certificates' = Append(certificates, cert),
         cert.prior = LatestIndex(certificates, cert.key),
         cert.version = IF cert.prior = 0 THEN 1 ELSE certificates[cert.prior].version + 1
  PROVE  CertificatesChained' /\ VersionsGrow(certificates')
<1> DEFINE n == Len(certificates)
           p == LatestIndex(certificates, cert.key)
<1>1. certificates \in Seq(CertificateRows) /\ CertificatesChained /\ VersionsGrow(certificates)
  BY DEF ChainInv, IInv, LedgerTypes
<1>2. /\ n \in Nat /\ DOMAIN certificates = 1 .. n /\ DOMAIN certificates' = 1 .. (n + 1)
      /\ Len(certificates') = n + 1
      /\ certificates'[n + 1] = cert
      /\ Previous(certificates', n + 1) = p
      /\ \A i \in 1 .. n : /\ certificates'[i] = certificates[i]
                           /\ Previous(certificates', i) = Previous(certificates, i)
                           /\ Previous(certificates, i) \in 0 .. n
  BY <1>1, PreviousAppend, AppendProperties
<1>3. /\ p \in 0 .. n
      /\ p # 0 => certificates[p].key = cert.key
      /\ \A i \in 1 .. n : certificates[i].key = cert.key => i <= p
  BY <1>1, LatestIndexProperties
<1>4. \A i \in 1 .. n : certificates[i] \in CertificateRows
  BY <1>1, ElementOfSeq
<1>5. \A i \in 1 .. n : certificates[i].version \in Nat
  BY <1>4 DEF CertificateRows
<1>n. n \in Nat /\ \A i \in 1 .. (n + 1) : i \in 1 .. n \/ i = n + 1
  BY <1>1, LenProperties
<1> HIDE DEF n, p
<1>6. CertificatesChained'
  <2> SUFFICES ASSUME NEW i \in 1 .. (n + 1), NEW q, q = Previous(certificates', i)
               PROVE  /\ certificates'[i].prior = q
                      /\ certificates'[i].version =
                           IF q = 0 THEN 1 ELSE certificates'[q].version + 1
    BY <1>2 DEF CertificatesChained
  <2>1. CASE i = n + 1
    BY <1>2, <1>3, <2>1 DEF p
  <2>2. CASE i \in 1 .. n
    BY <1>1, <1>2, <2>2 DEF CertificatesChained
  <2>. QED
    BY <1>n, <2>1, <2>2
<1>7. VersionsGrow(certificates')
  <2> SUFFICES ASSUME NEW i \in 1 .. (n + 1), NEW j \in 1 .. (n + 1), i < j,
                      certificates'[i].key = certificates'[j].key
               PROVE  certificates'[i].version < certificates'[j].version
    BY <1>2 DEF VersionsGrow
  <2>1. i \in 1 .. n
    BY <1>2
  <2>2. CASE j \in 1 .. n
    BY <1>1, <1>2, <2>1, <2>2 DEF VersionsGrow, n
  <2>3. CASE j = n + 1
    <3>1. certificates[i].key = cert.key /\ i <= p /\ p \in 1 .. n
      BY <1>2, <1>3, <2>1, <2>3
    <3>2. certificates[i].version <= certificates[p].version
      <4>1. CASE i = p
        BY <1>5, <3>1, <4>1
      <4>2. CASE i < p
        BY <1>1, <1>3, <1>5, <2>1, <3>1, <4>2 DEF VersionsGrow, n
      <4>. QED
        BY <2>1, <3>1, <4>1, <4>2
    <3>3. cert.version = certificates[p].version + 1
      BY <3>1 DEF p
    <3>. QED
      BY <1>2, <1>5, <2>1, <2>3, <3>1, <3>2, <3>3
  <2>. QED
    BY <1>n, <2>2, <2>3
<1>. QED
  BY <1>6, <1>7

\* A read that fails would look like an empty ledger.
LEMMA ReadableReads ==
  ASSUME ReadsFail = FALSE, NEW readable \in BOOLEAN, ReadOutcome(readable)
  PROVE  /\ \A ledger : ReadRows(ledger, readable) = ledger
         /\ faults' = faults
<1>. QED
  BY DEF ReadOutcome, ReadRows

LEMMA InitChain == Init => ChainInv
<1> SUFFICES ASSUME Init PROVE ChainInv
  OBVIOUS
<1>1. /\ DOMAIN chronicle = {} /\ DOMAIN certificates = {} /\ Len(certificates) = 0
      /\ \A h \in Handlers : handler[h] = Idle
  BY DEF Init
<1>2. ChronicleChained /\ CertificatesChained
  BY <1>1 DEF ChronicleChained, CertificatesChained
<1>3. VersionsGrow(certificates)
  BY <1>1 DEF VersionsGrow
<1>. QED
  BY <1>1, <1>2, <1>3, InitIInv, JobSteps DEF ChainInv, LinkOK

LEMMA ReadChain ==
  ASSUME ReadsFail = FALSE, ChainInv, IInv', NEW h \in Handlers, ReadStep(h)
  PROVE  ChainInv'
<1>0. /\ UNCHANGED <<chronicle, certificates>>
      /\ VersionsGrow(certificates) /\ certificates \in Seq(CertificateRows)
  BY Zenon DEF ReadStep, OwnerCheck, ReadChronicle, ReadCertificate, HoldCheck, Reread,
               ReadForReissue, ledgers, ChainInv, IInv, LedgerTypes
<1>1. ASSUME NEW job, Become(h, job), LinkOK(job, chronicle, certificates)
      PROVE  ChainInv'
  BY <1>0, <1>1, ChainQuiet DEF Become
<1>2. ASSUME NEW job, Become(h, job), job.pc \notin LinkingPCs
      PROVE  ChainInv'
  BY <1>1, <1>2 DEF LinkOK, LinkingPCs
<1>. SUFFICES ASSUME NEW readable \in BOOLEAN,
                     \/ OwnerCheck(h, readable)   \/ ReadChronicle(h, readable)
                     \/ ReadCertificate(h, readable) \/ HoldCheck(h, readable)
                     \/ Reread(h, readable)       \/ ReadForReissue(h, readable)
              PROVE  ChainInv'
  BY Zenon DEF ReadStep
<1>3. CASE OwnerCheck(h, readable) \/ HoldCheck(h, readable) \/ Reread(h, readable)
  <2>1. \E job : Become(h, job) /\ job.pc \in {"idle", "append", "move", "reissue"}
    BY <1>3, JobSteps DEF OwnerCheck, HoldCheck, Reread
  <2>. QED
    BY <1>2, <2>1 DEF LinkingPCs
<1>4. CASE ReadChronicle(h, readable)
  <2> DEFINE job == Issuing("chronicleAppend", RowOf(h), 0, LatestIndex(chronicle, RowOf(h).key))
  <2>1. Become(h, job)
    BY <1>4, ReadableReads DEF ReadChronicle
  <2>2. LinkOK(job, chronicle, certificates)
    BY DEF LinkOK, Issuing, Job
  <2> HIDE DEF job
  <2>. QED
    BY <1>1, <2>1, <2>2
<1>5. CASE ReadCertificate(h, readable)
  <2> DEFINE b == Binding(RowOf(h).key, handler[h].n)
             job == Issuing("issue", RowOf(h), handler[h].n, 0)
  <2>1. IF LatestCertificate(certificates, b) # 0
        THEN Become(h, NextEdition(h, "certificates")) ELSE Become(h, job)
    BY <1>5, ReadableReads DEF ReadCertificate
  <2>2. LatestIndex(certificates, b) = 0 => LinkOK(job, chronicle, certificates)
    BY DEF LinkOK, Issuing, Job
  <2>3. LatestCertificate(certificates, b) = LatestIndex(certificates, b)
    BY <1>0, LatestCertificateIsLast
  <2>4. NextEdition(h, "certificates").pc \notin LinkingPCs
    BY JobSteps DEF LinkingPCs
  <2> HIDE DEF job, b
  <2>. QED
    BY <1>1, <1>2, <2>1, <2>2, <2>3, <2>4
<1>6. CASE ReadForReissue(h, readable)
  <2> DEFINE b == Binding(RowOf(h).key, handler[h].n)
             last == LatestCertificate(certificates, b)
             job == Reissuing("reissueAppend", RowOf(h), handler[h].buyer, handler[h].n, last)
  <2>1. IF last # 0 /\ certificates[last].holder # handler[h].buyer
        THEN Become(h, job) ELSE Become(h, NextEdition(h, "reissue"))
    BY <1>6, ReadableReads DEF ReadForReissue
  <2>2. last = LatestIndex(certificates, b)
    BY <1>0, LatestCertificateIsLast
  <2>3. last # 0 => LinkOK(job, chronicle, certificates)
    BY <2>2 DEF LinkOK, Reissuing, Job
  <2>4. NextEdition(h, "reissue").pc \notin LinkingPCs
    BY JobSteps DEF LinkingPCs
  <2> HIDE DEF job, last, b
  <2>. QED
    BY <1>1, <1>2, <2>1, <2>3, <2>4
<1>. QED
  BY <1>3, <1>4, <1>5, <1>6

LEMMA WriteChain ==
  ASSUME Apart, ChainInv, IInv', NEW h \in Handlers, WriteStep(h)
  PROVE  ChainInv'
<1>0. IInv /\ ~Free(h)
  BY DEF ChainInv, WriteStep, AppendSubmission, RegisterOwner, AppendChronicle, Issue, MoveMaster,
         RecordMove, RecordOwner, AppendReissue, At, Free
<1>1. ASSUME NEW job, Become(h, job), job.pc \notin LinkingPCs,
             \A g \in Handlers : g # h => LinkOK(handler[g], chronicle', certificates')
      PROVE  \A g \in Handlers : LinkOK(handler'[g], chronicle', certificates')
  <2>1. LinkOK(job, chronicle', certificates')
    BY <1>1 DEF LinkOK, LinkingPCs
  <2>. QED
    BY <1>0, <1>1, <2>1, OtherHandlers
<1>2. CASE AppendSubmission(h) \/ RegisterOwner(h) \/ MoveMaster(h) \/ RecordMove(h) \/ RecordOwner(h)
  <2>1. UNCHANGED <<chronicle, certificates>>
    BY <1>2, Zenon DEF AppendSubmission, RegisterOwner, MoveMaster, RecordMove, RecordOwner, ledgers
  <2>2. \E job : Become(h, job) /\ job.pc \notin LinkingPCs
    <3>1. CASE AppendSubmission(h)
      <4>1. handler[h].then \in {"idle", "registerOwner", "chronicle", "certificates"}
        BY <1>0, <3>1 DEF AppendSubmission, IInv, HandlersOK, JobOK
      <4>2. Continue(h, handler[h].then).pc \notin LinkingPCs
        BY <4>1, JobSteps DEF Continue, LinkingPCs
      <4>. QED
        BY <3>1, <4>2 DEF AppendSubmission
    <3>2. CASE RegisterOwner(h) \/ MoveMaster(h) \/ RecordMove(h) \/ RecordOwner(h)
      BY <3>2, JobSteps DEF RegisterOwner, MoveMaster, RecordMove, RecordOwner, LinkingPCs
    <3>. QED
      BY <1>2, <3>1, <3>2
  <2>. QED
    BY <2>1, <2>2, ChainQuiet DEF Become, LinkOK, LinkingPCs
<1>3. CASE AppendChronicle(h)
  <2> DEFINE row == ChronicleRow(RowOf(h).key, handler[h].seen)
             job == Issuing("certificates", RowOf(h), 1, 0)
  <2>1. /\ handler[h].pc = "chronicleAppend" /\ chronicle' = Append(chronicle, row)
        /\ Become(h, job) /\ certificates' = certificates
    BY <1>3 DEF AppendChronicle, At
  <2>2. /\ RowOf(h).key \in Submissions /\ handler[h].seen \in Nat
        /\ handler[h].seen = LatestIndex(chronicle, RowOf(h).key)
    BY <1>0, <2>1, JobFacts DEF ChainInv, LinkOK, RowOf, IInv, HandlersOK, Jobs
  <2>3. /\ row \in ChronicleRows /\ row.prev = LatestIndex(chronicle, row.key)
        /\ row.key = RowOf(h).key
    BY <2>2 DEF ChronicleRow, ChronicleRows
  <2>4. job.pc \notin LinkingPCs
    BY JobSteps DEF LinkingPCs
  <2> HIDE DEF row, job
  <2>5. ChronicleChained'
    BY <2>1, <2>3, ChronicleLinked
  <2>6. \A g \in Handlers : g # h => LinkOK(handler[g], chronicle', certificates')
    BY <1>0, <2>1, <2>3, LinksElsewhere
  <2>. QED
    BY <1>1, <2>1, <2>4, <2>5, <2>6 DEF ChainInv, CertificatesChained, Previous, VersionsGrow
<1>4. ASSUME NEW cert \in CertificateRows, NEW job, Become(h, job), job.pc \notin LinkingPCs,
             NEW n \in Nat, cert.key = Binding(RowOf(h).key, n),
             certificates' = Append(certificates, cert), chronicle' = chronicle,
             cert.prior = LatestIndex(certificates, cert.key),
             cert.version = IF cert.prior = 0 THEN 1 ELSE certificates[cert.prior].version + 1
      PROVE  ChainInv'
  <2>1. CertificatesChained' /\ VersionsGrow(certificates')
    BY <1>4, CertificateLinked
  <2>2. \A g \in Handlers : g # h => LinkOK(handler[g], chronicle', certificates')
    BY <1>0, <1>4, LinksElsewhere
  <2>. QED
    BY <1>1, <1>4, <2>1, <2>2 DEF ChainInv, ChronicleChained, Previous
<1>5. ASSUME handler[h].pc \in {"issue", "reissueAppend"}
      PROVE  /\ handler[h].n \in Mints /\ RowOf(h).key \in Submissions
             /\ ArtistHolds(RowOf(h).key) \in Holders
  <2>1. RowOf(h) \in SubmissionRows /\ handler[h].n \in 1 .. RowOf(h).mint
    BY <1>0, <1>5 DEF RowOf, IInv, HandlersOK, JobOK
  <2>2. RowOf(h).key \in Submissions /\ RowOf(h).mint \in Mints
    BY <2>1 DEF SubmissionRows
  <2>. QED
    BY <2>1, <2>2, ArtistIsHolder, RegistryAssumption DEF Mints
<1>6. CASE Issue(h)
  <2> DEFINE s == RowOf(h).key
             cert == CertificateRow(s, handler[h].n, 1, ArtistHolds(s), 0)
             job == NextEdition(h, "certificates")
  <2>1. /\ handler[h].pc = "issue" /\ certificates' = Append(certificates, cert)
        /\ Become(h, job) /\ chronicle' = chronicle
    BY <1>6 DEF Issue, At
  <2>2. LatestIndex(certificates, Binding(s, handler[h].n)) = 0
    BY <2>1 DEF ChainInv, LinkOK, RowOf
  <2>3. cert \in CertificateRows
    BY <1>5, <2>1 DEF CertificateRow, CertificateRows, Binding
  <2>4. /\ cert.prior = 0 /\ cert.version = 1 /\ LatestIndex(certificates, cert.key) = 0
        /\ cert.key = Binding(RowOf(h).key, handler[h].n) /\ handler[h].n \in Nat
    BY <1>5, <2>1, <2>2 DEF CertificateRow, Mints
  <2>5. job.pc \notin LinkingPCs
    BY JobSteps DEF LinkingPCs
  <2> HIDE DEF cert, job
  <2>. QED
    BY <1>4, <2>1, <2>3, <2>4, <2>5
<1>7. CASE AppendReissue(h)
  <2> DEFINE j == handler[h]
             cert == CertificateRow(j.row.key, j.n, certificates[j.seen].version + 1, j.buyer, j.seen)
             job == NextEdition(h, "reissue")
  <2>1. /\ j.pc = "reissueAppend" /\ certificates' = Append(certificates, cert)
        /\ Become(h, job) /\ chronicle' = chronicle
    BY <1>7 DEF AppendReissue, At
  <2>2. j.seen # 0 /\ j.seen = LatestIndex(certificates, Binding(j.row.key, j.n))
    BY <2>1 DEF ChainInv, LinkOK
  <2>3. /\ j.seen \in 1 .. Len(certificates) /\ j.seen \in Nat /\ j.buyer \in Holders
    BY <1>0, <2>1 DEF IInv, HandlersOK, JobOK, Jobs, SalePCs
  <2>4. certificates[j.seen] \in CertificateRows
    BY <1>0, <2>3, ElementOfSeq DEF IInv, LedgerTypes
  <2>5. certificates[j.seen].version + 1 \in Nat
    BY <2>4 DEF CertificateRows
  <2>6. cert \in CertificateRows
    BY <1>5, <2>1, <2>3, <2>5 DEF CertificateRow, CertificateRows, Binding, RowOf
  <2>7. /\ cert.prior = j.seen /\ cert.version = certificates[j.seen].version + 1
        /\ cert.key = Binding(j.row.key, j.n)
        /\ cert.key = Binding(RowOf(h).key, j.n) /\ j.n \in Nat
    BY <1>5, <2>1 DEF CertificateRow, RowOf, Mints
  <2>8. job.pc \notin LinkingPCs
    BY JobSteps DEF LinkingPCs
  <2> HIDE DEF cert, job
  <2>. QED
    BY <1>4, <2>1, <2>2, <2>6, <2>7, <2>8
<1>. QED
  BY <1>2, <1>3, <1>4, <1>6, <1>7 DEF WriteStep

LEMMA NextChain ==
  ASSUME ReadsFail = FALSE, Apart, ChainInv, [Next]_vars
  PROVE  ChainInv'
<1>0. IInv /\ IInv'
  BY NextIInv DEF ChainInv
<1>1. ASSUME NEW h \in Handlers, NEW job, handler' = [handler EXCEPT ![h] = job],
             job.pc \notin LinkingPCs, UNCHANGED <<chronicle, certificates>>
      PROVE  ChainInv'
  BY <1>0, <1>1, ChainQuiet DEF LinkOK, LinkingPCs
<1>2. ASSUME NEW h \in Handlers, NEW s \in Submissions,
             Artist(h, s) \/ Operator(h, s) \/ Visitor(h, s)
      PROVE  ChainInv'
  BY <1>1, <1>2, StartStep DEF StartPCs, LinkingPCs
<1>3. ASSUME NEW h \in Handlers, StepFails(h) PROVE ChainInv'
  <2>1. \E job : Become(h, job) /\ job.pc \in {"idle", "certificates"}
    BY <1>3, JobSteps DEF StepFails
  <2>2. UNCHANGED <<chronicle, certificates>>
    BY <1>3 DEF StepFails, ledgers
  <2>. QED
    BY <1>1, <2>1, <2>2 DEF Become, LinkingPCs
<1>4. CASE Crash
  <2>1. \A g \in Handlers : LinkOK(handler'[g], chronicle', certificates')
    BY <1>4, JobSteps DEF Crash, LinkOK
  <2>2. UNCHANGED <<chronicle, certificates>>
    BY <1>4 DEF Crash, ledgers
  <2>. QED
    BY <1>0, <2>1, <2>2
       DEF ChainInv, ChronicleChained, CertificatesChained, Previous, VersionsGrow
<1>5. CASE UNCHANGED vars
  BY <1>0, <1>5
     DEF vars, ledgers, ChainInv, ChronicleChained, CertificatesChained, Previous, VersionsGrow
<1>. QED
  BY <1>2, <1>3, <1>4, <1>5, ReadChain, WriteChain, <1>0 DEF Next

THEOREM ChainInvHolds ==
  ASSUME ReadsFail = FALSE
  PROVE  Spec /\ []Apart => []ChainInv
<1>1. Apart /\ ChainInv /\ [Next]_vars => ChainInv'
  BY NextChain
<1>. QED
  BY <1>1, InitChain, PTL DEF Spec

\* When reads do not fail and no two requests for one submission overlap, the
\* entries runOperatorSubmissionReview appends at its approvals form one chain for
\* each submission, crashes and failed writes included.
THEOREM ChronicleChainedHolds ==
  ASSUME ReadsFail = FALSE
  PROVE  Spec /\ []Apart => []ChronicleChained
<1>1. ChainInv => ChronicleChained
  BY DEF ChainInv
<1>. QED
  BY <1>1, ChainInvHolds, PTL

\* Under the same hypotheses the certificates of an edition are numbered one after
\* the other and each links to the one it replaces: the backfill issues none
\* twice, and reissueEditionCertificatesOnCustodyTransfer replaces only the last.
THEOREM CertificatesChainedHolds ==
  ASSUME ReadsFail = FALSE
  PROVE  Spec /\ []Apart => []CertificatesChained
<1>1. ChainInv => CertificatesChained
  BY DEF ChainInv
<1>. QED
  BY <1>1, ChainInvHolds, PTL

-----------------------------------------------------------------------------
(***************************************************************************)
(* The file of a work lies with its owner. While a registration or a sale  *)
(* is half way, its handler still knows what it has to write; a work that  *)
(* no handler is changing is settled.                                      *)
(***************************************************************************)
Halfway == {"register", "recordMove", "recordOwner"}

Moving(j, s) == j.pc \in Halfway /\ j.row.key = s

Settled(subs, own, places, s) ==
  IF Has(subs, s)
  THEN /\ places[s] = Latest(subs, s).file
       /\ \/ places[s] = Owner(own, s)
          \/ places[s] = Studio(s) /\ Owner(own, s) = ArtistHolds(s)
  ELSE places[s] = None /\ Owner(own, s) = ArtistHolds(s)

\* What the row in hand says of the place of the file.
PlaceInHand(j, subs, own, places) ==
  LET s == j.row.key IN
  /\ j.pc = "register" =>
       /\ ~Has(subs, s) /\ Owner(own, s) = ArtistHolds(s)
       /\ places[s] = Studio(s) /\ j.row.file = Studio(s)
  /\ j.pc = "registerOwner" => Has(subs, s) /\ Latest(subs, s).file = Studio(s)
  /\ j.pc \in {"ownerCheck", "append", "holdCheck", "move"} =>
       /\ Has(subs, s) /\ j.row.file = Latest(subs, s).file
       /\ j.then # "registerOwner"
  /\ j.pc = "recordMove" => Has(subs, s) /\ places[s] = j.row.file
  /\ j.pc = "recordOwner" =>
       Has(subs, s) /\ Latest(subs, s).file = j.buyer /\ places[s] = j.buyer

PlacesKept(subs, own, places, jobs) ==
  /\ \A s \in Submissions :
       Settled(subs, own, places, s) \/ \E h \in Handlers : Moving(jobs[h], s)
  /\ \A h \in Handlers : PlaceInHand(jobs[h], subs, own, places)

OwnInv == IInv /\ (faults = 0 => PlacesKept(submissions, ownership, master, handler))

\* getCurrentOwner after an event is appended.
LEMMA OwnerAppend ==
  ASSUME NEW own \in Seq(OwnershipRows), NEW row \in OwnershipRows, NEW s
  PROVE  Owner(Append(own, row), s) = IF row.key = s THEN row.holder ELSE Owner(own, s)
<1>. QED
  BY LatestAppend DEF Owner

\* What two states agree on when no step between them was about s.
SameWork(s, subs, own, places, subs2, own2, places2) ==
  /\ Has(subs2, s) <=> Has(subs, s)
  /\ Has(subs, s) => Latest(subs2, s) = Latest(subs, s)
  /\ Owner(own2, s) = Owner(own, s)
  /\ CollectorEver(own2, s) <=> CollectorEver(own, s)
  /\ places2[s] = places[s]

Untouched(s) == SameWork(s, submissions, ownership, master, submissions', ownership', master')

LEMMA EventSold ==
  ASSUME NEW own \in Seq(OwnershipRows), NEW event \in OwnershipRows, NEW s
  PROVE  /\ CollectorEver(own, s) \in BOOLEAN
         /\ CollectorEver(Append(own, event), s)
              = (CollectorEver(own, s) \/ (event.key = s /\ event.holder.type = "collector"))
<1>1. /\ DOMAIN own = 1 .. Len(own) /\ Len(own) \in Nat
      /\ DOMAIN Append(own, event) = 1 .. (Len(own) + 1)
      /\ Append(own, event)[Len(own) + 1] = event
      /\ \A i \in 1 .. Len(own) : Append(own, event)[i] = own[i]
  BY AppendProperties, LenProperties
<1>2. \A i \in 1 .. (Len(own) + 1) : i \in 1 .. Len(own) \/ i = Len(own) + 1
  BY <1>1
<1>3. CollectorEver(own, s) \in BOOLEAN /\ CollectorEver(Append(own, event), s) \in BOOLEAN
  BY Zenon DEF CollectorEver
<1>4. CollectorEver(own, s) <=> \E i \in 1 .. Len(own) :
        own[i].key = s /\ own[i].holder.type = "collector"
  BY <1>1 DEF CollectorEver
<1>5. CollectorEver(Append(own, event), s) <=> \E i \in 1 .. (Len(own) + 1) :
        Append(own, event)[i].key = s /\ Append(own, event)[i].holder.type = "collector"
  BY <1>1 DEF CollectorEver
<1>6. CollectorEver(Append(own, event), s)
        <=> (CollectorEver(own, s) \/ (event.key = s /\ event.holder.type = "collector"))
  <2>1. Len(own) + 1 \in 1 .. (Len(own) + 1) /\ \A i \in 1 .. Len(own) : i \in 1 .. (Len(own) + 1)
    BY <1>1
  <2>. QED
    BY <1>1, <1>2, <1>4, <1>5, <2>1
<1>. QED
  BY <1>3, <1>6

\* A handler writes only about the submission in hand.
LEMMA WritesOwnWork ==
  ASSUME IInv, NEW h \in Handlers, WriteStep(h)
  PROVE  /\ ~Free(h) /\ RowOf(h) \in SubmissionRows /\ RowOf(h).key \in Submissions
         /\ \A t \in Submissions : t # RowOf(h).key => Untouched(t)
<1> DEFINE s == RowOf(h).key
<1>0. /\ submissions \in Seq(SubmissionRows) /\ ownership \in Seq(OwnershipRows)
      /\ master \in [Submissions -> Places \cup {None}]
  BY DEF IInv, LedgerTypes
<1>1. handler[h].pc # "idle"
  BY DEF WriteStep, AppendSubmission, RegisterOwner, AppendChronicle, Issue, MoveMaster,
         RecordMove, RecordOwner, AppendReissue, At
<1>2. RowOf(h) \in SubmissionRows /\ s \in Submissions
  BY <1>1, JobFacts
<1>3. \/ submissions' = submissions
      \/ submissions' = Append(submissions, RowOf(h))
  BY DEF WriteStep, AppendSubmission, RegisterOwner, AppendChronicle, Issue, MoveMaster,
         RecordMove, RecordOwner, AppendReissue, ledgers
<1>4. \/ ownership' = ownership
      \/ \E event \in OwnershipRows : event.key = s /\ ownership' = Append(ownership, event)
  <2>1. CASE RegisterOwner(h)
    <3>1. OwnershipRow(s, ArtistHolds(s)) \in OwnershipRows /\ OwnershipRow(s, ArtistHolds(s)).key = s
      BY <1>2, ArtistIsHolder DEF OwnershipRow, OwnershipRows
    <3>. QED
      BY <2>1, <3>1 DEF RegisterOwner
  <2>2. CASE RecordOwner(h)
    <3>1. handler[h].buyer \in Holders
      BY <2>2 DEF RecordOwner, At, IInv, HandlersOK, JobOK, SalePCs
    <3>2. /\ OwnershipRow(s, handler[h].buyer) \in OwnershipRows
          /\ OwnershipRow(s, handler[h].buyer).key = s
      BY <1>2, <3>1 DEF OwnershipRow, OwnershipRows
    <3>. QED
      BY <2>2, <3>2 DEF RecordOwner
  <2>3. CASE ~RegisterOwner(h) /\ ~RecordOwner(h)
    BY <2>3 DEF WriteStep, AppendSubmission, AppendChronicle, Issue, MoveMaster, RecordMove,
                AppendReissue, ledgers
  <2>. QED
    BY <2>1, <2>2, <2>3
<1>5. master' = master \/ \E place : master' = [master EXCEPT ![s] = place]
  BY DEF WriteStep, AppendSubmission, RegisterOwner, AppendChronicle, Issue, MoveMaster,
         RecordMove, RecordOwner, AppendReissue
<1>6. ASSUME NEW t \in Submissions, t # s PROVE Untouched(t)
  <2>1. /\ Has(submissions', t) <=> Has(submissions, t)
        /\ Has(submissions, t) => Latest(submissions', t) = Latest(submissions, t)
    <3>1. /\ Has(Append(submissions, RowOf(h)), t) <=> RowOf(h).key = t \/ Has(submissions, t)
          /\ RowOf(h).key # t /\ Has(submissions, t) =>
               Latest(Append(submissions, RowOf(h)), t) = Latest(submissions, t)
      BY <1>0, <1>2, LatestAppend
    <3>2. CASE submissions' = Append(submissions, RowOf(h))
      BY <1>6, <3>1, <3>2
    <3>. QED
      BY <1>3, <3>2
  <2>2. ASSUME NEW event \in OwnershipRows, event.key = s, ownership' = Append(ownership, event)
        PROVE  /\ Owner(ownership', t) = Owner(ownership, t)
               /\ CollectorEver(ownership', t) <=> CollectorEver(ownership, t)
    <3>1. /\ Owner(Append(ownership, event), t)
               = IF event.key = t THEN event.holder ELSE Owner(ownership, t)
          /\ CollectorEver(Append(ownership, event), t)
               = (CollectorEver(ownership, t) \/ (event.key = t /\ event.holder.type = "collector"))
          /\ CollectorEver(ownership, t) \in BOOLEAN
      BY <1>0, OwnerAppend, EventSold
    <3>. QED
      BY <1>6, <2>2, <3>1
  <2>3. /\ Owner(ownership', t) = Owner(ownership, t)
        /\ CollectorEver(ownership', t) <=> CollectorEver(ownership, t)
    BY <1>4, <2>2
  <2>4. master'[t] = master[t]
    BY <1>0, <1>5, <1>6
  <2>. QED
    BY <2>1, <2>3, <2>4 DEF Untouched, SameWork
<1>. QED
  BY <1>1, <1>2, <1>6 DEF Free

\* No other handler has the submission in hand that a busy handler has.
LEMMA OthersElsewhere ==
  ASSUME IInv, Apart, NEW h \in Handlers, ~Free(h), NEW g \in Handlers, g # h, ~Free(g)
  PROVE  RowOf(g).key \in Submissions /\ RowOf(g).key # RowOf(h).key
<1>. QED
  BY JobFacts DEF Apart, Free

\* A step about one work, which no other handler has in hand.
LEMMA OwnStep ==
  ASSUME OwnInv, IInv', NEW h \in Handlers, NEW job, Become(h, job), NEW s \in Submissions,
         \A g \in Handlers : g # h /\ ~Free(g) => RowOf(g).key # s,
         \A t \in Submissions : t # s => Untouched(t),
         ~Free(h) => RowOf(h).key = s,
         faults' = 0 =>
           /\ faults = 0
           /\ PlaceInHand(job, submissions', ownership', master')
           /\ Settled(submissions', ownership', master', s) \/ Moving(job, s)
  PROVE  OwnInv'
<1> SUFFICES ASSUME faults' = 0
             PROVE  /\ \A t \in Submissions :
                         \/ Settled(submissions', ownership', master', t)
                         \/ \E g \in Handlers : Moving(handler'[g], t)
                    /\ \A g \in Handlers : PlaceInHand(handler'[g], submissions', ownership', master')
  BY DEF OwnInv, PlacesKept
<1>1. handler'[h] = job /\ \A g \in Handlers : g # h => handler'[g] = handler[g]
  BY OtherHandlers DEF OwnInv
<1>2. /\ \A t \in Submissions :
           Settled(submissions, ownership, master, t) \/ \E g \in Handlers : Moving(handler[g], t)
      /\ \A g \in Handlers : PlaceInHand(handler[g], submissions, ownership, master)
  BY DEF OwnInv, PlacesKept
<1>3. ASSUME NEW t \in Submissions, t # s
      PROVE  \/ Settled(submissions', ownership', master', t)
             \/ \E g \in Handlers : Moving(handler'[g], t)
  <2>1. CASE Settled(submissions, ownership, master, t)
    <3>1. Untouched(t)
      BY <1>3
    <3>. QED
      BY <2>1, <3>1 DEF Untouched, SameWork, Settled
  <2>2. ASSUME NEW g \in Handlers, Moving(handler[g], t) PROVE Moving(handler'[g], t)
    <3>1. g # h
      BY <1>3, <2>2 DEF Moving, Halfway, Free, RowOf
    <3>. QED
      BY <1>1, <2>2, <3>1
  <2>. QED
    BY <1>2, <2>1, <2>2
<1>4. ASSUME NEW g \in Handlers, g # h
      PROVE  PlaceInHand(handler[g], submissions', ownership', master')
  <2>1. CASE Free(g)
    BY <2>1 DEF PlaceInHand, Free
  <2>2. CASE ~Free(g)
    <3>1. RowOf(g).key \in Submissions /\ RowOf(g).key # s
      BY <1>4, <2>2, JobFacts DEF OwnInv, Free
    <3>2. Untouched(handler[g].row.key)
      BY <3>1 DEF RowOf
    <3>. QED
      BY <1>2, <3>2 DEF Untouched, SameWork, PlaceInHand
  <2>. QED
    BY <2>1, <2>2
<1>. QED
  BY <1>1, <1>3, <1>4

\* A step of a handler that is not half way, and that writes neither ledger nor file.
LEMMA OwnQuiet ==
  ASSUME OwnInv, IInv', NEW h \in Handlers, NEW job, Become(h, job),
         UNCHANGED <<submissions, ownership, master>>, faults' = 0 => faults = 0,
         handler[h].pc \notin Halfway,
         faults = 0 => PlaceInHand(job, submissions, ownership, master)
  PROVE  OwnInv'
<1>1. handler'[h] = job /\ \A g \in Handlers : g # h => handler'[g] = handler[g]
  BY OtherHandlers DEF OwnInv
<1>2. \A g \in Handlers, s \in Submissions : Moving(handler[g], s) => Moving(handler'[g], s)
  BY <1>1 DEF Moving
<1>. QED
  BY <1>1, <1>2 DEF OwnInv, PlacesKept

\* Jobs that the place of the file does not matter to.
CarefreePCs == PCs \ {"register", "registerOwner", "ownerCheck", "append", "holdCheck", "move",
                      "recordMove", "recordOwner"}

LEMMA CarefreeHand ==
  ASSUME NEW job, NEW subs, NEW own, NEW places, job.pc \in CarefreePCs
  PROVE  PlaceInHand(job, subs, own, places)
<1>. QED
  BY DEF PlaceInHand, CarefreePCs

\* A request takes up a submission as the ledger has it.
LEMMA FreshHand ==
  ASSUME NEW row, NEW subs, NEW own, NEW places,
         Has(subs, row.key), row.file = Latest(subs, row.key).file
  PROVE  /\ \A pc \in {"ownerCheck", "append"} : \A then : then # "registerOwner" =>
              PlaceInHand(Writing(pc, row, then), subs, own, places)
         /\ \A pc \in {"holdCheck", "move"} : \A buyer :
              PlaceInHand(Selling(pc, row, buyer), subs, own, places)
<1>. QED
  BY DEF PlaceInHand, Writing, Selling, Job

LEMMA EmptyHasNone ==
  ASSUME NEW s
  PROVE  ~Has(<< >>, s)
<1>1. << >> \in Seq({}) /\ Len(<< >>) = 0
  OBVIOUS
<1>2. \A j \in 1 .. Len(<< >>) : << >>[j].key # s
  BY <1>1
<1>. QED
  BY <1>1, <1>2, LatestIndexNone DEF Has

LEMMA InitOwn == Init => OwnInv
<1> SUFFICES ASSUME Init PROVE OwnInv
  OBVIOUS
<1>1. \A s : ~Has(submissions, s) /\ ~Has(ownership, s)
  BY EmptyHasNone DEF Init
<1>2. \A s \in Submissions : Settled(submissions, ownership, master, s)
  BY <1>1 DEF Settled, Owner, Init
<1>3. \A h \in Handlers : handler[h] = Idle
  BY DEF Init
<1>4. \A h \in Handlers : PlaceInHand(handler[h], submissions, ownership, master)
  BY <1>3, JobSteps DEF PlaceInHand
<1>. QED
  BY <1>2, <1>4, InitIInv DEF OwnInv, PlacesKept

LEMMA StartOwn ==
  ASSUME OwnInv, IInv', Apart', NEW h \in Handlers, NEW s \in Submissions,
         Artist(h, s) \/ Operator(h, s) \/ Visitor(h, s)
  PROVE  OwnInv'
<1>0. submissions \in Seq(SubmissionRows)
  BY DEF OwnInv, IInv, LedgerTypes
<1>1. /\ handler[h].pc \notin Halfway
      /\ UNCHANGED <<submissions, ownership, faults>>
  BY StartStep DEF Halfway
<1>2. ASSUME NEW job, Become(h, job), UNCHANGED master,
             PlaceInHand(job, submissions, ownership, master)
      PROVE  OwnInv'
  BY <1>1, <1>2, OwnQuiet
<1>3. ASSUME Has(submissions, s)
      PROVE  Latest(submissions, s).key = s
  BY <1>0, <1>3, LatestRow
<1>4. ASSUME Has(submissions, s), NEW status, NEW mint,
             NEW pc \in {"ownerCheck", "append"}, NEW then, then # "registerOwner"
      PROVE  PlaceInHand(Writing(pc, Revised(Latest(submissions, s), status, mint), then),
                         submissions, ownership, master)
  <2> DEFINE row == Revised(Latest(submissions, s), status, mint)
  <2>1. row.key = s /\ row.file = Latest(submissions, s).file
    BY <1>3, <1>4 DEF Revised, SubmissionRow
  <2> HIDE DEF row
  <2>2. PlaceInHand(Writing(pc, row, then), submissions, ownership, master)
    BY <1>4, <2>1, FreshHand
  <2>. QED
    BY <2>2 DEF row
<1>5. ASSUME NEW mint \in Mints, Submit(h, s, mint)
      PROVE  OwnInv'
  <2> DEFINE row == SubmissionRow(s, "pending_review", mint, Studio(s))
             job == Writing("register", row, "registerOwner")
  <2>1. /\ Become(h, job) /\ master' = [master EXCEPT ![s] = Studio(s)] /\ Free(h)
        /\ master[s] = None /\ UNCHANGED <<submissions, ownership, faults>>
    BY <1>5 DEF Submit, MayTake, Take, ledgers
  <2>2. /\ job.pc = "register" /\ job.row = row /\ row.key = s /\ row.file = Studio(s)
    BY DEF Writing, Job, SubmissionRow
  <2> HIDE DEF job, row
  <2>3. master'[s] = Studio(s) /\ \A t \in Submissions : t # s => master'[t] = master[t]
    BY <2>1 DEF OwnInv, IInv
  <2>4. /\ handler'[h] = job /\ \A g \in Handlers : g # h => handler'[g] = handler[g]
    BY <2>1, OtherHandlers DEF OwnInv
  <2>5. \A g \in Handlers : g # h /\ ~Free(g) => RowOf(g).key # s
    BY <2>2, <2>4 DEF Apart, Free, RowOf
  <2>6. ASSUME faults = 0
        PROVE  /\ PlaceInHand(job, submissions', ownership', master')
               /\ Moving(job, s)
    <3>1. Settled(submissions, ownership, master, s)
      BY <2>1, <2>5, <2>6 DEF OwnInv, PlacesKept, Moving, Halfway, Free, RowOf
    <3>2. ~Has(submissions, s)
      <4> SUFFICES ASSUME Has(submissions, s) PROVE FALSE
        OBVIOUS
      <4>1. Latest(submissions, s) \in SubmissionRows
        BY <1>0, LatestRow
      <4>2. Latest(submissions, s).file \in Places
        BY <4>1 DEF SubmissionRows
      <4>. QED
        BY <2>1, <3>1, <4>2, RegistryAssumption DEF Settled
    <3>3. Owner(ownership, s) = ArtistHolds(s)
      BY <3>1, <3>2 DEF Settled
    <3>. QED
      BY <2>1, <2>2, <2>3, <3>2, <3>3 DEF PlaceInHand, Moving, Halfway
  <2>7. \A t \in Submissions : t # s => Untouched(t)
    BY <2>1, <2>3 DEF Untouched, SameWork
  <2>. QED
    BY <2>1, <2>5, <2>6, <2>7, OwnStep
<1>6. CASE Withdraw(h, s) \/ (\E mint \in Mints : EditEdition(h, s, mint))
  BY <1>2, <1>4, <1>6 DEF Withdraw, EditEdition, Take, ledgers
<1>7. ASSUME NEW decision, NEW mint, Review(h, s, decision, mint)
      PROVE  OwnInv'
  <2>1. \A before : AfterReview(before, decision) # "registerOwner"
    BY DEF AfterReview
  <2>. QED
    BY <1>2, <1>4, <1>7, <2>1 DEF Review, Take
<1>8. CASE Acknowledge(h, s) \/ Repair(h, s)
  BY <1>2, <1>3, <1>8, FreshHand DEF Acknowledge, Repair, Take
<1>9. ASSUME NEW buyer, Settle(h, s, buyer) \/ DemoPurchase(h, s, buyer)
      PROVE  OwnInv'
  BY <1>2, <1>3, <1>9, FreshHand DEF Settle, DemoPurchase, Take
<1>10. CASE Backfill(h, s)
  <2> DEFINE job == Issuing("certificates", Latest(submissions, s), 1, 0)
  <2>1. Become(h, job) /\ UNCHANGED master
    BY <1>10 DEF Backfill
  <2>2. job.pc \in CarefreePCs
    BY JobSteps DEF CarefreePCs, PCs
  <2> HIDE DEF job
  <2>. QED
    BY <1>2, <2>1, <2>2, CarefreeHand
<1>. QED
  BY <1>5, <1>6, <1>7, <1>8, <1>9, <1>10 DEF Artist, Operator, Visitor

LEMMA ReadOwn ==
  ASSUME OwnInv, IInv', NEW h \in Handlers, ReadStep(h)
  PROVE  OwnInv'
<1>0. faults \in Nat /\ handler[h].pc \notin Halfway /\ UNCHANGED <<submissions, ownership, master>>
  BY DEF OwnInv, IInv, ReadStep, OwnerCheck, ReadChronicle, ReadCertificate, HoldCheck, Reread,
         ReadForReissue, At, Halfway, ledgers
<1>1. ASSUME NEW readable \in BOOLEAN, ReadOutcome(readable) PROVE faults' = 0 => faults = 0
  BY <1>0, <1>1 DEF ReadOutcome
<1>2. ASSUME NEW job, Become(h, job), faults' = 0 => faults = 0, job.pc \in CarefreePCs
      PROVE  OwnInv'
  BY <1>0, <1>2, OwnQuiet, CarefreeHand
<1>3. ASSUME NEW readable \in BOOLEAN, OwnerCheck(h, readable) \/ HoldCheck(h, readable)
      PROVE  OwnInv'
  <2>1. /\ handler[h].pc \in {"ownerCheck", "holdCheck"} /\ (faults' = 0 => faults = 0)
        /\ \/ Become(h, Idle)
           \/ Become(h, Writing("append", RowOf(h), "idle"))
           \/ Become(h, Selling("move", RowOf(h), handler[h].buyer))
    BY <1>1, <1>3 DEF OwnerCheck, HoldCheck, At
  <2>2. CASE Become(h, Idle)
    BY <1>2, <2>1, <2>2, JobSteps DEF CarefreePCs, PCs
  <2>3. faults = 0 => /\ Has(submissions, RowOf(h).key)
                      /\ RowOf(h).file = Latest(submissions, RowOf(h).key).file
    BY <2>1 DEF OwnInv, PlacesKept, PlaceInHand, RowOf
  <2>4. faults = 0 =>
          /\ PlaceInHand(Writing("append", RowOf(h), "idle"), submissions, ownership, master)
          /\ PlaceInHand(Selling("move", RowOf(h), handler[h].buyer), submissions, ownership, master)
    BY <2>3, FreshHand
  <2>. QED
    BY <1>0, <2>1, <2>2, <2>4, OwnQuiet
<1>4. ASSUME NEW readable \in BOOLEAN, ReadChronicle(h, readable) \/ Reread(h, readable)
      PROVE  OwnInv'
  <2>1. \E job : Become(h, job) /\ job.pc \in {"chronicleAppend", "reissue", "idle"}
    BY <1>4, JobSteps DEF ReadChronicle, Reread
  <2>. QED
    BY <1>1, <1>2, <1>4, <2>1 DEF ReadChronicle, Reread, CarefreePCs, PCs
<1>5. ASSUME NEW readable \in BOOLEAN, ReadCertificate(h, readable) \/ ReadForReissue(h, readable)
      PROVE  OwnInv'
  <2>1. \E job : Become(h, job) /\ job.pc \in {"certificates", "issue", "reissue", "reissueAppend", "idle"}
    <3>1. CASE ReadCertificate(h, readable)
      BY <3>1, JobSteps DEF ReadCertificate
    <3>2. CASE ReadForReissue(h, readable)
      BY <3>2, JobSteps DEF ReadForReissue
    <3>. QED
      BY <1>5, <3>1, <3>2
  <2>. QED
    BY <1>1, <1>2, <1>5, <2>1 DEF ReadCertificate, ReadForReissue, CarefreePCs, PCs
<1>. QED
  BY <1>3, <1>4, <1>5 DEF ReadStep

LEMMA WriteOwn ==
  ASSUME Apart, OwnInv, IInv', NEW h \in Handlers, WriteStep(h)
  PROVE  OwnInv'
<1> DEFINE row == RowOf(h)
           s == row.key
<1>0. /\ submissions \in Seq(SubmissionRows) /\ ownership \in Seq(OwnershipRows)
      /\ master \in [Submissions -> Places \cup {None}] /\ IInv
  BY DEF OwnInv, IInv, LedgerTypes
<1>1. /\ row \in SubmissionRows /\ s \in Submissions /\ ~Free(h)
      /\ handler[h].pc = "recordMove" => row.file = handler[h].buyer
      /\ \A t \in Submissions : t # s => Untouched(t)
      /\ \A g \in Handlers : g # h /\ ~Free(g) => RowOf(g).key # s
  BY <1>0, WritesOwnWork, OthersElsewhere, JobFacts DEF JobOK, RowOf, Free
<1>2. faults = 0 =>
        /\ PlaceInHand(handler[h], submissions, ownership, master)
        /\ Settled(submissions, ownership, master, s) \/ Moving(handler[h], s)
  BY <1>1 DEF OwnInv, PlacesKept, Moving, Halfway, Free, RowOf
<1>3. faults' = faults
  BY Zenon DEF WriteStep, AppendSubmission, RegisterOwner, AppendChronicle, Issue, MoveMaster,
               RecordMove, RecordOwner, AppendReissue
<1>4. row = handler[h].row
  BY DEF RowOf
<1>5. ASSUME NEW job, Become(h, job),
             faults = 0 => PlaceInHand(job, submissions', ownership', master'),
             faults = 0 => Settled(submissions', ownership', master', s) \/ Moving(job, s)
      PROVE  OwnInv'
  BY <1>1, <1>3, <1>5, OwnStep
<1> HIDE DEF row
\* The row in hand is appended.
<1>6. ASSUME submissions' = Append(submissions, row)
      PROVE  Has(submissions', s) /\ Latest(submissions', s) = row
  BY <1>0, <1>1, <1>6, LatestAppend
<1>7. CASE AppendSubmission(h)
  <2> DEFINE job == Continue(h, handler[h].then)
  <2>1. /\ handler[h].pc \in {"register", "append"} /\ Become(h, job)
        /\ submissions' = Append(submissions, row) /\ UNCHANGED <<ownership, master>>
        /\ handler[h].then \in {"idle", "registerOwner", "chronicle", "certificates"}
    BY <1>0, <1>7 DEF AppendSubmission, row, IInv, HandlersOK, JobOK
  <2>2. /\ job.pc = handler[h].then
        /\ handler[h].then = "registerOwner" => job.row = row
    BY <2>1 DEF Continue, Idle, Writing, Issuing, Job, row
  <2> HIDE DEF job
  <2>3. ASSUME faults = 0
        PROVE  /\ PlaceInHand(job, submissions', ownership', master')
               /\ Settled(submissions', ownership', master', s)
    <3>1. /\ master[s] = row.file
          /\ \/ row.file = Owner(ownership, s)
             \/ row.file = Studio(s) /\ Owner(ownership, s) = ArtistHolds(s)
      <4>1. CASE handler[h].pc = "register"
        BY <1>2, <1>4, <2>3, <4>1 DEF PlaceInHand
      <4>2. CASE handler[h].pc = "append"
        BY <1>1, <1>2, <1>4, <2>3, <4>2 DEF PlaceInHand, Settled, Moving, Halfway
      <4>. QED
        BY <2>1, <4>1, <4>2
    <3>2. Settled(submissions', ownership', master', s)
      BY <1>6, <2>1, <3>1 DEF Settled
    <3>4. handler[h].then = "registerOwner" => row.file = Studio(s)
      BY <1>2, <1>4, <2>1, <2>3 DEF PlaceInHand
    <3>5. PlaceInHand(job, submissions', ownership', master')
      BY <1>6, <2>1, <2>2, <3>4 DEF PlaceInHand
    <3>. QED
      BY <3>2, <3>5
  <2>. QED
    BY <1>5, <2>1, <2>3
<1>8. ASSUME NEW event \in OwnershipRows, ownership' = Append(ownership, event), event.key = s,
             UNCHANGED <<submissions, master>>, NEW job, Become(h, job), job.pc \in CarefreePCs,
             handler[h].pc \in {"registerOwner", "recordOwner"},
             faults = 0 => /\ Has(submissions, s) /\ master[s] = Latest(submissions, s).file
                           /\ \/ master[s] = event.holder
                              \/ master[s] = Studio(s) /\ event.holder = ArtistHolds(s)
      PROVE  OwnInv'
  <2>1. \A t \in Submissions : Owner(ownership', t) = IF event.key = t THEN event.holder ELSE Owner(ownership, t)
    BY <1>0, <1>8, OwnerAppend
  <2>2. ASSUME faults = 0
        PROVE  Settled(submissions', ownership', master', s)
    BY <1>1, <1>8, <2>1, <2>2 DEF Settled
  <2>. QED
    BY <1>5, <1>8, <2>2, CarefreeHand
<1>9. CASE RegisterOwner(h)
  <2> DEFINE event == OwnershipRow(s, ArtistHolds(s))
  <2>1. /\ handler[h].pc = "registerOwner" /\ Become(h, Idle)
        /\ ownership' = Append(ownership, event) /\ UNCHANGED <<submissions, master>>
    BY <1>9 DEF RegisterOwner, At, row
  <2>2. event \in OwnershipRows /\ event.key = s /\ event.holder = ArtistHolds(s)
    BY <1>1, ArtistIsHolder DEF OwnershipRow, OwnershipRows
  <2>3. faults = 0 => /\ Has(submissions, s) /\ Latest(submissions, s).file = Studio(s)
                      /\ master[s] = Studio(s)
    BY <1>1, <1>2, <1>4, <2>1 DEF PlaceInHand, Settled, Moving, Halfway
  <2>4. Idle.pc \in CarefreePCs
    BY JobSteps DEF CarefreePCs, PCs
  <2> HIDE DEF event
  <2>. QED
    BY <1>8, <2>1, <2>2, <2>3, <2>4
<1>10. CASE RecordOwner(h)
  <2> DEFINE event == OwnershipRow(s, handler[h].buyer)
             job == Selling("reread", row, handler[h].buyer)
  <2>1. /\ handler[h].pc = "recordOwner" /\ Become(h, job)
        /\ ownership' = Append(ownership, event) /\ UNCHANGED <<submissions, master>>
    BY <1>10 DEF RecordOwner, At, row
  <2>2. handler[h].buyer \in Holders
    BY <1>0, <2>1 DEF IInv, HandlersOK, JobOK, SalePCs
  <2>3. event \in OwnershipRows /\ event.key = s /\ event.holder = handler[h].buyer
    BY <1>1, <2>2 DEF OwnershipRow, OwnershipRows
  <2>4. faults = 0 => /\ Has(submissions, s) /\ Latest(submissions, s).file = handler[h].buyer
                      /\ master[s] = handler[h].buyer
    BY <1>2, <1>4, <2>1 DEF PlaceInHand
  <2>5. job.pc \in CarefreePCs
    BY JobSteps DEF CarefreePCs, PCs
  <2> HIDE DEF event, job
  <2>. QED
    BY <1>8, <2>1, <2>3, <2>4, <2>5
<1>11. CASE MoveMaster(h)
  <2>1. /\ handler[h].pc = "move" /\ UNCHANGED <<submissions, ownership>>
    BY <1>11 DEF MoveMaster, At, ledgers
  <2>2. CASE master[s] = row.file
    <3> DEFINE place == handler[h].buyer
               moved == Moved(row, place)
               job == Selling("recordMove", moved, place)
    <3>1. master' = [master EXCEPT ![s] = place] /\ Become(h, job)
      BY <1>11, <2>2 DEF MoveMaster, row
    <3>2. job.pc = "recordMove" /\ job.row = moved /\ moved.key = s /\ moved.file = place
      BY DEF Selling, Job, Moved, SubmissionRow
    <3> HIDE DEF job, moved
    <3>3. master'[s] = place
      BY <1>0, <1>1, <3>1
    <3>4. faults = 0 => Has(submissions, s)
      BY <1>2, <1>4, <2>1 DEF PlaceInHand
    <3>5. faults = 0 => PlaceInHand(job, submissions', ownership', master')
      BY <2>1, <3>2, <3>3, <3>4 DEF PlaceInHand
    <3>6. Moving(job, s)
      BY <3>2 DEF Moving, Halfway
    <3>. QED
      BY <1>5, <3>1, <3>5, <3>6
  <2>3. CASE master[s] # row.file
    <3>1. Become(h, Idle) /\ UNCHANGED master
      BY <1>11, <2>3 DEF MoveMaster, row
    <3>2. Idle.pc \in CarefreePCs /\ handler[h].pc \notin Halfway
      BY <2>1, JobSteps DEF CarefreePCs, PCs, Halfway
    <3>. QED
      BY <1>3, <2>1, <3>1, <3>2, OwnQuiet, CarefreeHand
  <2>. QED
    BY <2>2, <2>3
<1>12. CASE RecordMove(h)
  <2> DEFINE job == Selling("recordOwner", row, handler[h].buyer)
  <2>1. /\ handler[h].pc = "recordMove" /\ Become(h, job)
        /\ submissions' = Append(submissions, row) /\ UNCHANGED <<ownership, master>>
    BY <1>12 DEF RecordMove, At, row
  <2>2. job.pc = "recordOwner" /\ job.row = row /\ job.buyer = handler[h].buyer
    BY DEF Selling, Job
  <2> HIDE DEF job
  <2>3. faults = 0 => PlaceInHand(job, submissions', ownership', master')
    BY <1>1, <1>2, <1>4, <1>6, <2>1, <2>2 DEF PlaceInHand
  <2>4. Moving(job, s)
    BY <2>2 DEF Moving, Halfway
  <2>. QED
    BY <1>5, <2>1, <2>3, <2>4
<1>13. CASE AppendChronicle(h) \/ Issue(h) \/ AppendReissue(h)
  <2>1. /\ UNCHANGED <<submissions, ownership, master>> /\ handler[h].pc \notin Halfway
    BY <1>13 DEF AppendChronicle, Issue, AppendReissue, At, Halfway
  <2>2. \E job : Become(h, job) /\ job.pc \in CarefreePCs
    BY <1>13, JobSteps DEF AppendChronicle, Issue, AppendReissue, CarefreePCs, PCs
  <2>. QED
    BY <1>3, <2>1, <2>2, OwnQuiet, CarefreeHand
<1>. QED
  BY <1>7, <1>9, <1>10, <1>11, <1>12, <1>13 DEF WriteStep

LEMMA NextOwn ==
  ASSUME Apart, Apart', OwnInv, [Next]_vars
  PROVE  OwnInv'
<1>0. IInv /\ IInv' /\ faults \in Nat
  BY NextIInv DEF OwnInv, IInv
<1>1. ASSUME faults' = faults + 1 PROVE OwnInv'
  BY <1>0, <1>1 DEF OwnInv
<1>2. CASE UNCHANGED vars
  BY <1>0, <1>2 DEF vars, ledgers, OwnInv
<1>. QED
  BY <1>0, <1>1, <1>2, StartOwn, ReadOwn, WriteOwn DEF Next, StepFails, Crash

THEOREM OwnInvHolds == Spec /\ []Apart => []OwnInv
<1>1. Apart /\ Apart' /\ OwnInv /\ [Next]_vars => OwnInv'
  BY NextOwn
<1>. QED
  BY <1>1, InitOwn, PTL DEF Spec

\* When no two requests for one submission overlap, and no fault occurs, a work
\* lies, whenever no request is running, where its latest row says, in the directory
\* of the holder getCurrentOwner names: the rename, the row and the ownership event of
\* transferOwnershipToBuyer agree whatever reviews, withdrawals, edits and repairs
\* come before and after.
THEOREM OwnerHasTheMasterHolds == Spec /\ []Apart => []OwnerHasTheMaster
<1>1. OwnInv => OwnerHasTheMaster
  <2> SUFFICES ASSUME OwnInv, faults = 0, Quiet, NEW s \in Submissions, Has(submissions, s)
               PROVE  /\ master[s] = Latest(submissions, s).file
                      /\ \/ Latest(submissions, s).file = Owner(ownership, s)
                         \/ /\ Latest(submissions, s).file = Studio(s)
                            /\ Owner(ownership, s) = ArtistHolds(s)
    BY DEF OwnerHasTheMaster
  <2>1. \A h \in Handlers : ~Moving(handler[h], s)
    BY DEF Quiet, Free, Moving, Halfway
  <2>. QED
    BY <2>1 DEF OwnInv, PlacesKept, Settled
<1>. QED
  BY <1>1, OwnInvHolds, PTL

-----------------------------------------------------------------------------
(***************************************************************************)
(* The registry implements the lifecycle of a submission, when no read     *)
(* fails. What a handler read of the submission, and of its holders, still *)
(* holds when it appends its copy.                                         *)
(***************************************************************************)
LifeMap == <<[s \in Submissions |-> Status(s)], [s \in Submissions |-> MintOf(s)],
             [s \in Submissions |-> CollectorEver(ownership, s)]>>

\* What an append may make of a submission, beside leaving status and editions alone.
Allowed(old, new, sold) ==
  \/ new.status = old.status /\ new.mint = old.mint
  \/ /\ old.status \in Decisions /\ new.status \in Decisions
     /\ old.status \notin Open => new.mint = old.mint
  \/ /\ old.status \in Open /\ ~sold
     /\ new.status = old.status \/ (new.status = "withdrawn" /\ new.mint = old.mint)

ReviewInHand(j, subs, own, places) ==
  LET s == j.row.key
      old == Latest(subs, s)
  IN
  /\ j.pc = "register" =>
       ~Has(subs, s) /\ places[s] # None /\ j.row.status = "pending_review"
  /\ j.pc = "append" => Has(subs, s) /\ Allowed(old, j.row, CollectorEver(own, s))
  /\ j.pc = "ownerCheck" =>
       /\ Has(subs, s) /\ old.status \in Open
       /\ j.row.status = old.status \/ (j.row.status = "withdrawn" /\ j.row.mint = old.mint)
  /\ j.pc \in {"holdCheck", "move", "recordMove"} =>
       Has(subs, s) /\ j.row.status = old.status /\ j.row.mint = old.mint

\* A submission on the ledger has a file, so its id is never registered again.
Stored(subs, places) == \A s \in Submissions : Has(subs, s) => places[s] # None

LifeInv ==
  /\ IInv
  /\ Stored(submissions, master)
  /\ \A h \in Handlers : ReviewInHand(handler[h], submissions, ownership, master)

LEMMA LifeStep ==
  ASSUME LifeInv, IInv', NEW h \in Handlers, NEW job, Become(h, job), NEW s \in Submissions,
         \A g \in Handlers : g # h /\ ~Free(g) => RowOf(g).key # s,
         \A t \in Submissions : t # s => Untouched(t),
         ReviewInHand(job, submissions', ownership', master'),
         Has(submissions', s) => master'[s] # None
  PROVE  LifeInv'
<1>1. handler'[h] = job /\ \A g \in Handlers : g # h => handler'[g] = handler[g]
  BY OtherHandlers DEF LifeInv
<1>2. Stored(submissions', master')
  BY DEF LifeInv, Stored, Untouched, SameWork
<1>3. ASSUME NEW g \in Handlers, g # h
      PROVE  ReviewInHand(handler[g], submissions', ownership', master')
  <2>1. CASE Free(g)
    BY <2>1 DEF ReviewInHand, Free
  <2>2. CASE ~Free(g)
    <3>1. RowOf(g).key \in Submissions /\ RowOf(g).key # s
      BY <1>3, <2>2, JobFacts DEF LifeInv, Free
    <3>2. Untouched(handler[g].row.key)
      BY <3>1 DEF RowOf
    <3>. QED
      BY <3>2 DEF LifeInv, Untouched, SameWork, ReviewInHand, Allowed
  <2>. QED
    BY <2>1, <2>2
<1>. QED
  BY <1>1, <1>2, <1>3 DEF LifeInv

LEMMA LifeQuiet ==
  ASSUME LifeInv, IInv', NEW h \in Handlers, NEW job, Become(h, job),
         UNCHANGED <<submissions, ownership, master>>,
         ReviewInHand(job, submissions, ownership, master)
  PROVE  LifeInv'
<1>. QED
  BY OtherHandlers DEF LifeInv

\* Jobs that have no part of the review in hand.
OtherPCs == PCs \ {"register", "append", "ownerCheck", "holdCheck", "move", "recordMove"}

LEMMA OtherHand ==
  ASSUME NEW job, NEW subs, NEW own, NEW places, job.pc \in OtherPCs
  PROVE  ReviewInHand(job, subs, own, places)
<1>. QED
  BY DEF ReviewInHand, OtherPCs

LEMMA InitLife == Init => LifeInv
<1> SUFFICES ASSUME Init PROVE LifeInv
  OBVIOUS
<1>1. /\ \A s : ~Has(submissions, s)
      /\ \A h \in Handlers : handler[h] = Idle
  BY EmptyHasNone DEF Init
<1>2. Idle.pc \in OtherPCs
  BY JobSteps DEF OtherPCs, PCs
<1>. QED
  BY <1>1, <1>2, InitIInv, OtherHand DEF LifeInv, Stored

LEMMA StartLife ==
  ASSUME LifeInv, IInv', Apart', NEW h \in Handlers, NEW s \in Submissions,
         Artist(h, s) \/ Operator(h, s) \/ Visitor(h, s)
  PROVE  LifeInv'
<1>0. submissions \in Seq(SubmissionRows) /\ UNCHANGED <<submissions, ownership>>
  BY StartStep DEF LifeInv, IInv, LedgerTypes
<1>1. ASSUME NEW job, Become(h, job), UNCHANGED master,
             ReviewInHand(job, submissions, ownership, master)
      PROVE  LifeInv'
  BY <1>0, <1>1, LifeQuiet
<1>2. ASSUME Has(submissions, s)
      PROVE  Latest(submissions, s).key = s /\ Latest(submissions, s) \in SubmissionRows
  BY <1>0, <1>2, LatestRow
<1>3. ASSUME Has(submissions, s), NEW row, NEW then, row.key = s,
             Allowed(Latest(submissions, s), row, CollectorEver(ownership, s))
      PROVE  ReviewInHand(Writing("append", row, then), submissions, ownership, master)
  BY <1>3 DEF ReviewInHand, Writing, Job
<1>4. ASSUME NEW mint \in Mints, Submit(h, s, mint)
      PROVE  LifeInv'
  <2> DEFINE row == SubmissionRow(s, "pending_review", mint, Studio(s))
             job == Writing("register", row, "registerOwner")
  <2>1. /\ Become(h, job) /\ master' = [master EXCEPT ![s] = Studio(s)] /\ master[s] = None
    BY <1>4 DEF Submit, Take
  <2>2. job.pc = "register" /\ job.row = row /\ row.key = s /\ row.status = "pending_review"
    BY DEF Writing, Job, SubmissionRow
  <2> HIDE DEF job, row
  <2>3. Studio(s) \in Places
    BY RegistryAssumption DEF Studio, Places
  <2>4. /\ master'[s] # None /\ \A t \in Submissions : t # s => master'[t] = master[t]
    BY <2>1, <2>3, RegistryAssumption DEF LifeInv, IInv
  <2>5. ~Has(submissions, s)
    BY <2>1 DEF LifeInv, Stored
  <2>6. ReviewInHand(job, submissions', ownership', master')
    BY <1>0, <2>2, <2>4, <2>5 DEF ReviewInHand
  <2>7. \A t \in Submissions : t # s => Untouched(t)
    BY <1>0, <2>4 DEF Untouched, SameWork
  <2>8. /\ handler'[h] = job /\ \A g \in Handlers : g # h => handler'[g] = handler[g]
    BY <2>1, OtherHandlers DEF LifeInv
  <2>9. \A g \in Handlers : g # h /\ ~Free(g) => RowOf(g).key # s
    BY <2>2, <2>8 DEF Apart, Free, RowOf
  <2>. QED
    BY <2>1, <2>4, <2>6, <2>7, <2>9, LifeStep
<1>5. CASE Withdraw(h, s) \/ \E mint \in Mints : EditEdition(h, s, mint)
  <2>1. PICK status, mint :
          LET old == Latest(submissions, s) IN
          /\ Has(submissions, s) /\ old.status \in Open
          /\ status = old.status \/ (status = "withdrawn" /\ mint = old.mint)
          /\ Become(h, Writing("ownerCheck", Revised(old, status, mint), "idle"))
          /\ UNCHANGED master
    <3>1. CASE Withdraw(h, s)
      BY <3>1 DEF Withdraw, StillOpen, Take
    <3>2. CASE \E mint \in Mints : EditEdition(h, s, mint)
      BY <3>2 DEF EditEdition, StillOpen, Take
    <3>. QED
      BY <1>5, <3>1, <3>2
  <2> DEFINE row == Revised(Latest(submissions, s), status, mint)
             job == Writing("ownerCheck", row, "idle")
  <2>2. /\ row.key = s /\ row.status = status /\ row.mint = mint
        /\ job.pc = "ownerCheck" /\ job.row = row
    BY <1>2, <2>1 DEF Revised, SubmissionRow, Writing, Job
  <2>3. Become(h, job) /\ UNCHANGED master
    BY <2>1
  <2> HIDE DEF row, job
  <2>4. ReviewInHand(job, submissions, ownership, master)
    BY <2>1, <2>2 DEF ReviewInHand
  <2>. QED
    BY <1>1, <2>3, <2>4
<1>6. ASSUME NEW decision \in Decisions, NEW mint \in Mints,
             Review(h, s, decision, mint)
      PROVE  LifeInv'
  <2> DEFINE old == Latest(submissions, s)
             row == Revised(old, decision, mint)
             job == Writing("append", row, AfterReview(old.status, decision))
  <2>1. /\ Has(submissions, s) /\ old.status # "withdrawn"
        /\ mint # old.mint => old.status \in Open
        /\ Become(h, job) /\ UNCHANGED master
    BY <1>6 DEF Review, StillOpen, Take
  <2>2. old.status \in Decisions
    BY <1>2, <2>1 DEF SubmissionRows, Statuses
  <2>3. row.key = s /\ row.status = decision /\ row.mint = mint
    BY <1>2, <2>1 DEF Revised, SubmissionRow
  <2>4. Allowed(old, row, CollectorEver(ownership, s))
    BY <2>1, <2>2, <2>3 DEF Allowed
  <2> HIDE DEF row
  <2>5. ReviewInHand(job, submissions, ownership, master)
    BY <1>3, <2>1, <2>3, <2>4
  <2> HIDE DEF job
  <2>. QED
    BY <1>1, <2>1, <2>5
<1>7. CASE Acknowledge(h, s) \/ Repair(h, s)
  <2>1. PICK row :
          /\ Has(submissions, s) /\ row.key = s
          /\ row.status = Latest(submissions, s).status /\ row.mint = Latest(submissions, s).mint
          /\ Become(h, Writing("append", row, "idle")) /\ UNCHANGED master
    <3>1. CASE Acknowledge(h, s)
      BY <1>2, <3>1 DEF Acknowledge, Take
    <3>2. CASE Repair(h, s)
      BY <1>2, <3>2 DEF Repair, Take
    <3>. QED
      BY <1>7, <3>1, <3>2
  <2>2. Allowed(Latest(submissions, s), row, CollectorEver(ownership, s))
    BY <2>1 DEF Allowed
  <2>. QED
    BY <1>1, <1>3, <2>1, <2>2
<1>8. ASSUME NEW buyer, Settle(h, s, buyer) \/ DemoPurchase(h, s, buyer)
      PROVE  LifeInv'
  <2>1. PICK pc \in {"move", "holdCheck"} :
          /\ Has(submissions, s) /\ UNCHANGED master
          /\ Become(h, Selling(pc, Latest(submissions, s), buyer))
    BY <1>8 DEF Settle, DemoPurchase, Take
  <2> DEFINE job == Selling(pc, Latest(submissions, s), buyer)
  <2>2. job.pc = pc /\ job.row = Latest(submissions, s)
    BY DEF Selling, Job
  <2>3. Become(h, job)
    BY <2>1
  <2> HIDE DEF job
  <2>4. ReviewInHand(job, submissions, ownership, master)
    BY <1>2, <2>1, <2>2 DEF ReviewInHand
  <2>. QED
    BY <1>1, <2>1, <2>3, <2>4
<1>9. CASE Backfill(h, s)
  <2> DEFINE job == Issuing("certificates", Latest(submissions, s), 1, 0)
  <2>1. Become(h, job) /\ UNCHANGED master
    BY <1>9 DEF Backfill
  <2>2. job.pc \in OtherPCs
    BY JobSteps DEF OtherPCs, PCs
  <2> HIDE DEF job
  <2>. QED
    BY <1>1, <2>1, <2>2, OtherHand
<1>. QED
  BY <1>4, <1>5, <1>6, <1>7, <1>8, <1>9 DEF Artist, Operator, Visitor

LEMMA ReadLife ==
  ASSUME ReadsFail = FALSE, LifeInv, IInv', NEW h \in Handlers, ReadStep(h)
  PROVE  LifeInv'
<1>0. UNCHANGED <<submissions, ownership, master>>
  BY Zenon DEF ReadStep, OwnerCheck, ReadChronicle, ReadCertificate, HoldCheck, Reread,
               ReadForReissue, ledgers
<1>1. ASSUME NEW job, Become(h, job), ReviewInHand(job, submissions, ownership, master)
      PROVE  LifeInv'
  BY <1>0, <1>1, LifeQuiet
<1>2. ASSUME NEW job, Become(h, job), job.pc \in OtherPCs PROVE LifeInv'
  BY <1>1, <1>2, OtherHand
<1>3. ReviewInHand(handler[h], submissions, ownership, master)
  BY DEF LifeInv
<1>4. Idle.pc \in OtherPCs
  BY JobSteps DEF OtherPCs, PCs
<1>5. ASSUME NEW readable \in BOOLEAN, OwnerCheck(h, readable) PROVE LifeInv'
  <2> DEFINE job == Writing("append", RowOf(h), "idle")
  <2>1. /\ handler[h].pc = "ownerCheck"
        /\ IF CollectorEver(ownership, RowOf(h).key) THEN Become(h, Idle) ELSE Become(h, job)
    BY <1>5, ReadableReads DEF OwnerCheck, At
  <2>2. job.pc = "append" /\ job.row = handler[h].row
    BY DEF Writing, Job, RowOf
  <2> HIDE DEF job
  <2>3. ~CollectorEver(ownership, RowOf(h).key) => ReviewInHand(job, submissions, ownership, master)
    BY <1>3, <2>1, <2>2 DEF ReviewInHand, Allowed, RowOf
  <2>. QED
    BY <1>1, <1>2, <1>4, <2>1, <2>3
<1>6. ASSUME NEW readable \in BOOLEAN, HoldCheck(h, readable) PROVE LifeInv'
  <2> DEFINE job == Selling("move", RowOf(h), handler[h].buyer)
  <2>1. handler[h].pc = "holdCheck" /\ (Become(h, Idle) \/ Become(h, job))
    BY <1>6 DEF HoldCheck, At
  <2>2. job.pc = "move" /\ job.row = handler[h].row
    BY DEF Selling, Job, RowOf
  <2> HIDE DEF job
  <2>3. ReviewInHand(job, submissions, ownership, master)
    BY <1>3, <2>1, <2>2 DEF ReviewInHand
  <2>. QED
    BY <1>1, <1>2, <1>4, <2>1, <2>3
<1>7. ASSUME NEW readable \in BOOLEAN,
             \/ ReadChronicle(h, readable) \/ Reread(h, readable)
             \/ ReadCertificate(h, readable) \/ ReadForReissue(h, readable)
      PROVE  LifeInv'
  <2>1. \E job : /\ Become(h, job)
                 /\ job.pc \in {"chronicleAppend", "certificates", "issue", "reissue",
                                "reissueAppend", "idle"}
    <3>1. CASE ReadChronicle(h, readable) \/ Reread(h, readable)
      BY <3>1, JobSteps DEF ReadChronicle, Reread
    <3>2. CASE ReadCertificate(h, readable)
      BY <3>2, JobSteps DEF ReadCertificate
    <3>3. CASE ReadForReissue(h, readable)
      BY <3>3, JobSteps DEF ReadForReissue
    <3>. QED
      BY <1>7, <3>1, <3>2, <3>3
  <2>. QED
    BY <1>2, <2>1 DEF OtherPCs, PCs
<1>. QED
  BY <1>5, <1>6, <1>7 DEF ReadStep

LEMMA WriteLife ==
  ASSUME Apart, LifeInv, IInv', NEW h \in Handlers, WriteStep(h)
  PROVE  LifeInv'
<1> DEFINE row == RowOf(h)
<1>0. /\ submissions \in Seq(SubmissionRows) /\ ownership \in Seq(OwnershipRows)
      /\ master \in [Submissions -> Places \cup {None}] /\ IInv
      /\ Stored(submissions, master) /\ ReviewInHand(handler[h], submissions, ownership, master)
      /\ row = handler[h].row
  BY DEF LifeInv, IInv, LedgerTypes, RowOf
<1>1. /\ row \in SubmissionRows /\ row.key \in Submissions
      /\ \A t \in Submissions : t # row.key => Untouched(t)
      /\ \A g \in Handlers : g # h /\ ~Free(g) => RowOf(g).key # row.key
  BY <1>0, WritesOwnWork, OthersElsewhere
<1> HIDE DEF row
<1>2. ASSUME NEW job, Become(h, job), job.pc \in OtherPCs, UNCHANGED master,
             \/ submissions' = submissions
             \/ handler[h].pc \in {"register", "append", "recordMove"}
      PROVE  LifeInv'
  <2>1. Has(submissions', row.key) => master'[row.key] # None
    BY <1>0, <1>1, <1>2 DEF ReviewInHand, Stored
  <2>. QED
    BY <1>1, <1>2, <2>1, OtherHand, LifeStep
<1>3. CASE AppendSubmission(h)
  <2>1. handler[h].then \in {"idle", "registerOwner", "chronicle", "certificates"}
    BY <1>0, <1>3 DEF AppendSubmission, IInv, HandlersOK, JobOK
  <2>2. Continue(h, handler[h].then).pc \in OtherPCs
    BY <2>1, JobSteps DEF Continue, OtherPCs, PCs
  <2>. QED
    BY <1>2, <1>3, <2>2 DEF AppendSubmission, row
<1>4. CASE RecordMove(h)
  <2>1. Selling("recordOwner", RowOf(h), handler[h].buyer).pc \in OtherPCs
    BY JobSteps DEF OtherPCs, PCs
  <2>. QED
    BY <1>2, <1>4, <2>1 DEF RecordMove, At, row
<1>5. CASE RegisterOwner(h) \/ AppendChronicle(h) \/ Issue(h) \/ RecordOwner(h) \/ AppendReissue(h)
  <2>1. \E job : Become(h, job) /\ job.pc \in OtherPCs
    BY <1>5, JobSteps
       DEF RegisterOwner, AppendChronicle, Issue, RecordOwner, AppendReissue, OtherPCs, PCs
  <2>2. UNCHANGED <<submissions, master>>
    BY <1>5 DEF RegisterOwner, AppendChronicle, Issue, RecordOwner, AppendReissue
  <2>. QED
    BY <1>2, <2>1, <2>2
<1>6. CASE MoveMaster(h)
  <2>1. handler[h].pc = "move" /\ UNCHANGED <<submissions, ownership>>
    BY <1>6 DEF MoveMaster, At, ledgers
  <2>2. CASE master[row.key] = row.file
    <3> DEFINE place == handler[h].buyer
               moved == Moved(row, place)
               job == Selling("recordMove", moved, place)
    <3>1. master' = [master EXCEPT ![row.key] = place] /\ Become(h, job)
      BY <1>6, <2>2 DEF MoveMaster, row
    <3>2. /\ job.pc = "recordMove" /\ job.row = moved /\ moved.key = row.key
          /\ moved.status = row.status /\ moved.mint = row.mint
      BY DEF Selling, Job, Moved, SubmissionRow
    <3>3. place \in Holders
      BY <1>0, <2>1 DEF IInv, HandlersOK, JobOK, SalePCs
    <3>4. place # None
      BY <3>3, RegistryAssumption DEF Holders, Places
    <3> HIDE DEF job, moved, place
    <3>5. master'[row.key] # None
      BY <1>0, <1>1, <3>1, <3>4
    <3>6. ReviewInHand(job, submissions', ownership', master')
      BY <1>0, <2>1, <3>2 DEF ReviewInHand
    <3>. QED
      BY <1>1, <3>1, <3>5, <3>6, LifeStep
  <2>3. CASE master[row.key] # row.file
    <3>1. Become(h, Idle) /\ UNCHANGED master /\ Idle.pc \in OtherPCs
      BY <1>6, <2>3, JobSteps DEF MoveMaster, row, OtherPCs, PCs
    <3>. QED
      BY <1>2, <2>1, <3>1
  <2>. QED
    BY <2>2, <2>3
<1>. QED
  BY <1>3, <1>4, <1>5, <1>6 DEF WriteStep

LEMMA NextLife ==
  ASSUME ReadsFail = FALSE, Apart, Apart', LifeInv, [Next]_vars
  PROVE  LifeInv'
<1>0. IInv /\ IInv'
  BY NextIInv DEF LifeInv
<1>1. ASSUME NEW h \in Handlers, StepFails(h) PROVE LifeInv'
  <2>1. \E job : Become(h, job) /\ job.pc \in OtherPCs
    BY <1>1, JobSteps DEF StepFails, OtherPCs, PCs
  <2>2. UNCHANGED <<submissions, ownership, master>>
    BY <1>1 DEF StepFails, ledgers
  <2>. QED
    BY <1>0, <2>1, <2>2, OtherHand, LifeQuiet
<1>2. CASE Crash
  <2>1. \A g \in Handlers : handler'[g].pc \in OtherPCs
    BY <1>2, JobSteps DEF Crash, OtherPCs, PCs
  <2>2. UNCHANGED <<submissions, ownership, master>>
    BY <1>2 DEF Crash, ledgers
  <2>. QED
    BY <1>0, <2>1, <2>2, OtherHand DEF LifeInv
<1>3. CASE UNCHANGED vars
  BY <1>0, <1>3 DEF vars, ledgers, LifeInv
<1>. QED
  BY <1>0, <1>1, <1>2, <1>3, StartLife, ReadLife, WriteLife DEF Next

THEOREM LifeInvHolds ==
  ASSUME ReadsFail = FALSE
  PROVE  Spec /\ []Apart => []LifeInv
<1>1. Apart /\ Apart' /\ LifeInv /\ [Next]_vars => LifeInv'
  BY NextLife
<1>. QED
  BY <1>1, InitLife, PTL DEF Spec

\* Appending a row makes its status and editions those of its submission.
LEMMA AppendSets ==
  ASSUME submissions \in Seq(SubmissionRows), NEW row \in SubmissionRows,
         submissions' = Append(submissions, row), ownership' = ownership
  PROVE  /\ Lifecycle!Set(row.key, row.status, row.mint)
         /\ Status(row.key) = row.status /\ MintOf(row.key) = row.mint => UNCHANGED LifeMap
<1>1. row.key \in Submissions
  BY DEF SubmissionRows
<1>2. /\ \A s \in Submissions : Status(s)' = IF s = row.key THEN row.status ELSE Status(s)
      /\ \A s \in Submissions : MintOf(s)' = IF s = row.key THEN row.mint ELSE MintOf(s)
  BY LatestAppend DEF Status, MintOf
<1>3. \A s \in Submissions : CollectorEver(ownership, s)' = CollectorEver(ownership, s)
  BY DEF CollectorEver
<1>. QED
  BY <1>1, <1>2, <1>3 DEF Lifecycle!Set, LifeMap

LEMMA InitImplements == Init => Lifecycle!Init
<1> SUFFICES ASSUME Init PROVE Lifecycle!Init
  OBVIOUS
<1>1. \A s \in Submissions : Status(s) = "none" /\ MintOf(s) = 0
  BY EmptyHasNone DEF Init, Status, MintOf
<1>2. \A s \in Submissions : CollectorEver(ownership, s) = FALSE
  BY DEF Init, CollectorEver
<1>. QED
  BY <1>1, <1>2 DEF Lifecycle!Init

LEMMA StepImplements ==
  ASSUME LifeInv, [Next]_vars
  PROVE  [Lifecycle!Next]_LifeMap
<1>0. /\ submissions \in Seq(SubmissionRows) /\ ownership \in Seq(OwnershipRows) /\ IInv
  BY DEF LifeInv, IInv, LedgerTypes
<1>1. ASSUME UNCHANGED <<submissions, ownership>> PROVE UNCHANGED LifeMap
  BY <1>1 DEF LifeMap, Status, MintOf, CollectorEver
<1>2. ASSUME NEW h \in Handlers, handler[h].pc # "idle"
      PROVE  /\ RowOf(h) \in SubmissionRows /\ RowOf(h).key \in Submissions
             /\ RowOf(h).mint \in Mints
             /\ ReviewInHand(handler[h], submissions, ownership, master) /\ RowOf(h) = handler[h].row
  BY <1>0, <1>2, JobFacts DEF LifeInv, SubmissionRows, RowOf
<1>3. ASSUME NEW h \in Handlers, AppendSubmission(h) PROVE [Lifecycle!Next]_LifeMap
  <2> DEFINE row == RowOf(h)
             s == row.key
             old == Latest(submissions, s)
             sold == CollectorEver(ownership, s)
  <2>1. /\ row \in SubmissionRows /\ s \in Submissions /\ row.mint \in Mints
        /\ handler[h].pc \in {"register", "append"}
        /\ ReviewInHand(handler[h], submissions, ownership, master) /\ row = handler[h].row
        /\ submissions' = Append(submissions, row) /\ ownership' = ownership
    BY <1>2, <1>3 DEF AppendSubmission
  <2> HIDE DEF row
  <2>2. /\ Lifecycle!Set(s, row.status, row.mint)
        /\ Status(s) = row.status /\ MintOf(s) = row.mint => UNCHANGED LifeMap
    BY <1>0, <2>1, AppendSets
  <2>3. CASE handler[h].pc = "register"
    <3>1. Status(s) = "none" /\ row.status = "pending_review"
      BY <2>1, <2>3 DEF ReviewInHand, Status
    <3>2. Lifecycle!Register(s)
      BY <2>1, <2>2, <3>1 DEF Lifecycle!Register, Lifecycle!Mints, Mints
    <3>. QED
      BY <2>1, <3>2 DEF Lifecycle!Next
  <2>4. CASE handler[h].pc = "append"
    <3>1. Status(s) = old.status /\ MintOf(s) = old.mint /\ Allowed(old, row, sold)
      BY <2>1, <2>4 DEF ReviewInHand, Status, MintOf
    <3> HIDE DEF old, sold
    <3>2. CASE row.status = old.status /\ row.mint = old.mint
      BY <2>2, <3>1, <3>2
    <3>3. CASE /\ old.status \in Decisions /\ row.status \in Decisions
               /\ old.status \notin Open => row.mint = old.mint
      <4>1. Lifecycle!Decide(s)
        BY <2>1, <2>2, <3>1, <3>3
           DEF Lifecycle!Decide, Lifecycle!Decisions, Lifecycle!Open, Lifecycle!Mints,
               Decisions, Open, Mints
      <4>. QED
        BY <2>1, <4>1 DEF Lifecycle!Next
    <3>4. CASE old.status \in Open /\ ~sold /\ row.status = old.status
      <4>1. Lifecycle!EditEdition(s)
        BY <2>1, <2>2, <3>1, <3>4
           DEF Lifecycle!EditEdition, Lifecycle!Open, Lifecycle!Mints, Open, Mints, sold
      <4>. QED
        BY <2>1, <4>1 DEF Lifecycle!Next
    <3>5. CASE /\ old.status \in Open /\ ~sold
               /\ row.status = "withdrawn" /\ row.mint = old.mint
      <4>1. Lifecycle!Withdraw(s)
        BY <2>1, <2>2, <3>1, <3>5 DEF Lifecycle!Withdraw, Lifecycle!Open, Open, sold
      <4>. QED
        BY <2>1, <4>1 DEF Lifecycle!Next
    <3>. QED
      BY <3>1, <3>2, <3>3, <3>4, <3>5 DEF Allowed
  <2>. QED
    BY <2>1, <2>3, <2>4
<1>4. ASSUME NEW h \in Handlers, RecordMove(h) PROVE UNCHANGED LifeMap
  <2>1. /\ handler[h].pc = "recordMove" /\ submissions' = Append(submissions, RowOf(h))
        /\ ownership' = ownership
    BY <1>4 DEF RecordMove, At
  <2>2. /\ RowOf(h) \in SubmissionRows /\ RowOf(h) = handler[h].row
        /\ Status(RowOf(h).key) = RowOf(h).status /\ MintOf(RowOf(h).key) = RowOf(h).mint
    BY <1>2, <2>1 DEF ReviewInHand, Status, MintOf
  <2>. QED
    BY <1>0, <2>1, <2>2, AppendSets
<1>5. ASSUME NEW event \in OwnershipRows, ownership' = Append(ownership, event),
             submissions' = submissions,
             event.holder.type = "collector" => Has(submissions, event.key)
      PROVE  [Lifecycle!Next]_LifeMap
  <2>1. event.key \in Submissions
    BY DEF OwnershipRows
  <2>2. /\ UNCHANGED <<[s \in Submissions |-> Status(s)], [s \in Submissions |-> MintOf(s)]>>
    BY <1>5 DEF Status, MintOf
  <2>3. \A s : /\ CollectorEver(ownership, s) \in BOOLEAN
               /\ CollectorEver(ownership', s)
                    = (CollectorEver(ownership, s) \/ (event.key = s /\ event.holder.type = "collector"))
    BY <1>0, <1>5, EventSold
  <2>4. CASE event.holder.type = "collector"
    <3>1. Has(submissions, event.key) /\ Latest(submissions, event.key) \in SubmissionRows
      BY <1>0, <1>5, <2>4, LatestRow
    <3>2. Status(event.key) # "none"
      BY <3>1 DEF Status, SubmissionRows, Statuses, Decisions, Open
    <3>3. [s \in Submissions |-> CollectorEver(ownership', s)]
            = [[s \in Submissions |-> CollectorEver(ownership, s)] EXCEPT ![event.key] = TRUE]
      BY <2>1, <2>3, <2>4
    <3>4. Lifecycle!Sell(event.key)
      BY <2>1, <2>2, <3>2, <3>3 DEF Lifecycle!Sell
    <3>. QED
      BY <2>1, <3>4 DEF Lifecycle!Next
  <2>5. CASE event.holder.type # "collector"
    <3>1. \A s : CollectorEver(ownership', s) = CollectorEver(ownership, s)
      BY <2>3, <2>5
    <3>. QED
      BY <2>2, <3>1 DEF LifeMap
  <2>. QED
    BY <2>4, <2>5
<1>6. ASSUME NEW h \in Handlers, RegisterOwner(h) PROVE [Lifecycle!Next]_LifeMap
  <2> DEFINE event == OwnershipRow(RowOf(h).key, ArtistHolds(RowOf(h).key))
  <2>1. /\ handler[h].pc # "idle" /\ ownership' = Append(ownership, event)
        /\ submissions' = submissions
    BY <1>6 DEF RegisterOwner, At
  <2>2. event \in OwnershipRows /\ event.holder.type = "artist"
    BY <1>2, <2>1, ArtistIsHolder DEF OwnershipRow, OwnershipRows, ArtistHolds
  <2> HIDE DEF event
  <2>. QED
    BY <1>5, <2>1, <2>2
<1>7. ASSUME NEW h \in Handlers, RecordOwner(h) PROVE [Lifecycle!Next]_LifeMap
  <2> DEFINE event == OwnershipRow(RowOf(h).key, handler[h].buyer)
  <2>1. /\ handler[h].pc = "recordOwner" /\ ownership' = Append(ownership, event)
        /\ submissions' = submissions
    BY <1>7 DEF RecordOwner, At
  <2>2. /\ handler[h].buyer \in Holders /\ Delivered(submissions, RowOf(h).key, handler[h].buyer)
        /\ RowOf(h).key \in Submissions
    BY <1>0, <1>2, <2>1 DEF IInv, HandlersOK, JobOK, SalePCs, RowOf
  <2>3. event \in OwnershipRows /\ event.key = RowOf(h).key
    BY <2>2 DEF OwnershipRow, OwnershipRows
  <2>4. Has(submissions, RowOf(h).key)
    BY <1>0, <2>2, LatestIndexProperties DEF Has, Delivered
  <2> HIDE DEF event
  <2>. QED
    BY <1>5, <2>1, <2>3, <2>4
<1>8. \/ UNCHANGED <<submissions, ownership>>
      \/ \E h \in Handlers : AppendSubmission(h) \/ RecordMove(h) \/ RegisterOwner(h) \/ RecordOwner(h)
  <2>1. CASE \E h \in Handlers, s \in Submissions : Artist(h, s) \/ Operator(h, s) \/ Visitor(h, s)
    BY <2>1, StartStep
  <2>2. CASE \E h \in Handlers : ReadStep(h)
    BY <2>2, Zenon DEF ReadStep, OwnerCheck, ReadChronicle, ReadCertificate, HoldCheck, Reread,
                       ReadForReissue, ledgers
  <2>3. CASE \E h \in Handlers : WriteStep(h)
    BY <2>3 DEF WriteStep, AppendChronicle, Issue, MoveMaster, AppendReissue, ledgers
  <2>4. CASE (\E h \in Handlers : StepFails(h)) \/ Crash \/ UNCHANGED vars
    BY <2>4 DEF StepFails, Crash, vars, ledgers
  <2>. QED
    BY <2>1, <2>2, <2>3, <2>4 DEF Next
<1>. QED
  BY <1>1, <1>3, <1>4, <1>6, <1>7, <1>8

\* When reads do not fail and no two requests for one submission overlap, crashes
\* and failed writes included, what the rest of the system sees of a submission
\* follows its lifecycle. runOperatorSubmissionReview decides only what is not
\* withdrawn and changes the editions only while the review is open; the withdrawal
\* and the edit of the artist find the review open and the work never sold.
THEOREM RegistryImplementsLifecycle ==
  ASSUME ReadsFail = FALSE
  PROVE  Spec /\ []Apart => ImplementsLifecycle
<1>1. LifeInv /\ [Next]_vars => [Lifecycle!Next]_LifeMap
  BY StepImplements
<1>. QED
  BY <1>1, InitImplements, LifeInvHolds, PTL
     DEF Spec, ImplementsLifecycle, Lifecycle!Spec, LifeMap
=============================================================================

------------------------- MODULE CatalogMirrorProofs -------------------------
(***************************************************************************)
(* What is proved of CatalogMirror, for any number of works, legacy rows,  *)
(* editions, handlers and bounds.                                          *)
(***************************************************************************)
EXTENDS CatalogMirror, TLAPS

\* A review in flight has a work and an edition size in hand.
Sane(state) ==
  state.at = "certify" => state.submission \in Submissions /\ state.mint \in Editions

AreSane == \A r \in Requests : Sane(request[r])

\* The unique index, and the row a copy creates is for its own work.
LinksUnique ==
  \A a, b \in Artworks :
    artwork[a].link \in Submissions /\ artwork[a].link = artwork[b].link => a = b
OwnRows == \A s \in Submissions : artwork[s].link \in {NoRow, s}

\* Transactions that are open at once copy different works ...
Apart ==
  \A t, u \in transactions : t.sync.submission = u.sync.submission => t = u

\* ... and what one has read of its row is still so.
SeenIsCurrent ==
  \A t \in transactions :
    t.seen = {n \in Editions : artwork[Target(t.sync.submission)].genesis[n] > 0}

Inv ==
  /\ TypeOK
  /\ AreSane
  /\ LinksUnique
  /\ OwnRows
  /\ Apart
  /\ SeenIsCurrent
  /\ GenesisOnce
  /\ IssuedIsChronicled

-----------------------------------------------------------------------------
(* Handlers. *)

\* The value of a request after Goto, for the handler that moves and the others.
LEMMA GotoMoves ==
  ASSUME TypeOK, AreSane, NEW r \in Requests, NEW state \in Handlers, Sane(state), Goto(r, state)
  PROVE  request' \in [Requests -> Handlers] /\ AreSane'
BY DEF TypeOK, Goto, AreSane, Sane

LEMMA IdleIsFine == Idle \in Handlers /\ Sane(Idle)
BY DEF Idle, At, Handlers, Steps, Sane

LEMMA ReviewingIsFine ==
  ASSUME NEW s \in Submissions, NEW mint \in Editions
  PROVE  Reviewing("certify", s, mint) \in Handlers /\ Sane(Reviewing("certify", s, mint))
BY DEF Reviewing, At, Handlers, Steps, Sane

LEMMA ToFindLinksIsFine ==
  LET state == Reviewing("findLinks", NoSubmission, 0) IN state \in Handlers /\ Sane(state)
BY DEF Reviewing, At, Handlers, Steps, Sane

LEMMA LinkingIsFine ==
  ASSUME NEW links \in SUBSET (Legacy \X Submissions), NEW lists \in BOOLEAN
  PROVE  Linking(links, lists) \in Handlers /\ Sane(Linking(links, lists))
BY DEF Linking, At, Handlers, Steps, Sane

LEMMA MirroringIsFine ==
  ASSUME NEW step \in {"mirror", "await"}, NEW todo \in SUBSET Submissions
  PROVE  Mirroring(step, todo) \in Handlers /\ Sane(Mirroring(step, todo))
BY DEF Mirroring, At, Handlers, Steps, Sane

LEMMA GoMirrorIsFine ==
  ASSUME TypeOK, AreSane, NEW r \in Requests, NEW todo \in SUBSET Submissions, GoMirror(r, todo)
  PROVE  request' \in [Requests -> Handlers] /\ AreSane'
<1>1. CASE todo = {}
  <2>1. Goto(r, Idle)
    BY <1>1 DEF GoMirror
  <2> QED
    BY <2>1, GotoMoves, IdleIsFine
<1>2. CASE todo # {}
  <2>1. Goto(r, Mirroring("mirror", todo))
    BY <1>2 DEF GoMirror
  <2> QED
    BY <2>1, GotoMoves, MirroringIsFine
<1> QED
  BY <1>1, <1>2

LEMMA CandidatesAreTyped ==
  FromCertificates \in SUBSET (Legacy \X Submissions) /\ Merged \in SUBSET (Legacy \X Submissions)
BY DEF FromCertificates, FromIssued, Merged

-----------------------------------------------------------------------------
(* Rows. *)

LEMMA LinkedRow ==
  ASSUME LinksUnique, NEW a \in Artworks, NEW s \in Submissions, artwork[a].link = s
  PROVE  Linked(s) = {a} /\ Target(s) = a
<1>1. Linked(s) = {a}
  BY DEF Linked, LinksUnique
<1> QED
  BY <1>1 DEF Target

LEMMA TargetIsRow ==
  ASSUME LinksUnique, NEW s \in Submissions
  PROVE  /\ Target(s) \in Artworks
         /\ artwork[Target(s)].link = s \/ (Linked(s) = {} /\ Target(s) = s)
<1>1. CASE Linked(s) = {}
  BY <1>1 DEF Target, Artworks
<1>2. CASE Linked(s) # {}
  <2>1. PICK a \in Artworks : artwork[a].link = s
    BY <1>2 DEF Linked
  <2> QED
    BY <2>1, LinkedRow
<1> QED
  BY <1>1, <1>2

\* No two works are copied to one row.
LEMMA TargetsDiffer ==
  ASSUME LinksUnique, OwnRows, NEW s \in Submissions, NEW u \in Submissions, s # u
  PROVE  Target(s) # Target(u)
<1>1. s # NoRow /\ u # NoRow
  BY MirrorAssumption
<1>2. artwork[s].link \in {NoRow, s} /\ artwork[u].link \in {NoRow, u}
  BY DEF OwnRows
<1>3. /\ artwork[Target(s)].link = s \/ Target(s) = s
      /\ artwork[Target(u)].link = u \/ Target(u) = u
  BY TargetIsRow
<1> QED
  BY <1>1, <1>2, <1>3

\* A transaction's view of its row stays right if the row, and which row it is, do.
LEMMA SeenStays ==
  ASSUME TypeOK, NEW t \in transactions,
         t.seen = {n \in Editions : artwork[Target(t.sync.submission)].genesis[n] > 0},
         Linked(t.sync.submission)' = Linked(t.sync.submission),
         artwork'[Target(t.sync.submission)].genesis = artwork[Target(t.sync.submission)].genesis
  PROVE  t.seen = {n \in Editions : artwork'[Target(t.sync.submission)'].genesis[n] > 0}
<1>1. Target(t.sync.submission)' = Target(t.sync.submission)
  BY DEF Target
<1> QED
  BY <1>1

\* Most steps leave the rows alone and open no transaction.
RowsKept == UNCHANGED artwork /\ transactions' \subseteq transactions

LEMMA RowsKeptIsFine ==
  ASSUME Inv, RowsKept
  PROVE  /\ artwork' \in [Artworks -> Rows]
         /\ transactions' \subseteq [sync : Syncs, seen : SUBSET Editions]
         /\ LinksUnique' /\ OwnRows' /\ Apart' /\ SeenIsCurrent'
         /\ GenesisOnce' /\ IssuedIsChronicled'
<1> USE DEF Inv, RowsKept
<1>1. artwork' \in [Artworks -> Rows] /\ transactions' \subseteq [sync : Syncs, seen : SUBSET Editions]
  BY DEF TypeOK
<1>2. LinksUnique' /\ OwnRows' /\ GenesisOnce' /\ IssuedIsChronicled'
  BY DEF LinksUnique, OwnRows, GenesisOnce, IssuedIsChronicled
<1>3. Apart'
  BY DEF Apart
<1>4. SeenIsCurrent'
  BY DEF SeenIsCurrent, Target, Linked
<1> QED
  BY <1>1, <1>2, <1>3, <1>4

-----------------------------------------------------------------------------
(* The steps that write a row or open a transaction. *)

LEMMA BeginKeepsInv ==
  ASSUME Inv, NEW sync, SyncBegin(sync)
  PROVE  Inv'
<1> DEFINE s == sync.submission
           t0 == Transaction(sync, {n \in Editions : artwork[Target(s)].genesis[n] > 0})
<1>1. sync \in Syncs /\ s \in Submissions
  BY DEF SyncBegin, Inv, TypeOK, Syncs
<1>2. /\ transactions' = transactions \cup {t0}
      /\ UNCHANGED <<review, certificates, artwork, request, approvals, gone, faults>>
      /\ syncs' \subseteq syncs
  BY DEF SyncBegin
<1>3. t0.sync = sync /\ t0.seen = {n \in Editions : artwork[Target(s)].genesis[n] > 0}
  BY DEF Transaction
<1>4. t0 \in [sync : Syncs, seen : SUBSET Editions]
  BY <1>1 DEF Transaction
<1>5. TypeOK'
  BY <1>2, <1>4 DEF Inv, TypeOK
<1>6. Apart'
  <2>1. \A t \in transactions : t.sync.submission # s
    BY DEF SyncBegin, MayBegin
  <2> QED
    BY <1>2, <1>3, <2>1 DEF Inv, Apart
<1>7. SeenIsCurrent'
  <2>1. \A u \in Submissions : Target(u)' = Target(u)
    BY <1>2 DEF Target, Linked
  <2>2. \A t \in transactions' : t.sync.submission \in Submissions
    BY <1>5 DEF TypeOK, Syncs
  <2>3. ASSUME NEW t \in transactions'
        PROVE  t.seen = {n \in Editions : artwork'[Target(t.sync.submission)'].genesis[n] > 0}
    <3>1. CASE t \in transactions
      BY <1>2, <2>1, <2>2, <3>1 DEF Inv, SeenIsCurrent
    <3>2. CASE t = t0
      BY <1>1, <1>2, <1>3, <2>1, <3>2
    <3> QED
      BY <1>2, <3>1, <3>2
  <2> QED
    BY <2>3 DEF SeenIsCurrent
<1>8. AreSane' /\ LinksUnique' /\ OwnRows' /\ GenesisOnce' /\ IssuedIsChronicled'
  BY <1>2 DEF Inv, AreSane, LinksUnique, OwnRows, GenesisOnce, IssuedIsChronicled
<1> QED
  BY <1>5, <1>6, <1>7, <1>8 DEF Inv

\* A copied row has a genesis entry for each number up to initialMint, and never a
\* second one.
LEMMA CopiedRow ==
  ASSUME TypeOK, NEW t \in transactions, NEW old \in Rows,
         t.seen = {n \in Editions : old.genesis[n] > 0},
         \A n \in Editions : old.genesis[n] <= 1
  PROVE  /\ Copied(t, old) \in Rows
         /\ Copied(t, old).link = t.sync.submission
         /\ \A n \in Editions : Copied(t, old).genesis[n] <= 1
         /\ \A n \in Copied(t, old).issued : Copied(t, old).genesis[n] > 0
<1> DEFINE new == Copied(t, old)
<1>1. /\ t.sync.submission \in Submissions
      /\ t.sync.mint \in Editions
      /\ old.genesis \in [Editions -> Nat]
  BY DEF TypeOK, Syncs, Rows
<1>2. 1 .. t.sync.mint \subseteq Editions
  BY <1>1, MirrorAssumption DEF Editions
<1>3. /\ new.link = t.sync.submission
      /\ new.issued = 1 .. t.sync.mint
      /\ new.genesis = [n \in Editions |-> IF NeedsGenesis(t, n) THEN old.genesis[n] + 1
                                                                 ELSE old.genesis[n]]
  BY DEF Copied
<1>4. \A n \in Editions : new.genesis[n] \in Nat /\ new.genesis[n] <= 1
  BY <1>1, <1>3 DEF NeedsGenesis
<1>5. new \in Rows
  BY <1>1, <1>2, <1>3, <1>4 DEF Rows, Copied
<1>6. ASSUME NEW n \in new.issued
      PROVE  new.genesis[n] > 0
  <2>1. n \in Editions /\ n <= t.sync.mint
    BY <1>1, <1>2, <1>3, <1>6 DEF Editions
  <2>2. CASE n \in t.seen
    BY <1>1, <1>3, <2>1, <2>2 DEF NeedsGenesis
  <2>3. CASE n \notin t.seen
    BY <1>1, <1>3, <2>1, <2>3 DEF NeedsGenesis
  <2> QED
    BY <2>2, <2>3
<1> HIDE DEF new
<1> QED
  BY <1>3, <1>4, <1>5, <1>6 DEF new

LEMMA CommitKeepsInv ==
  ASSUME Inv, NEW t, SyncCommit(t)
  PROVE  Inv'
<1> DEFINE s == t.sync.submission
           a == Target(s)
           new == Copied(t, artwork[a])
<1>1. /\ t \in transactions
      /\ artwork' = [artwork EXCEPT ![a] = new]
      /\ transactions' = transactions \ {t}
      /\ UNCHANGED <<review, certificates, syncs, request, approvals, gone, faults>>
  BY DEF SyncCommit
<1>2. s \in Submissions /\ s # NoRow
  BY <1>1, MirrorAssumption DEF Inv, TypeOK, Syncs
<1>3. a \in Artworks /\ (artwork[a].link = s \/ (Linked(s) = {} /\ a = s))
  BY <1>2, TargetIsRow DEF Inv
<1>4. artwork \in [Artworks -> Rows]
  BY DEF Inv, TypeOK
<1>5. /\ new \in Rows
      /\ new.link = s
      /\ \A n \in Editions : new.genesis[n] <= 1
      /\ \A n \in new.issued : new.genesis[n] > 0
  BY <1>1, <1>3, <1>4, CopiedRow DEF Inv, SeenIsCurrent, GenesisOnce
<1> HIDE DEF new
<1>6. /\ artwork' \in [Artworks -> Rows]
      /\ artwork'[a] = new
      /\ \A b \in Artworks \ {a} : artwork'[b] = artwork[b]
  BY <1>1, <1>3, <1>4, <1>5
<1>7. TypeOK'
  BY <1>1, <1>6 DEF Inv, TypeOK
<1>8. \A b \in Artworks \ {a} : artwork[b].link # s
  <2>1. CASE artwork[a].link = s
    BY <1>2, <1>3, <2>1 DEF Inv, LinksUnique
  <2>2. CASE Linked(s) = {}
    BY <2>2 DEF Linked
  <2> QED
    BY <1>3, <2>1, <2>2
<1>9. LinksUnique'
  BY <1>5, <1>6, <1>8 DEF Inv, LinksUnique
<1>10. OwnRows'
  <2>1. ASSUME NEW u \in Submissions
        PROVE  artwork'[u].link \in {NoRow, u}
    <3>1. u \in Artworks /\ artwork[u].link \in {NoRow, u}
      BY DEF Inv, OwnRows, Artworks
    <3>2. CASE u = a
      BY <1>2, <1>3, <1>5, <1>6, <3>1, <3>2
    <3>3. CASE u # a
      BY <1>6, <3>1, <3>3
    <3> QED
      BY <3>2, <3>3
  <2> QED
    BY <2>1 DEF OwnRows
<1>11. GenesisOnce' /\ IssuedIsChronicled'
  BY <1>5, <1>6 DEF Inv, GenesisOnce, IssuedIsChronicled
<1>12. Apart' /\ AreSane'
  BY <1>1 DEF Inv, Apart, AreSane
<1>13. SeenIsCurrent'
  <2>1. ASSUME NEW u \in transactions'
        PROVE  u.seen = {n \in Editions : artwork'[Target(u.sync.submission)'].genesis[n] > 0}
    <3> DEFINE v == u.sync.submission
    <3>1. u \in transactions /\ v \in Submissions /\ v # s
      BY <1>1 DEF Inv, TypeOK, Syncs, Apart
    <3>2. Target(v) # a
      BY <1>2, <3>1, TargetsDiffer DEF Inv
    <3>3. Target(v) \in Artworks
      BY <3>1, TargetIsRow DEF Inv
    <3>4. artwork[a].link # v
      BY <1>3, <3>1, <3>2, LinkedRow DEF Inv
    <3>5. Linked(v)' = Linked(v)
      BY <1>3, <1>5, <1>6, <3>1, <3>4 DEF Linked
    <3>6. artwork'[Target(v)].genesis = artwork[Target(v)].genesis
      BY <1>6, <3>2, <3>3
    <3> QED
      BY <3>1, <3>5, <3>6, SeenStays DEF Inv, SeenIsCurrent
  <2> QED
    BY <2>1 DEF SeenIsCurrent
<1> QED
  BY <1>7, <1>9, <1>10, <1>11, <1>12, <1>13 DEF Inv

\* A link moves no row under an open transaction: the update waits.
LEMMA LinkKeepsInv ==
  ASSUME Inv, NEW r \in Requests, NEW a \in Legacy, NEW s \in Submissions, Link(r, a, s)
  PROVE  Inv'
<1>1. /\ MayLink(a, s)
      /\ UNCHANGED <<review, certificates, syncs, transactions, approvals, gone, faults>>
  BY DEF Link
<1>2. CASE Linked(s) \subseteq {a}
  <2> DEFINE rest == [request[r] EXCEPT !.links = @ \ {<<a, s>>}]
  <2>1. artwork' = [artwork EXCEPT ![a].link = s] /\ Goto(r, rest)
    BY <1>2 DEF Link
  <2>2. a \in Artworks /\ a \notin Submissions /\ s # NoSubmission
    BY MirrorAssumption DEF Artworks
  <2>3. artwork \in [Artworks -> Rows]
    BY DEF Inv, TypeOK
  <2>4. artwork' \in [Artworks -> Rows]
    BY <2>1, <2>2, <2>3 DEF Rows
  <2>5. /\ artwork'[a].link = s
        /\ artwork'[a].issued = artwork[a].issued
        /\ artwork'[a].genesis = artwork[a].genesis
        /\ \A b \in Artworks \ {a} : artwork'[b] = artwork[b]
    BY <2>1, <2>2, <2>3 DEF Rows
  <2>6. rest \in Handlers /\ Sane(rest)
    BY DEF Inv, TypeOK, Handlers, AreSane, Sane
  <2>7. request' \in [Requests -> Handlers] /\ AreSane'
    BY <2>1, <2>6, GotoMoves DEF Inv
  <2>8. TypeOK'
    BY <1>1, <2>4, <2>7 DEF Inv, TypeOK
  <2>9. LinksUnique'
    BY <1>2, <2>2, <2>5 DEF Inv, LinksUnique, Linked
  <2>10. OwnRows'
    BY <2>2, <2>5 DEF Inv, OwnRows, Artworks
  <2>11. GenesisOnce' /\ IssuedIsChronicled'
    BY <2>2, <2>5 DEF Inv, GenesisOnce, IssuedIsChronicled
  <2>12. Apart'
    BY <1>1 DEF Inv, Apart
  <2>13. SeenIsCurrent'
    <3>1. ASSUME NEW t \in transactions'
          PROVE  t.seen = {n \in Editions : artwork'[Target(t.sync.submission)'].genesis[n] > 0}
      <4> DEFINE v == t.sync.submission
      <4>1. t \in transactions /\ v \in Submissions /\ v # s /\ Target(v) # a
        BY <1>1 DEF Inv, TypeOK, Syncs, MayLink
      <4>2. Target(v) \in Artworks
        BY <4>1, TargetIsRow DEF Inv
      <4>3. artwork[a].link # v
        BY <2>2, <4>1, LinkedRow DEF Inv
      <4>4. Linked(v)' = Linked(v)
        BY <2>2, <2>5, <4>1, <4>3 DEF Linked
      <4>5. artwork'[Target(v)].genesis = artwork[Target(v)].genesis
        BY <2>5, <4>1, <4>2
      <4> QED
        BY <4>1, <4>4, <4>5, SeenStays DEF Inv, SeenIsCurrent
    <3> QED
      BY <3>1 DEF SeenIsCurrent
  <2> QED
    BY <2>7, <2>8, <2>9, <2>10, <2>11, <2>12, <2>13 DEF Inv
<1>3. CASE ~(Linked(s) \subseteq {a})
  <2>1. Goto(r, Idle) /\ UNCHANGED artwork
    BY <1>3 DEF Link
  <2>2. request' \in [Requests -> Handlers] /\ AreSane'
    BY <2>1, GotoMoves, IdleIsFine DEF Inv
  <2> QED
    BY <1>1, <2>1, <2>2, RowsKeptIsFine DEF Inv, TypeOK, RowsKept
<1> QED
  BY <1>2, <1>3

-----------------------------------------------------------------------------
(* The other steps leave the rows alone. *)

LEMMA ReviewKeepsInv ==
  ASSUME Inv, NEW r \in Requests, NEW s \in Submissions, NEW mint \in Editions,
         NEW by \in Operators, NEW written \in BOOLEAN, Approve(r, s, mint, by, written)
  PROVE  Inv'
<1> DEFINE sync == Sync(s, mint, by, approvals)
<1>1. /\ review' = [review EXCEPT ![s] = [by |-> by, mint |-> mint]]
      /\ approvals' = approvals + 1
      /\ syncs' \subseteq syncs \cup {sync}
      /\ faults' \in {faults, faults + 1}
      /\ Goto(r, Reviewing("certify", s, mint))
      /\ UNCHANGED <<certificates, artwork, transactions, gone>>
  BY DEF Approve
<1>2. request' \in [Requests -> Handlers] /\ AreSane'
  BY <1>1, GotoMoves, ReviewingIsFine DEF Inv
<1>3. review' \in [Submissions -> Reviewed]
  BY <1>1 DEF Inv, TypeOK, Reviewed
<1>4. sync \in Syncs
  BY DEF Inv, TypeOK, Sync, Syncs
<1>5. TypeOK'
  BY <1>1, <1>2, <1>3, <1>4 DEF Inv, TypeOK
<1> QED
  BY <1>1, <1>2, <1>5, RowsKeptIsFine DEF Inv, RowsKept

LEMMA AskKeepsInv ==
  ASSUME Inv, NEW s \in Submissions, AskChanges(s)
  PROVE  Inv'
<1>1. /\ review' = [review EXCEPT ![s].by = Nobody]
      /\ UNCHANGED <<certificates, artwork, syncs, transactions, request, approvals, gone, faults>>
  BY DEF AskChanges
<1>2. review' \in [Submissions -> Reviewed]
  BY <1>1 DEF Inv, TypeOK, Reviewed
<1>3. TypeOK' /\ AreSane'
  BY <1>1, <1>2 DEF Inv, TypeOK, AreSane
<1> QED
  BY <1>1, <1>3, RowsKeptIsFine DEF Inv, RowsKept

\* Certificates are issued for the numbers of an edition.
LEMMA CertificatesTyped ==
  ASSUME TypeOK, NEW s \in Submissions, NEW mint \in Editions, NEW upTo \in 0 .. mint,
         certificates' = certificates \cup {<<s, n>> : n \in 1 .. upTo}
  PROVE  certificates' \subseteq Submissions \X Editions
<1>1. 1 .. upTo \subseteq Editions
  BY MirrorAssumption DEF Editions
<1> QED
  BY <1>1 DEF TypeOK

LEMMA CertifyKeepsInv ==
  ASSUME Inv, NEW r \in Requests, NEW upTo \in 0 .. Total, Certify(r, upTo)
  PROVE  Inv'
<1>1. /\ request[r].at = "certify"
      /\ upTo \in 0 .. request[r].mint
      /\ certificates' = certificates \cup {<<request[r].submission, n>> : n \in 1 .. upTo}
      /\ faults' \in {faults, faults + 1}
      /\ UNCHANGED <<review, artwork, syncs, transactions, approvals, gone>>
  BY DEF Certify
<1>2. request[r].submission \in Submissions /\ request[r].mint \in Editions
  BY <1>1 DEF Inv, AreSane, Sane
<1>3. certificates' \subseteq Submissions \X Editions
  BY <1>1, <1>2, CertificatesTyped DEF Inv
<1>4. Goto(r, Idle) \/ Goto(r, Reviewing("findLinks", NoSubmission, 0))
  BY DEF Certify
<1>5. request' \in [Requests -> Handlers] /\ AreSane'
  BY <1>4, GotoMoves, IdleIsFine, ToFindLinksIsFine DEF Inv
<1>6. TypeOK'
  BY <1>1, <1>3, <1>5 DEF Inv, TypeOK
<1> QED
  BY <1>1, <1>5, <1>6, RowsKeptIsFine DEF Inv, RowsKept

LEMMA IssueKeepsInv ==
  ASSUME Inv, NEW s \in Submissions, NEW upTo \in Editions, IssueMissing(s, upTo)
  PROVE  Inv'
<1>1. /\ certificates' = certificates \cup {<<s, n>> : n \in 1 .. upTo}
      /\ faults' \in {faults, faults + 1}
      /\ UNCHANGED <<review, artwork, syncs, transactions, request, approvals, gone>>
  BY DEF IssueMissing
<1>2. upTo \in 0 .. upTo
  BY MirrorAssumption DEF Editions
<1>3. certificates' \subseteq Submissions \X Editions
  BY <1>1, <1>2, CertificatesTyped DEF Inv
<1>4. TypeOK' /\ AreSane'
  BY <1>1, <1>3 DEF Inv, TypeOK, AreSane
<1> QED
  BY <1>1, <1>4, RowsKeptIsFine DEF Inv, RowsKept

\* An account is deleted, which no row shows.
LEMMA DeleteKeepsInv ==
  ASSUME Inv, NEW u \in Operators \cup {Artist}, DeleteAccount(u)
  PROVE  Inv'
<1>1. /\ gone' = gone \cup {u}
      /\ faults' = faults + 1
      /\ UNCHANGED <<review, certificates, artwork, syncs, transactions, request, approvals>>
  BY DEF DeleteAccount
<1>2. TypeOK' /\ AreSane'
  BY <1>1 DEF Inv, TypeOK, AreSane
<1> QED
  BY <1>1, <1>2, RowsKeptIsFine DEF Inv, RowsKept

\* The copies that end without a commit, with or without the process.
LEMMA FaultKeepsInv ==
  ASSUME Inv, Restart \/ \E sync \in syncs \cup {t.sync : t \in transactions} : SyncFails(sync)
  PROVE  Inv'
<1>1. /\ syncs' \subseteq syncs /\ transactions' \subseteq transactions
      /\ faults' = faults + 1
      /\ UNCHANGED <<review, certificates, artwork, approvals, gone>>
      /\ UNCHANGED request \/ request' = [r \in Requests |-> Idle]
  BY DEF Restart, SyncFails
<1>2. request' \in [Requests -> Handlers] /\ AreSane'
  BY <1>1, IdleIsFine DEF Inv, TypeOK, AreSane
<1>3. TypeOK'
  BY <1>1, <1>2 DEF Inv, TypeOK
<1> QED
  BY <1>1, <1>2, <1>3, RowsKeptIsFine DEF Inv, RowsKept

\* Steps of one handler that only start copies or none.
LEMMA QuietKeepsInv ==
  ASSUME Inv, request' \in [Requests -> Handlers], AreSane',
         syncs' \subseteq Syncs,
         UNCHANGED <<review, certificates, artwork, transactions, approvals, gone, faults>>
  PROVE  Inv'
<1>1. TypeOK'
  BY DEF Inv, TypeOK
<1> QED
  BY <1>1, RowsKeptIsFine DEF Inv, RowsKept

LEMMA StartKeepsInv ==
  ASSUME Inv, NEW r \in Requests, FindLinks(r) \/ ListEditions(r) \/ BackfillLinks(r)
  PROVE  Inv'
<1>1. PICK links \in SUBSET (Legacy \X Submissions), lists \in BOOLEAN : StartLinking(r, links, lists)
  BY CandidatesAreTyped DEF FindLinks, ListEditions, BackfillLinks
<1>2. request' \in [Requests -> Handlers] /\ AreSane'
  BY <1>1, GotoMoves, LinkingIsFine DEF Inv, StartLinking
<1> QED
  BY <1>1, <1>2, QuietKeepsInv DEF StartLinking, Inv, TypeOK

LEMMA ListKeepsInv ==
  ASSUME Inv, NEW r \in Requests, LinksDone(r) \/ Awaited(r)
  PROVE  Inv'
<1>1. request[r] \in Handlers
  BY DEF Inv, TypeOK
<1>2. PICK todo \in SUBSET Submissions : GoMirror(r, todo)
  <2>1. CASE LinksDone(r)
    BY <2>1 DEF LinksDone
  <2>2. CASE Awaited(r)
    BY <1>1, <2>2 DEF Awaited, Handlers
  <2> QED
    BY <2>1, <2>2
<1>3. UNCHANGED <<review, certificates, artwork, syncs, transactions, approvals, gone, faults>>
  BY DEF LinksDone, Awaited
<1> QED
  BY <1>2, <1>3, GoMirrorIsFine, QuietKeepsInv DEF Inv, TypeOK

LEMMA MirrorKeepsInv ==
  ASSUME Inv, NEW r \in Requests, NEW s \in Submissions, Mirror(r, s)
  PROVE  Inv'
<1>1. request[r].todo \ {s} \in SUBSET Submissions /\ review[s].mint \in Editions
  BY DEF Inv, TypeOK, Handlers, Reviewed
<1>2. UNCHANGED <<review, certificates, artwork, transactions, approvals, gone, faults>>
  BY DEF Mirror
<1>3. CASE Approved(s)
  <2>1. /\ syncs' = syncs \cup {Sync(s, review[s].mint, review[s].by, r)}
        /\ Goto(r, Mirroring("await", request[r].todo \ {s}))
    BY <1>3 DEF Mirror
  <2>2. review[s].by \in Operators
    BY <1>3 DEF Inv, TypeOK, Reviewed, Approved
  <2>3. syncs' \subseteq Syncs
    BY <1>1, <2>1, <2>2 DEF Inv, TypeOK, Sync, Syncs
  <2>4. request' \in [Requests -> Handlers] /\ AreSane'
    BY <1>1, <2>1, GotoMoves, MirroringIsFine DEF Inv
  <2> QED
    BY <1>2, <2>3, <2>4, QuietKeepsInv
<1>4. CASE ~Approved(s)
  <2>1. GoMirror(r, request[r].todo \ {s}) /\ UNCHANGED syncs
    BY <1>4 DEF Mirror
  <2> QED
    BY <1>1, <1>2, <2>1, GoMirrorIsFine, QuietKeepsInv DEF Inv, TypeOK
<1> QED
  BY <1>3, <1>4

-----------------------------------------------------------------------------
LEMMA InitInv == Init => Inv
<1> SUFFICES ASSUME Init PROVE Inv
  OBVIOUS
<1>1. 1 \in Editions
  BY MirrorAssumption DEF Editions
<1>2. Idle \in Handlers /\ Sane(Idle)
  BY IdleIsFine
<1>3. \A a \in Artworks :
        /\ artwork[a] \in Rows
        /\ artwork[a].link \in {NoSubmission, NoRow}
        /\ a \in Submissions => artwork[a].link = NoRow
        /\ \A n \in Editions : artwork[a].genesis[n] <= 1
        /\ \A n \in artwork[a].issued : artwork[a].genesis[n] > 0
  <2> TAKE a \in Artworks
  <2>1. a \in Legacy => a \notin Submissions /\ LegacyIssued[a] \in SUBSET Editions
    BY MirrorAssumption
  <2>2. artwork[a] = FirstRow(a)
    BY DEF Init
  <2> QED
    BY <2>1, <2>2 DEF FirstRow, Rows
<1>4. TypeOK
  BY <1>1, <1>2, <1>3 DEF Init, TypeOK, Reviewed
<1>5. LinksUnique /\ OwnRows /\ GenesisOnce /\ IssuedIsChronicled
  BY <1>3, MirrorAssumption DEF LinksUnique, OwnRows, GenesisOnce, IssuedIsChronicled, Artworks
<1>6. AreSane /\ Apart /\ SeenIsCurrent
  BY <1>2 DEF Init, AreSane, Apart, SeenIsCurrent
<1> QED
  BY <1>4, <1>5, <1>6 DEF Inv

LEMMA NextKeepsInv == Inv /\ [Next]_vars => Inv'
<1> SUFFICES ASSUME Inv, [Next]_vars PROVE Inv'
  OBVIOUS
<1>1. ASSUME NEW r \in Reviews, NEW s \in Submissions, NEW mint \in Editions, NEW by \in Operators,
             NEW written \in BOOLEAN, Approve(r, s, mint, by, written)
      PROVE  Inv'
  BY <1>1, ReviewKeepsInv DEF Requests
<1>2. ASSUME NEW s \in Submissions, AskChanges(s) PROVE Inv'
  BY <1>2, AskKeepsInv
<1>3. ASSUME NEW s \in Submissions, NEW upTo \in Editions, IssueMissing(s, upTo) PROVE Inv'
  BY <1>3, IssueKeepsInv
<1>4. ASSUME NEW r \in Lists, ListEditions(r) \/ BackfillLinks(r) PROVE Inv'
  BY <1>4, StartKeepsInv DEF Requests
<1>5. ASSUME NEW r \in Requests, Continue(r) PROVE Inv'
  <2>1. ASSUME NEW upTo \in 0 .. Total, Certify(r, upTo) PROVE Inv'
    BY <2>1, CertifyKeepsInv
  <2>2. ASSUME NEW a \in Legacy, NEW s \in Submissions, Link(r, a, s) PROVE Inv'
    BY <2>2, LinkKeepsInv
  <2>3. ASSUME NEW s \in Submissions, Mirror(r, s) PROVE Inv'
    BY <2>3, MirrorKeepsInv
  <2>4. CASE FindLinks(r)
    BY <2>4, StartKeepsInv
  <2>5. CASE LinksDone(r) \/ Awaited(r)
    BY <2>5, ListKeepsInv
  <2> QED
    BY <1>5, <2>1, <2>2, <2>3, <2>4, <2>5 DEF Continue
<1>6. CASE CopyOne
  <2>1. ASSUME NEW sync \in syncs, SyncRefused(sync) PROVE Inv'
    <3>1. syncs' \subseteq Syncs /\ request' \in [Requests -> Handlers] /\ AreSane'
      BY <2>1 DEF SyncRefused, Inv, TypeOK, AreSane
    <3> QED
      BY <2>1, <3>1, QuietKeepsInv DEF SyncRefused
  <2> QED
    BY <1>6, <2>1, BeginKeepsInv, CommitKeepsInv DEF CopyOne
<1>7. CASE Restart \/ \E sync \in syncs \cup {t.sync : t \in transactions} : SyncFails(sync)
  BY <1>7, FaultKeepsInv
<1>8. ASSUME NEW u \in Operators \cup {Artist}, DeleteAccount(u) PROVE Inv'
  BY <1>8, DeleteKeepsInv
<1>9. CASE UNCHANGED vars
  <2>1. TypeOK' /\ AreSane' /\ RowsKept
    BY <1>9 DEF vars, Inv, TypeOK, AreSane, RowsKept
  <2> QED
    BY <2>1, RowsKeptIsFine DEF Inv
<1> QED
  BY <1>1, <1>2, <1>3, <1>4, <1>5, <1>6, <1>7, <1>8, <1>9 DEF Next

LEMMA InvHolds == Spec => []Inv
BY InitInv, NextKeepsInv, PTL DEF Spec

\* Every reachable state of the mirror is well typed: no copy, certificate or row
\* names an edition outside 1 .. Total.
THEOREM MirrorTypeCorrect == Spec => []TypeOK
<1>1. Inv => TypeOK
  BY DEF Inv
<1> QED
  BY <1>1, InvHolds, PTL

\* The database's chronicle never forks, however copies of one work overlap, fail
\* and are repeated, and whatever is linked meanwhile.
THEOREM GenesisOnceHolds == Spec => []GenesisOnce
<1>1. Inv => GenesisOnce
  BY DEF Inv
<1> QED
  BY <1>1, InvHolds, PTL

\* Whatever the mirror calls issued is in its chronicle.
THEOREM IssuedIsChronicledHolds == Spec => []IssuedIsChronicled
<1>1. Inv => IssuedIsChronicled
  BY DEF Inv
<1> QED
  BY <1>1, InvHolds, PTL

\* What the unique index of opus_submission_id gives: one row for a submission, and
\* a row made by a copy is never given to another work.
THEOREM RowsStayApart == Spec => [](LinksUnique /\ OwnRows)
<1>1. Inv => LinksUnique /\ OwnRows
  BY DEF Inv
<1> QED
  BY <1>1, InvHolds, PTL
=============================================================================

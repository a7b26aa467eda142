----------------------- MODULE OnchainMintQueueProofs -----------------------
(***************************************************************************)
(* Safety of the mint queue for any number of approvals and sweeps running *)
(* at once, any retry policy and any number of crashes and file errors.    *)
(* Then what holds besides as long as no two sweeps overlap, and no two    *)
(* approvals of one submission: backoffs are honoured, attempts stay in    *)
(* the retry budget, a submission is queued once, and the queue implements *)
(* the lifecycle of a job.                                                 *)
(***************************************************************************)
EXTENDS OnchainMintQueue, LedgerTheorems, FiniteSetTheorems

(***************************************************************************)
(* What a sweep takes up: a finite sequence of rows of the ledger.         *)
(***************************************************************************)
LEMMA DueJobsFinite ==
  ASSUME jobs \in Seq(Row)
  PROVE  IsFiniteSet(DueJobs) /\ DueJobs \subseteq Row
<1> DEFINE I == {LatestIndex(jobs, k) : k \in {k \in Keys(jobs) : Due(Latest(jobs, k))}}
           f == [i \in I |-> jobs[i]]
<1>1. Len(jobs) \in Nat /\ DOMAIN jobs = 1 .. Len(jobs)
  BY LenProperties
<1>2. \A k \in Keys(jobs) : LatestIndex(jobs, k) \in 1 .. Len(jobs)
  BY <1>1, LatestIndexProperties DEF Keys
<1>3. I \subseteq 1 .. Len(jobs)
  BY <1>2
<1>4. IsFiniteSet(I)
  <2>1. IsFiniteSet(1 .. Len(jobs))
    BY <1>1, FS_Interval
  <2>. QED
    BY <1>3, <2>1, FS_Subset
<1>5. f \in Surjection(I, DueJobs)
  BY DEF Surjection, DueJobs, Latest
<1>6. IsFiniteSet(DueJobs)
  BY <1>4, <1>5, FS_Surjection
<1>7. DueJobs \subseteq Row
  BY <1>2, ElementOfSeq DEF DueJobs, Latest
<1>. QED
  BY <1>6, <1>7

LEMMA FirstJobsType ==
  ASSUME jobs \in Seq(Row), NEW q \in SweepOrders
  PROVE  FirstJobs(q) \in Seq(Row)
<1> DEFINE n == Cardinality(DueJobs)
<1>1. n \in Nat /\ DueJobs \subseteq Row
  BY DueJobsFinite, FS_CardinalityType
<1>2. q \in [1 .. n -> DueJobs]
  BY DEF SweepOrders, SetToSeqs
<1>3. q \in Seq(Row) /\ Len(q) = n
  BY <1>1, <1>2
<1>4. \A m \in Nat : m <= n => SubSeq(q, 1, m) \in Seq(Row)
  BY <1>1, <1>3, SubSeqProperties, ElementOfSeq
<1>. QED
  BY <1>1, <1>3, <1>4, MintQueueAssumption DEF FirstJobs

(***************************************************************************)
(* The rows a sweep writes are rows, whatever job it has in hand.          *)
(***************************************************************************)
LEMMA WrittenRowsType ==
  ASSUME TypeOK, NEW w \in Workers, worker[w].pc # "idle"
  PROVE  /\ Head(worker[w].due) \in Row
         /\ Tail(worker[w].due) \in Seq(Row)
         /\ Attempted(w) \in Row
         /\ Confirmed(w) \in Row
         /\ GivenBack(w) \in Row
         /\ Attempted(w).status = "submitted"
         /\ Attempted(w).attempt \in Nat \ {0}
         /\ Confirmed(w).status = "confirmed"
         /\ GivenBack(w).attempt = Attempted(w).attempt
         /\ GivenBack(w).status =
              IF WillRetry(Attempted(w).attempt) THEN "queued" ELSE "failed"
<1>1. worker[w].due \in Seq(Row) /\ worker[w].due # << >> /\ now \in Nat
  BY DEF TypeOK
<1>2. Head(worker[w].due) \in Row /\ Tail(worker[w].due) \in Seq(Row)
  BY <1>1, HeadTailProperties
<1>3. Statuses = {"queued", "submitted", "confirmed", "failed"}
  BY DEF Statuses
<1>4. Attempted(w) \in Row /\ Attempted(w).status = "submitted"
      /\ Attempted(w).attempt \in Nat \ {0}
  <2>1. PICK job \in Row : job = Head(worker[w].due)
    BY <1>2
  <2>2. job.attempt + 1 \in Nat \ {0} /\ job.next \in Nat
    BY <2>1 DEF Row
  <2>. QED
    BY <1>3, <2>1, <2>2 DEF Attempted, Patch, Row
<1>5. Confirmed(w) \in Row /\ Confirmed(w).status = "confirmed"
  BY <1>1, <1>3, <1>4 DEF Confirmed, Patch, Row
<1>6. GivenBack(w) \in Row
      /\ GivenBack(w).attempt = Attempted(w).attempt
      /\ GivenBack(w).status =
              IF WillRetry(Attempted(w).attempt) THEN "queued" ELSE "failed"
  <2>1. WillRetry(Attempted(w).attempt) => now + Backoff[Attempted(w).attempt] \in Nat
    BY <1>1, <1>4, MintQueueAssumption DEF WillRetry
  <2>. QED
    BY <1>1, <1>3, <1>4, <2>1 DEF GivenBack, Patch, Row
<1>. QED
  BY <1>2, <1>4, <1>5, <1>6

-----------------------------------------------------------------------------
(***************************************************************************)
(* The inductive invariant. Beyond the properties themselves it says that  *)
(* an enqueue call carries a fresh row, and that the attempt a sweep is    *)
(* sending or waiting for is already in the ledger.                        *)
(***************************************************************************)
FreshRows ==
  \A e \in Enqueuers : enqueuer[e] # NoRow =>
    enqueuer[e] \in Row /\ enqueuer[e].attempt = 0 /\ enqueuer[e].status = "queued"

Logged(w) == \E i \in DOMAIN jobs : jobs[i] = Attempted(w)

InHandLogged == \A w \in Workers : worker[w].pc \in {"send", "receipt"} => Logged(w)

\* A job waits only while it has attempts left and is given up only without.
WithinBudget(row) ==
  /\ row.status = "queued" => row.attempt < MaxAttempts
  /\ row.status = "failed" => row.attempt >= MaxAttempts

AllWithinBudget == \A i \in DOMAIN jobs : WithinBudget(jobs[i])

IInv == TypeOK /\ FreshRows /\ InHandLogged /\ EveryTxIsLogged /\ AllWithinBudget

(***************************************************************************)
(* Appending a row that keeps the budget keeps everything the invariant    *)
(* says of the ledger.                                                     *)
(***************************************************************************)
LEMMA AppendedRow ==
  ASSUME jobs \in Seq(Row), NEW row \in Row, jobs' = Append(jobs, row)
  PROVE  /\ jobs' \in Seq(Row)
         /\ DOMAIN jobs \subseteq DOMAIN jobs'
         /\ \A i \in DOMAIN jobs : jobs'[i] = jobs[i]
         /\ \E i \in DOMAIN jobs' : jobs'[i] = row
         /\ \A i \in DOMAIN jobs' : jobs'[i] = row \/ (i \in DOMAIN jobs /\ jobs'[i] = jobs[i])
<1>1. /\ jobs' \in Seq(Row)
      /\ Len(jobs') = Len(jobs) + 1
      /\ Len(jobs) \in Nat
      /\ jobs'[Len(jobs) + 1] = row
      /\ \A i \in 1 .. Len(jobs) : jobs'[i] = jobs[i]
  BY AppendProperties, LenProperties
<1>2. DOMAIN jobs = 1 .. Len(jobs) /\ DOMAIN jobs' = 1 .. Len(jobs')
  BY <1>1, LenProperties
<1>. QED
  BY <1>1, <1>2

LEMMA AppendKeepsLedgerFacts ==
  ASSUME IInv, NEW row \in Row, jobs' = Append(jobs, row), WithinBudget(row)
  PROVE  /\ jobs' \in Seq(Row)
         /\ AllWithinBudget'
         /\ sent' = sent => EveryTxIsLogged'
         /\ \A w \in Workers : Logged(w) /\ worker'[w].due = worker[w].due => Logged(w)'
<1>1. jobs \in Seq(Row) /\ AllWithinBudget /\ EveryTxIsLogged
  BY DEF IInv, TypeOK
<1>2. /\ jobs' \in Seq(Row)
      /\ DOMAIN jobs \subseteq DOMAIN jobs'
      /\ \A i \in DOMAIN jobs : jobs'[i] = jobs[i]
      /\ \A i \in DOMAIN jobs' : jobs'[i] = row \/ (i \in DOMAIN jobs /\ jobs'[i] = jobs[i])
  BY <1>1, AppendedRow
<1>3. AllWithinBudget'
  BY <1>1, <1>2 DEF AllWithinBudget, WithinBudget
<1>4. ASSUME sent' = sent PROVE EveryTxIsLogged'
  BY <1>1, <1>2, <1>4 DEF EveryTxIsLogged, Tx
<1>5. ASSUME NEW w \in Workers, Logged(w), worker'[w].due = worker[w].due PROVE Logged(w)'
  BY <1>2, <1>5 DEF Logged, Attempted
<1>. QED
  BY <1>2, <1>3, <1>4, <1>5

(***************************************************************************)
(* The invariant holds initially and every step keeps it.                  *)
(***************************************************************************)
LEMMA InitIInv == Init => IInv
<1> SUFFICES ASSUME Init PROVE IInv
  OBVIOUS
<1>1. TypeOK
  <2>1. << >> \in Seq(Row) /\ << >> = << >>
    OBVIOUS
  <2>. QED
    BY <2>1 DEF Init, TypeOK, Idle
<1>2. DOMAIN jobs = {}
  BY DEF Init
<1>. QED
  BY <1>1, <1>2 DEF Init, IInv, Idle, FreshRows, InHandLogged, EveryTxIsLogged, AllWithinBudget

\* Moving a sweep to its next job, or to none, keeps the type of "worker".
LEMMA FinishType ==
  ASSUME TypeOK, NEW w \in Workers, worker[w].pc # "idle", Finish(w)
  PROVE  /\ worker' \in [Workers -> [pc : {"idle", "submit", "send", "receipt"}, due : Seq(Row)]]
         /\ \A v \in Workers : worker'[v].pc = "idle" <=> worker'[v].due = << >>
         /\ worker'[w].pc \in {"idle", "submit"}
         /\ \A v \in Workers : v # w => worker'[v] = worker[v]
<1>1. Tail(worker[w].due) \in Seq(Row)
  BY WrittenRowsType
<1>2. NextJob(Tail(worker[w].due)) \in [pc : {"idle", "submit", "send", "receipt"}, due : Seq(Row)]
      /\ NextJob(Tail(worker[w].due)).pc \in {"idle", "submit"}
      /\ (NextJob(Tail(worker[w].due)).pc = "idle"
            <=> NextJob(Tail(worker[w].due)).due = << >>)
  BY <1>1 DEF NextJob, Idle
<1>. QED
  BY <1>2 DEF Finish, TypeOK

LEMMA NextIInv == IInv /\ [Next]_vars => IInv'
<1> SUFFICES ASSUME IInv, [Next]_vars PROVE IInv'
  OBVIOUS
<1>0. TypeOK /\ FreshRows /\ InHandLogged /\ EveryTxIsLogged /\ AllWithinBudget
  BY DEF IInv
<1>1. ASSUME NEW e \in Enqueuers, NEW s \in Submissions, NEW readable \in BOOLEAN,
             EnqueueRead(e, s, readable)
      PROVE  IInv'
  <2>1. NewJob(s) \in Row /\ NewJob(s).attempt = 0 /\ NewJob(s).status = "queued"
    BY <1>0 DEF NewJob, Row, Statuses, TypeOK
  <2>2. TypeOK'
    BY <1>0, <1>1, <2>1 DEF TypeOK, EnqueueRead
  <2>3. FreshRows'
    BY <1>0, <1>1, <2>1 DEF FreshRows, EnqueueRead, TypeOK
  <2>4. InHandLogged' /\ EveryTxIsLogged' /\ AllWithinBudget'
    BY <1>0, <1>1 DEF InHandLogged, Logged, Attempted, EveryTxIsLogged, AllWithinBudget, EnqueueRead
  <2>. QED
    BY <2>2, <2>3, <2>4 DEF IInv
<1>2. ASSUME NEW e \in Enqueuers, EnqueueAppend(e)
      PROVE  IInv'
  <2>1. enqueuer[e] \in Row /\ WithinBudget(enqueuer[e]) /\ jobs' = Append(jobs, enqueuer[e])
    BY <1>0, <1>2, MintQueueAssumption DEF FreshRows, WithinBudget, EnqueueAppend
  <2>2. worker' = worker /\ sent' = sent
    BY <1>2 DEF EnqueueAppend
  <2>3. /\ jobs' \in Seq(Row) /\ AllWithinBudget' /\ EveryTxIsLogged'
        /\ \A w \in Workers : Logged(w) => Logged(w)'
    BY <2>1, <2>2, AppendKeepsLedgerFacts
  <2>4. TypeOK'
    BY <1>0, <1>2, <2>3 DEF TypeOK, EnqueueAppend
  <2>5. FreshRows'
    BY <1>0, <1>2 DEF FreshRows, EnqueueAppend, TypeOK
  <2>6. InHandLogged'
    BY <1>0, <2>2, <2>3 DEF InHandLogged
  <2>. QED
    BY <2>3, <2>4, <2>5, <2>6 DEF IInv
<1>3. ASSUME NEW e \in Enqueuers, EnqueueThrows(e)
      PROVE  IInv'
  <2>1. TypeOK' /\ FreshRows'
    BY <1>0, <1>3 DEF TypeOK, FreshRows, EnqueueThrows
  <2>2. InHandLogged' /\ EveryTxIsLogged' /\ AllWithinBudget'
    BY <1>0, <1>3 DEF InHandLogged, Logged, Attempted, EveryTxIsLogged, AllWithinBudget, EnqueueThrows
  <2>. QED
    BY <2>1, <2>2 DEF IInv
<1>4. ASSUME NEW w \in Workers, Sweep(w)
      PROVE  IInv'
  <2>1. PICK q \in SweepOrders : worker' = [worker EXCEPT ![w] = NextJob(FirstJobs(q))]
    BY <1>4 DEF Sweep
  <2>2. FirstJobs(q) \in Seq(Row)
    BY <1>0, FirstJobsType DEF TypeOK
  <2>3. /\ NextJob(FirstJobs(q)) \in [pc : {"idle", "submit", "send", "receipt"}, due : Seq(Row)]
        /\ NextJob(FirstJobs(q)).pc \in {"idle", "submit"}
        /\ (NextJob(FirstJobs(q)).pc = "idle" <=> NextJob(FirstJobs(q)).due = << >>)
    BY <2>2 DEF NextJob, Idle
  <2>4. TypeOK'
    BY <1>0, <1>4, <2>1, <2>3 DEF TypeOK, Sweep
  <2>5. \A v \in Workers : worker'[v].pc \in {"send", "receipt"} => worker'[v] = worker[v]
    BY <1>0, <2>1, <2>3 DEF TypeOK
  <2>6. InHandLogged'
    BY <1>0, <1>4, <2>5 DEF InHandLogged, Logged, Attempted, Sweep
  <2>7. FreshRows' /\ EveryTxIsLogged' /\ AllWithinBudget'
    BY <1>0, <1>4 DEF FreshRows, EveryTxIsLogged, AllWithinBudget, Sweep
  <2>. QED
    BY <2>4, <2>6, <2>7 DEF IInv
<1>5. ASSUME NEW w \in Workers, AppendSubmitted(w)
      PROVE  IInv'
  <2>1. /\ worker[w].pc = "submit" /\ jobs' = Append(jobs, Attempted(w))
        /\ worker' = [worker EXCEPT ![w].pc = "send"]
        /\ UNCHANGED <<enqueuer, sent, now, issued, faults>>
    BY <1>5 DEF AppendSubmitted, MoveTo
  <2>2. Attempted(w) \in Row /\ WithinBudget(Attempted(w))
    BY <1>0, <2>1, WrittenRowsType DEF WithinBudget
  <2>3. \A v \in Workers : worker'[v].due = worker[v].due /\ (v # w => worker'[v].pc = worker[v].pc)
    BY <1>0, <2>1 DEF TypeOK
  <2>4. /\ jobs' \in Seq(Row) /\ AllWithinBudget' /\ EveryTxIsLogged'
        /\ \A v \in Workers : Logged(v) => Logged(v)'
    BY <2>1, <2>2, <2>3, AppendKeepsLedgerFacts
  <2>5. Logged(w)'
    <3>1. \E i \in DOMAIN jobs' : jobs'[i] = Attempted(w)
      BY <1>0, <2>1, <2>2, AppendedRow DEF TypeOK
    <3>. QED
      BY <2>3, <3>1 DEF Logged, Attempted
  <2>6. TypeOK'
    BY <1>0, <2>1, <2>4 DEF TypeOK
  <2>7. InHandLogged'
    BY <1>0, <2>3, <2>4, <2>5 DEF InHandLogged
  <2>8. FreshRows'
    BY <1>0, <2>1 DEF FreshRows
  <2>. QED
    BY <2>4, <2>6, <2>7, <2>8 DEF IInv
<1>6. ASSUME NEW w \in Workers, Broadcast(w)
      PROVE  IInv'
  <2>1. /\ worker[w].pc = "send" /\ sent' = sent \cup {Tx(Attempted(w))}
        /\ worker' = [worker EXCEPT ![w].pc = "receipt"]
        /\ UNCHANGED <<jobs, enqueuer, now, issued, faults>>
    BY <1>6 DEF Broadcast, MoveTo
  <2>2. Attempted(w) \in Row /\ Attempted(w).status = "submitted" /\ Logged(w)
    BY <1>0, <2>1, WrittenRowsType DEF InHandLogged
  <2>3. \A v \in Workers : worker'[v].due = worker[v].due /\ (v # w => worker'[v].pc = worker[v].pc)
    BY <1>0, <2>1 DEF TypeOK
  <2>4. Tx(Attempted(w)) \in [key : Submissions, job : Nat, attempt : Nat]
    BY <2>2 DEF Tx, Row
  <2>5. TypeOK'
    BY <1>0, <2>1, <2>4 DEF TypeOK
  <2>6. EveryTxIsLogged'
    BY <1>0, <2>1, <2>2 DEF EveryTxIsLogged, Logged
  <2>7. InHandLogged'
    BY <1>0, <2>1, <2>2, <2>3 DEF InHandLogged, Logged, Attempted
  <2>8. FreshRows' /\ AllWithinBudget'
    BY <1>0, <2>1 DEF FreshRows, AllWithinBudget
  <2>. QED
    BY <2>5, <2>6, <2>7, <2>8 DEF IInv
<1>7. ASSUME NEW w \in Workers, NEW row \in Row, WithinBudget(row),
             worker[w].pc # "idle", jobs' = Append(jobs, row), Finish(w),
             faults' \in Nat, UNCHANGED <<enqueuer, sent, now, issued>>
      PROVE  IInv'
  <2>1. /\ worker' \in [Workers -> [pc : {"idle", "submit", "send", "receipt"}, due : Seq(Row)]]
        /\ \A v \in Workers : worker'[v].pc = "idle" <=> worker'[v].due = << >>
        /\ worker'[w].pc \in {"idle", "submit"}
        /\ \A v \in Workers : v # w => worker'[v] = worker[v]
    BY <1>0, <1>7, FinishType
  <2>2. /\ jobs' \in Seq(Row) /\ AllWithinBudget' /\ EveryTxIsLogged'
        /\ \A v \in Workers : Logged(v) /\ worker'[v].due = worker[v].due => Logged(v)'
    BY <1>7, AppendKeepsLedgerFacts
  <2>3. TypeOK'
    BY <1>0, <1>7, <2>1, <2>2 DEF TypeOK
  <2>4. InHandLogged'
    BY <1>0, <2>1, <2>2 DEF InHandLogged
  <2>5. FreshRows'
    BY <1>0, <1>7 DEF FreshRows
  <2>. QED
    BY <2>2, <2>3, <2>4, <2>5 DEF IInv
<1>8. ASSUME NEW w \in Workers, AppendConfirmed(w)
      PROVE  IInv'
  <2>1. worker[w].pc # "idle" /\ jobs' = Append(jobs, Confirmed(w)) /\ Finish(w)
        /\ UNCHANGED <<enqueuer, sent, now, issued, faults>>
    BY <1>8 DEF AppendConfirmed
  <2>2. Confirmed(w) \in Row /\ WithinBudget(Confirmed(w))
    BY <1>0, <2>1, WrittenRowsType DEF WithinBudget
  <2>3. faults' \in Nat
    BY <1>0, <2>1 DEF TypeOK
  <2>. QED
    BY <1>7, <2>1, <2>2, <2>3
<1>9. ASSUME NEW w \in Workers, AppendFailure(w)
      PROVE  IInv'
  <2>1. worker[w].pc # "idle" /\ jobs' = Append(jobs, GivenBack(w)) /\ Finish(w)
        /\ UNCHANGED <<enqueuer, sent, now, issued>>
    BY <1>9 DEF AppendFailure
  <2>2. GivenBack(w) \in Row /\ WithinBudget(GivenBack(w))
    BY <1>0, <2>1, WrittenRowsType, MintQueueAssumption DEF WithinBudget, WillRetry
  <2>3. faults' \in Nat
    BY <1>0, <1>9 DEF TypeOK, AppendFailure
  <2>. QED
    BY <1>7, <2>1, <2>2, <2>3
<1>10. ASSUME NEW w \in Workers, SweepAborts(w)
       PROVE  IInv'
  <2>1. TypeOK'
    BY <1>0, <1>10 DEF TypeOK, SweepAborts, Idle
  <2>2. InHandLogged'
    BY <1>0, <1>10 DEF TypeOK, InHandLogged, Logged, Attempted, SweepAborts, Idle
  <2>3. FreshRows' /\ EveryTxIsLogged' /\ AllWithinBudget'
    BY <1>0, <1>10 DEF FreshRows, EveryTxIsLogged, AllWithinBudget, SweepAborts
  <2>. QED
    BY <2>1, <2>2, <2>3 DEF IInv
<1>11. ASSUME Crash PROVE IInv'
  <2>1. TypeOK' /\ FreshRows'
    BY <1>0, <1>11 DEF TypeOK, FreshRows, Crash, Idle
  <2>2. InHandLogged' /\ EveryTxIsLogged' /\ AllWithinBudget'
    BY <1>0, <1>11 DEF InHandLogged, EveryTxIsLogged, AllWithinBudget, Crash, Idle
  <2>. QED
    BY <2>1, <2>2 DEF IInv
<1>12. ASSUME Tick PROVE IInv'
  <2>1. TypeOK' /\ FreshRows'
    BY <1>0, <1>12 DEF TypeOK, FreshRows, Tick
  <2>2. InHandLogged' /\ EveryTxIsLogged' /\ AllWithinBudget'
    BY <1>0, <1>12 DEF InHandLogged, Logged, Attempted, EveryTxIsLogged, AllWithinBudget, Tick
  <2>. QED
    BY <2>1, <2>2 DEF IInv
<1>13. CASE UNCHANGED vars
  BY <1>0, <1>13
     DEF vars, IInv, TypeOK, FreshRows, InHandLogged, Logged, Attempted, EveryTxIsLogged, AllWithinBudget
<1>. QED
  BY <1>1, <1>2, <1>3, <1>4, <1>5, <1>6, <1>8, <1>9, <1>10, <1>11, <1>12, <1>13
     DEF Next, Enqueue, WorkerStep

(***************************************************************************)
(* The results: the type invariant, and no transaction without its         *)
(* "submitted" row written first.                                          *)
(***************************************************************************)
THEOREM InvariantHolds == Spec => []IInv
<1>. QED
  BY InitIInv, NextIInv, PTL DEF Spec

\* The types hold whatever the handlers' interleaving.
THEOREM MintTypeCorrect == Spec => []TypeOK
<1>1. IInv => TypeOK
  BY DEF IInv
<1>. QED
  BY <1>1, InvariantHolds, PTL

\* A transaction on the chain always has its "submitted" row in the ledger, which
\* appendJsonl wrote before sendMintTxWithPolicy was called.
THEOREM EveryTxIsLoggedHolds == Spec => []EveryTxIsLogged
<1>1. IInv => EveryTxIsLogged
  BY DEF IInv
<1>. QED
  BY <1>1, InvariantHolds, PTL

-----------------------------------------------------------------------------
(***************************************************************************)
(* What holds as long as no two sweeps overlap, whatever the approvals do  *)
(* and whatever fails. The code does not see to that, so it is a           *)
(* hypothesis on the behaviour, []SweepsInTurn, which a lock held by the   *)
(* sweep would establish. The jobs a sweep has still to take up are about  *)
(* different submissions, and nobody else writes a row for them that lies  *)
(* in the future: an enqueue call writes the time at which it read the     *)
(* ledger, and time only passes.                                           *)
(***************************************************************************)
SweepsInTurn ==
  \A v, w \in Workers : v # w => worker[v].pc = "idle" \/ worker[w].pc = "idle"

\* While a sweep runs the others hold no job.
LEMMA OthersIdle ==
  ASSUME TypeOK, SweepsInTurn, NEW w \in Workers, worker[w].pc # "idle",
         NEW v \in Workers, v # w
  PROVE  DOMAIN worker[v].due = {}
<1>1. worker[v].due = << >>
  BY DEF TypeOK, SweepsInTurn
<1>. QED
  BY <1>1

\* The i-th job of a sweep is still to be taken up.
Waits(sweep, i) == sweep.pc = "submit" \/ i # 1

DueDistinct ==
  \A w \in Workers : \A i, j \in DOMAIN worker[w].due :
    i # j => worker[w].due[i].key # worker[w].due[j].key

DueKept ==
  \A w \in Workers : \A i \in DOMAIN worker[w].due :
    Waits(worker[w], i) =>
      /\ Has(jobs, worker[w].due[i].key)
      /\ Latest(jobs, worker[w].due[i].key).next <= now

EnqueuedInTime == \A e \in Enqueuers : enqueuer[e] # NoRow => enqueuer[e].next <= now

BackoffInv == IInv /\ DueDistinct /\ DueKept /\ EnqueuedInTime

\* What a sweep takes up: the latest rows of as many submissions.
LEMMA FirstJobsFacts ==
  ASSUME jobs \in Seq(Row), NEW q \in SweepOrders
  PROVE  /\ \A i \in DOMAIN FirstJobs(q) :
              /\ FirstJobs(q)[i].key \in Submissions
              /\ Has(jobs, FirstJobs(q)[i].key)
              /\ Latest(jobs, FirstJobs(q)[i].key) = FirstJobs(q)[i]
              /\ Due(FirstJobs(q)[i])
         /\ \A i, j \in DOMAIN FirstJobs(q) :
              i # j => FirstJobs(q)[i].key # FirstJobs(q)[j].key
<1> DEFINE n == Cardinality(DueJobs)
           m == IF Len(q) < Limit THEN Len(q) ELSE Limit
<1>1. n \in Nat /\ DueJobs \subseteq Row
  BY DueJobsFinite, FS_CardinalityType
<1>2. q \in [1 .. n -> DueJobs] /\ \A i, j \in 1 .. n : i # j => q[i] # q[j]
  BY DEF SweepOrders, SetToSeqs
<1>3. q \in Seq(Row) /\ Len(q) = n
  BY <1>1, <1>2
<1>4. m \in Nat /\ m <= n /\ FirstJobs(q) = SubSeq(q, 1, m)
  BY <1>1, <1>3, MintQueueAssumption DEF FirstJobs
<1> HIDE DEF m, n
<1>5. DOMAIN FirstJobs(q) = 1 .. m /\ \A i \in 1 .. m : i \in 1 .. n /\ FirstJobs(q)[i] = q[i]
  BY <1>1, <1>3, <1>4
<1>6. ASSUME NEW row \in DueJobs
      PROVE  /\ row.key \in Submissions /\ Has(jobs, row.key)
             /\ Latest(jobs, row.key) = row /\ Due(row)
  <2>1. PICK s \in Keys(jobs) : row = Latest(jobs, s) /\ Due(Latest(jobs, s))
    BY DEF DueJobs
  <2>2. Has(jobs, s)
    BY <2>1, LatestIndexProperties, LenProperties DEF Has, Keys
  <2>3. Latest(jobs, s) \in Row /\ Latest(jobs, s).key = s
    BY <2>2, LatestInRows
  <2>. QED
    BY <2>1, <2>2, <2>3 DEF Row
<1>7. \A i \in 1 .. m : FirstJobs(q)[i] \in DueJobs
  BY <1>2, <1>5
<1>8. ASSUME NEW i \in 1 .. m, NEW j \in 1 .. m, i # j
      PROVE  FirstJobs(q)[i].key # FirstJobs(q)[j].key
  <2>1. FirstJobs(q)[i] # FirstJobs(q)[j]
    BY <1>2, <1>5, <1>8
  <2>2. /\ Latest(jobs, FirstJobs(q)[i].key) = FirstJobs(q)[i]
        /\ Latest(jobs, FirstJobs(q)[j].key) = FirstJobs(q)[j]
    BY <1>6, <1>7
  <2>. QED
    BY <2>1, <2>2
<1>. QED
  BY <1>5, <1>6, <1>7, <1>8

\* Taking up a list of jobs, or none.
LEMMA NextJobFacts ==
  ASSUME NEW due
  PROVE  NextJob(due).due = due /\ (due # << >> => NextJob(due).pc = "submit")
<1>. QED
  BY DEF NextJob, Idle

\* A sweep that is done with its job keeps the others, in their order.
LEMMA FinishedDue ==
  ASSUME TypeOK, NEW w \in Workers, worker[w].pc # "idle", Finish(w)
  PROVE  /\ worker'[w].due = Tail(worker[w].due)
         /\ 1 \in DOMAIN worker[w].due /\ Head(worker[w].due) = worker[w].due[1]
         /\ \A i \in DOMAIN worker'[w].due :
              /\ i \in Nat \ {0} /\ i + 1 \in DOMAIN worker[w].due /\ i + 1 # 1
              /\ worker'[w].due[i] = worker[w].due[i + 1]
              /\ Waits(worker[w], i + 1)
<1>1. worker[w].due \in Seq(Row) /\ worker[w].due # << >>
  BY DEF TypeOK
<1>2. worker'[w] = NextJob(Tail(worker[w].due))
  BY DEF Finish, TypeOK
<1>3. worker'[w].due = Tail(worker[w].due)
  BY <1>2, NextJobFacts
<1> DEFINE due == worker[w].due
<1>4. due \in Seq(Row) /\ due # << >>
  BY <1>1
<1> HIDE DEF due
<1>5. /\ 1 \in DOMAIN due /\ Head(due) = due[1]
      /\ \A i \in DOMAIN Tail(due) : /\ i \in Nat \ {0} /\ i + 1 \in DOMAIN due /\ i + 1 # 1
                                     /\ Tail(due)[i] = due[i + 1]
  BY <1>4
<1>. QED
  BY <1>3, <1>5 DEF due, Waits

LEMMA InitBackoff == Init => BackoffInv
<1> SUFFICES ASSUME Init PROVE BackoffInv
  OBVIOUS
<1>1. \A w \in Workers : DOMAIN worker[w].due = {}
  BY DEF Init, Idle
<1>2. \A e \in Enqueuers : enqueuer[e] = NoRow
  BY DEF Init
<1>. QED
  BY <1>1, <1>2, InitIInv DEF BackoffInv, DueDistinct, DueKept, EnqueuedInTime

LEMMA NextBackoff ==
  ASSUME SweepsInTurn, BackoffInv, [Next]_vars
  PROVE  BackoffInv'
<1>0. /\ IInv /\ TypeOK /\ FreshRows /\ DueDistinct /\ DueKept /\ EnqueuedInTime
      /\ jobs \in Seq(Row) /\ now \in Nat
  BY DEF BackoffInv, IInv, TypeOK
<1>i. IInv'
  BY <1>0, NextIInv
<1>1. ASSUME NEW e \in Enqueuers, NEW s \in Submissions, NEW readable \in BOOLEAN,
             EnqueueRead(e, s, readable)
      PROVE  BackoffInv'
  <2>1. /\ enqueuer' = [enqueuer EXCEPT ![e] = NewJob(s)] /\ NewJob(s).next = now
        /\ UNCHANGED <<jobs, worker, sent, now>>
    BY <1>1 DEF EnqueueRead, NewJob
  <2>2. EnqueuedInTime'
    BY <1>0, <2>1 DEF EnqueuedInTime, TypeOK
  <2>3. DueDistinct' /\ DueKept'
    BY <1>0, <2>1 DEF DueDistinct, DueKept, Waits
  <2>. QED
    BY <1>i, <2>2, <2>3 DEF BackoffInv
<1>2. ASSUME NEW e \in Enqueuers, EnqueueAppend(e)
      PROVE  BackoffInv'
  <2>1. /\ enqueuer[e] \in Row /\ enqueuer[e].next <= now
        /\ jobs' = Append(jobs, enqueuer[e])
        /\ enqueuer' = [enqueuer EXCEPT ![e] = NoRow]
        /\ UNCHANGED <<worker, sent, now, issued, faults>>
    BY <1>0, <1>2 DEF EnqueueAppend, FreshRows, EnqueuedInTime
  <2>2. DueKept'
    <3> SUFFICES ASSUME NEW w \in Workers, NEW i \in DOMAIN worker[w].due, Waits(worker[w], i)
                 PROVE  /\ Has(jobs', worker[w].due[i].key)
                        /\ Latest(jobs', worker[w].due[i].key).next <= now
      BY <2>1 DEF DueKept, Waits
    <3>1. /\ Has(jobs, worker[w].due[i].key)
          /\ Latest(jobs, worker[w].due[i].key).next <= now
      BY <1>0 DEF DueKept
    <3>. QED
      BY <1>0, <2>1, <3>1, LatestAppend
  <2>3. DueDistinct' /\ EnqueuedInTime'
    BY <1>0, <2>1 DEF DueDistinct, EnqueuedInTime, TypeOK
  <2>. QED
    BY <1>i, <2>2, <2>3 DEF BackoffInv
<1>3. ASSUME NEW e \in Enqueuers, EnqueueThrows(e)
      PROVE  BackoffInv'
  BY <1>0, <1>i, <1>3
     DEF EnqueueThrows, BackoffInv, DueDistinct, DueKept, Waits, EnqueuedInTime, TypeOK
<1>4. ASSUME NEW w \in Workers, Sweep(w)
      PROVE  BackoffInv'
  <2>1. PICK q \in SweepOrders : worker' = [worker EXCEPT ![w] = NextJob(FirstJobs(q))]
    BY <1>4 DEF Sweep
  <2>2. worker'[w].due = FirstJobs(q) /\ \A v \in Workers : v # w => worker'[v] = worker[v]
    BY <1>0, <2>1, NextJobFacts DEF TypeOK
  <2>3. UNCHANGED <<jobs, enqueuer, sent, now, issued, faults>>
    BY <1>4 DEF Sweep
  <2>4. ASSUME NEW v \in Workers, NEW i \in DOMAIN worker'[v].due
        PROVE  /\ Waits(worker'[v], i) =>
                    /\ Has(jobs, worker'[v].due[i].key)
                    /\ Latest(jobs, worker'[v].due[i].key).next <= now
               /\ \A j \in DOMAIN worker'[v].due :
                    i # j => worker'[v].due[i].key # worker'[v].due[j].key
    <3>1. CASE v = w
      BY <1>0, <2>2, <2>4, <3>1, FirstJobsFacts DEF Due
    <3>2. CASE v # w
      BY <1>0, <2>2, <2>4, <3>2 DEF DueDistinct, DueKept
    <3>. QED
      BY <3>1, <3>2
  <2>5. EnqueuedInTime'
    BY <1>0, <2>3 DEF EnqueuedInTime
  <2>. QED
    BY <1>i, <2>3, <2>4, <2>5 DEF BackoffInv, DueDistinct, DueKept
<1>5. ASSUME NEW w \in Workers, AppendSubmitted(w)
      PROVE  BackoffInv'
  <2>1. /\ worker[w].pc = "submit" /\ jobs' = Append(jobs, Attempted(w))
        /\ worker' = [worker EXCEPT ![w].pc = "send"]
        /\ UNCHANGED <<enqueuer, sent, now, issued, faults>>
    BY <1>5 DEF AppendSubmitted, MoveTo
  <2>2. Attempted(w) \in Row /\ Attempted(w).key = Head(worker[w].due).key
    BY <1>0, <2>1, WrittenRowsType DEF Attempted, Patch
  <2>3. 1 \in DOMAIN worker[w].due /\ Head(worker[w].due) = worker[w].due[1]
    BY <1>0, <2>1 DEF TypeOK
  <2>4. /\ worker'[w].due = worker[w].due /\ worker'[w].pc = "send"
        /\ \A v \in Workers : v # w => DOMAIN worker'[v].due = {}
    BY <1>0, <2>1, OthersIdle DEF TypeOK
  <2>5. DueKept'
    <3> SUFFICES ASSUME NEW i \in DOMAIN worker[w].due, i # 1
                 PROVE  /\ Has(jobs', worker[w].due[i].key)
                        /\ Latest(jobs', worker[w].due[i].key).next <= now
      BY <2>1, <2>4 DEF DueKept, Waits
    <3>1. worker[w].due[i].key # Attempted(w).key
      BY <1>0, <2>2, <2>3 DEF DueDistinct
    <3>2. /\ Has(jobs, worker[w].due[i].key)
          /\ Latest(jobs, worker[w].due[i].key).next <= now
      BY <1>0, <2>1 DEF DueKept, Waits
    <3>. QED
      BY <1>0, <2>1, <2>2, <3>1, <3>2, LatestAppend
  <2>6. DueDistinct' /\ EnqueuedInTime'
    BY <1>0, <2>1, <2>4 DEF DueDistinct, EnqueuedInTime
  <2>. QED
    BY <1>i, <2>5, <2>6 DEF BackoffInv
<1>6. ASSUME NEW w \in Workers, Broadcast(w)
      PROVE  BackoffInv'
  <2>1. /\ worker[w].pc = "send" /\ worker' = [worker EXCEPT ![w].pc = "receipt"]
        /\ UNCHANGED <<jobs, enqueuer, now, issued, faults>>
    BY <1>6 DEF Broadcast, MoveTo
  <2>2. \A v \in Workers : /\ worker'[v].due = worker[v].due
                           /\ v = w => worker'[v].pc = "receipt" /\ worker[v].pc = "send"
                           /\ v # w => worker'[v] = worker[v]
    BY <1>0, <2>1 DEF TypeOK
  <2>. QED
    BY <1>0, <1>i, <2>1, <2>2 DEF BackoffInv, DueDistinct, DueKept, Waits, EnqueuedInTime
<1>7. ASSUME NEW w \in Workers, NEW row \in Row, row.key = Head(worker[w].due).key,
             worker[w].pc # "idle", jobs' = Append(jobs, row), Finish(w),
             UNCHANGED <<enqueuer, sent, now, issued>>
      PROVE  BackoffInv'
  <2>1. /\ 1 \in DOMAIN worker[w].due /\ row.key = worker[w].due[1].key
        /\ \A i \in DOMAIN worker'[w].due :
             /\ i \in Nat /\ i + 1 \in DOMAIN worker[w].due /\ i + 1 # 1
             /\ worker'[w].due[i] = worker[w].due[i + 1] /\ Waits(worker[w], i + 1)
    BY <1>0, <1>7, FinishedDue
  <2>2. \A v \in Workers : v # w => DOMAIN worker'[v].due = {}
    BY <1>0, <1>7, OthersIdle DEF Finish, TypeOK
  <2>3. DueKept'
    <3> SUFFICES ASSUME NEW i \in DOMAIN worker'[w].due
                 PROVE  /\ Has(jobs', worker'[w].due[i].key)
                        /\ Latest(jobs', worker'[w].due[i].key).next <= now
      BY <1>7, <2>2 DEF DueKept
    <3>1. worker'[w].due[i].key # row.key
      BY <1>0, <2>1 DEF DueDistinct
    <3>2. /\ Has(jobs, worker'[w].due[i].key)
          /\ Latest(jobs, worker'[w].due[i].key).next <= now
      BY <1>0, <2>1 DEF DueKept
    <3>. QED
      BY <1>0, <1>7, <3>1, <3>2, LatestAppend
  <2>4. DueDistinct'
    <3> SUFFICES ASSUME NEW i \in DOMAIN worker'[w].due, NEW j \in DOMAIN worker'[w].due, i # j
                 PROVE  worker'[w].due[i].key # worker'[w].due[j].key
      BY <2>2 DEF DueDistinct
    <3>1. i + 1 # j + 1
      BY <2>1
    <3>. QED
      BY <1>0, <2>1, <3>1 DEF DueDistinct
  <2>5. EnqueuedInTime'
    BY <1>0, <1>7 DEF EnqueuedInTime
  <2>. QED
    BY <1>i, <2>3, <2>4, <2>5 DEF BackoffInv
<1>8. ASSUME NEW w \in Workers, AppendConfirmed(w) \/ AppendFailure(w)
      PROVE  BackoffInv'
  <2>1. PICK row \in {Confirmed(w), GivenBack(w)} :
          worker[w].pc # "idle" /\ jobs' = Append(jobs, row) /\ Finish(w)
          /\ UNCHANGED <<enqueuer, sent, now, issued>>
    BY <1>8 DEF AppendConfirmed, AppendFailure
  <2>2. row \in Row
    BY <1>0, <2>1, WrittenRowsType
  <2>3. row.key = Head(worker[w].due).key
    BY <2>1 DEF Confirmed, GivenBack, Attempted, Patch
  <2>. QED
    BY <1>7, <2>1, <2>2, <2>3
<1>9. ASSUME NEW w \in Workers, SweepAborts(w)
      PROVE  BackoffInv'
  <2>1. \A v \in Workers : DOMAIN worker'[v].due = {}
    BY <1>0, <1>9, OthersIdle DEF SweepAborts, TypeOK, Idle
  <2>. QED
    BY <1>0, <1>i, <1>9, <2>1 DEF SweepAborts, BackoffInv, DueDistinct, DueKept, EnqueuedInTime
<1>10. ASSUME Crash PROVE BackoffInv'
  <2>1. \A v \in Workers : DOMAIN worker'[v].due = {}
    BY <1>10 DEF Crash, Idle
  <2>. QED
    BY <1>i, <1>10, <2>1 DEF Crash, BackoffInv, DueDistinct, DueKept, EnqueuedInTime
<1>11. ASSUME Tick PROVE BackoffInv'
  <2>1. now' = now + 1 /\ UNCHANGED <<jobs, enqueuer, worker>>
    BY <1>11 DEF Tick
  <2>2. DueKept'
    <3> SUFFICES ASSUME NEW w \in Workers, NEW i \in DOMAIN worker[w].due, Waits(worker[w], i)
                 PROVE  /\ Has(jobs, worker[w].due[i].key)
                        /\ Latest(jobs, worker[w].due[i].key).next <= now + 1
      BY <2>1 DEF DueKept, Waits
    <3>1. /\ Has(jobs, worker[w].due[i].key)
          /\ Latest(jobs, worker[w].due[i].key).next <= now
      BY <1>0 DEF DueKept
    <3>2. Latest(jobs, worker[w].due[i].key) \in Row
      BY <1>0, <3>1, LatestInRows
    <3>3. Latest(jobs, worker[w].due[i].key).next \in Nat
      BY <3>2 DEF Row
    <3>. QED
      BY <1>0, <3>1, <3>3
  <2>3. EnqueuedInTime'
    <3>1. \A e \in Enqueuers : enqueuer[e] # NoRow => enqueuer[e].next \in Nat
      BY <1>0 DEF FreshRows, Row
    <3>. QED
      BY <1>0, <2>1, <3>1 DEF EnqueuedInTime
  <2>. QED
    BY <1>0, <1>i, <2>1, <2>2, <2>3 DEF BackoffInv, DueDistinct
<1>12. CASE UNCHANGED vars
  BY <1>0, <1>i, <1>12 DEF vars, BackoffInv, DueDistinct, DueKept, Waits, EnqueuedInTime
<1>. QED
  BY <1>1, <1>2, <1>3, <1>4, <1>5, <1>6, <1>8, <1>9, <1>10, <1>11, <1>12
     DEF Next, Enqueue, WorkerStep

\* Only the row of an attempt can make "submitted" the latest status.
LEMMA StepHonoursBackoff ==
  ASSUME BackoffInv, Next, NEW s \in Submissions,
         Has(jobs, s), Latest(jobs', s) # Latest(jobs, s), Latest(jobs', s).status = "submitted"
  PROVE  Latest(jobs, s).next <= now
<1>0. /\ IInv /\ TypeOK /\ FreshRows /\ DueKept /\ jobs \in Seq(Row)
  BY DEF BackoffInv, IInv, TypeOK
<1>1. jobs' # jobs
  OBVIOUS
<1>2. ASSUME NEW row \in Row, jobs' = Append(jobs, row)
      PROVE  s = row.key /\ row.status = "submitted"
  <2>1. s = row.key
    BY <1>0, <1>2, LatestAppend
  <2>2. Latest(jobs', s) = row
    BY <1>0, <1>2, <2>1, LatestAppend
  <2>. QED
    BY <2>1, <2>2
<1>3. ASSUME NEW e \in Enqueuers, EnqueueAppend(e) PROVE FALSE
  <2>1. enqueuer[e] \in Row /\ enqueuer[e].status = "queued" /\ jobs' = Append(jobs, enqueuer[e])
    BY <1>0, <1>3 DEF EnqueueAppend, FreshRows
  <2>. QED
    BY <1>2, <2>1
<1>4. ASSUME NEW w \in Workers, AppendConfirmed(w) \/ AppendFailure(w) PROVE FALSE
  <2>1. PICK row \in {Confirmed(w), GivenBack(w)} :
          worker[w].pc # "idle" /\ jobs' = Append(jobs, row)
    BY <1>4 DEF AppendConfirmed, AppendFailure
  <2>2. row \in Row /\ row.status # "submitted"
    BY <1>0, <2>1, WrittenRowsType
  <2>. QED
    BY <1>2, <2>1, <2>2
<1>5. ASSUME NEW w \in Workers, AppendSubmitted(w) PROVE Latest(jobs, s).next <= now
  <2>1. worker[w].pc = "submit" /\ jobs' = Append(jobs, Attempted(w))
    BY <1>5 DEF AppendSubmitted
  <2>2. Attempted(w) \in Row /\ Attempted(w).key = Head(worker[w].due).key
    BY <1>0, <2>1, WrittenRowsType DEF Attempted, Patch
  <2>3. 1 \in DOMAIN worker[w].due /\ Head(worker[w].due) = worker[w].due[1]
    BY <1>0, <2>1 DEF TypeOK
  <2>4. s = worker[w].due[1].key
    BY <1>2, <2>1, <2>2, <2>3
  <2>. QED
    BY <1>0, <2>1, <2>3, <2>4 DEF DueKept, Waits
<1>. QED
  BY <1>1, <1>3, <1>4, <1>5
     DEF Next, Enqueue, WorkerStep, EnqueueRead, EnqueueThrows, Sweep, Broadcast, SweepAborts,
         Crash, Tick

THEOREM BackoffInvHolds == Spec /\ []SweepsInTurn => []BackoffInv
<1>1. SweepsInTurn /\ BackoffInv /\ [Next]_vars => BackoffInv'
  BY NextBackoff
<1>. QED
  BY <1>1, InitBackoff, PTL DEF Spec

\* When no two sweeps overlap, with any number of approvals, crashes and file
\* errors, an attempt starts only when the row it follows was due. processDueMintJobs picks
\* its jobs long before it submits them, and nothing in between moves their time.
THEOREM BackoffHonouredHolds == Spec /\ []SweepsInTurn => BackoffHonoured
<1>1. BackoffInv /\ [Next]_vars =>
        [\A s \in Submissions :
           /\ Has(jobs, s) /\ Latest(jobs', s) # Latest(jobs, s)
           /\ Latest(jobs', s).status = "submitted"
           => Latest(jobs, s).next <= now]_vars
  BY StepHonoursBackoff
<1>. QED
  BY <1>1, BackoffInvHolds, PTL DEF Spec, BackoffHonoured

-----------------------------------------------------------------------------
(***************************************************************************)
(* The retry budget, as long as no two sweeps overlap. The attempts of a   *)
(* job carry different numbers, none beyond MaxAttempts + faults:          *)
(*   - whoever takes up a job, the ledger shows no attempt of it with a    *)
(*     greater number than the row taken up, so the next number is new;    *)
(*   - a row with that last number is latest only while its attempt is     *)
(*     under way. If it is cut short there is one fault more.              *)
(* An approval does not interfere: its job has an identity of its own.     *)
(***************************************************************************)
SameJob(r, t) == r.key = t.key /\ r.job = t.job

\* The attempts that rows record of r's job are numbered at most n.
NumberedTo(rows, r, n) ==
  \A i \in DOMAIN rows :
    rows[i].status = "submitted" /\ SameJob(rows[i], r) => rows[i].attempt <= n

LatestNumber ==
  \A s \in Submissions :
    Has(jobs, s) => NumberedTo(jobs, Latest(jobs, s), Latest(jobs, s).attempt)

DueNumber ==
  \A w \in Workers : \A i \in DOMAIN worker[w].due :
    NumberedTo(jobs, worker[w].due[i],
               worker[w].due[i].attempt + (IF Waits(worker[w], i) THEN 0 ELSE 1))

NumbersDiffer ==
  \A i, j \in DOMAIN jobs :
    /\ i # j /\ SameJob(jobs[i], jobs[j])
    /\ jobs[i].status = "submitted" /\ jobs[j].status = "submitted"
    => jobs[i].attempt # jobs[j].attempt

\* No job but the enqueue call's own has its row's identity.
Issued ==
  /\ \A i \in DOMAIN jobs : jobs[i].job <= issued
  /\ \A w \in Workers : \A i \in DOMAIN worker[w].due : worker[w].due[i].job <= issued
  /\ \A e \in Enqueuers : enqueuer[e] # NoRow => enqueuer[e].job <= issued

FreshJobs ==
  \A e \in Enqueuers : enqueuer[e] # NoRow =>
    /\ \A i \in DOMAIN jobs : jobs[i].job # enqueuer[e].job
    /\ \A w \in Workers : \A i \in DOMAIN worker[w].due : worker[w].due[i].job # enqueuer[e].job
    /\ \A f \in Enqueuers : f # e /\ enqueuer[f] # NoRow => enqueuer[f].job # enqueuer[e].job

NumberCap ==
  \A i \in DOMAIN jobs :
    jobs[i].status = "submitted" => jobs[i].attempt \in 1 .. (MaxAttempts + faults)

DueCap ==
  \A w \in Workers : \A i \in DOMAIN worker[w].due :
    worker[w].due[i].attempt < MaxAttempts + faults

LastUnderWay ==
  \A s \in Submissions :
    /\ Has(jobs, s) /\ Latest(jobs, s).status = "submitted"
    /\ Latest(jobs, s).attempt >= MaxAttempts + faults
    => \E w \in Workers : worker[w].pc \in {"send", "receipt"} /\ worker[w].due[1].key = s

Numbered == LatestNumber /\ DueNumber /\ NumbersDiffer
Fresh == Issued /\ FreshJobs
Capped == NumberCap /\ DueCap /\ LastUnderWay

BudgetInv == BackoffInv /\ Numbered /\ Fresh /\ Capped

LEMMA BudgetTypes ==
  ASSUME TypeOK
  PROVE  /\ \A i \in DOMAIN jobs : jobs[i] \in Row /\ jobs[i].attempt \in Nat /\ jobs[i].job \in Nat
         /\ \A w \in Workers : \A i \in DOMAIN worker[w].due :
              /\ worker[w].due[i] \in Row
              /\ worker[w].due[i].attempt \in Nat /\ worker[w].due[i].job \in Nat
         /\ MaxAttempts \in Nat \ {0} /\ faults \in Nat /\ issued \in Nat
<1>1. \A r \in Row : r.attempt \in Nat /\ r.job \in Nat
  BY DEF Row
<1>2. \A i \in DOMAIN jobs : jobs[i] \in Row
  BY DEF TypeOK
<1>3. \A w \in Workers : worker[w].due \in Seq(Row)
  BY DEF TypeOK
<1>4. ASSUME NEW q \in Seq(Row), NEW i \in DOMAIN q PROVE q[i] \in Row
  OBVIOUS
<1>. QED
  BY <1>1, <1>2, <1>3, <1>4, MintQueueAssumption DEF TypeOK

LEMMA LatestAttempt ==
  ASSUME jobs \in Seq(Row), NEW s, Has(jobs, s)
  PROVE  Latest(jobs, s).attempt \in Nat
<1>1. Latest(jobs, s) \in Row
  BY LatestInRows
<1>. QED
  BY <1>1 DEF Row

\* Appending a row that is no attempt of r's job, or one numbered at most n.
LEMMA NumberedAppend ==
  ASSUME jobs \in Seq(Row), NEW row \in Row, jobs' = Append(jobs, row),
         NEW r, NEW n, NumberedTo(jobs, r, n),
         row.status = "submitted" /\ SameJob(row, r) => row.attempt <= n
  PROVE  NumberedTo(jobs', r, n)
<1>. QED
  BY AppendedRow DEF NumberedTo

LEMMA LatestNumberAppend ==
  ASSUME jobs \in Seq(Row), NEW row \in Row, jobs' = Append(jobs, row),
         LatestNumber, NumberedTo(jobs, row, row.attempt)
  PROVE  LatestNumber'
<1> SUFFICES ASSUME NEW s \in Submissions, Has(jobs', s)
             PROVE  NumberedTo(jobs', Latest(jobs', s), Latest(jobs', s).attempt)
  BY DEF LatestNumber
<1>1. CASE s = row.key
  <2>1. Latest(jobs', s) = row
    BY <1>1, LatestAppend
  <2>2. row.attempt <= row.attempt
    BY DEF Row
  <2>3. NumberedTo(jobs', row, row.attempt)
    BY <2>2, NumberedAppend
  <2>. QED
    BY <2>1, <2>3
<1>2. CASE s # row.key
  <2>1. Has(jobs, s) /\ Latest(jobs', s) = Latest(jobs, s)
    BY <1>2, LatestAppend
  <2>2. Latest(jobs, s).key = s
    BY <2>1, LatestInRows
  <2>3. ~SameJob(row, Latest(jobs, s))
    BY <1>2, <2>2 DEF SameJob
  <2>4. NumberedTo(jobs, Latest(jobs, s), Latest(jobs, s).attempt)
    BY <2>1 DEF LatestNumber
  <2>5. NumberedTo(jobs', Latest(jobs, s), Latest(jobs, s).attempt)
    BY <2>3, <2>4, NumberedAppend
  <2>. QED
    BY <2>1, <2>5
<1>. QED
  BY <1>1, <1>2

LEMMA NumbersDifferAppend ==
  ASSUME jobs \in Seq(Row), NEW row \in Row, jobs' = Append(jobs, row), NumbersDiffer,
         row.status = "submitted" => NumberedTo(jobs, row, row.attempt - 1)
  PROVE  NumbersDiffer'
<1>1. /\ DOMAIN jobs \subseteq DOMAIN jobs'
      /\ \A i \in DOMAIN jobs : jobs'[i] = jobs[i]
      /\ \A i \in DOMAIN jobs' : i \in DOMAIN jobs \/ i = Len(jobs) + 1
      /\ jobs'[Len(jobs) + 1] = row
  BY AppendProperties, LenProperties
<1>2. \A i \in DOMAIN jobs : jobs[i].attempt \in Nat
  <2>1. \A i \in DOMAIN jobs : jobs[i] \in Row
    OBVIOUS
  <2>. QED
    BY <2>1 DEF Row
<1>3. row.attempt \in Nat
  BY DEF Row
<1>4. ASSUME NEW i \in DOMAIN jobs, row.status = "submitted", jobs[i].status = "submitted",
             SameJob(jobs[i], row)
      PROVE  jobs[i].attempt # row.attempt
  BY <1>2, <1>3, <1>4 DEF NumberedTo
<1> SUFFICES ASSUME NEW i \in DOMAIN jobs', NEW j \in DOMAIN jobs', i # j,
                    SameJob(jobs'[i], jobs'[j]),
                    jobs'[i].status = "submitted", jobs'[j].status = "submitted"
             PROVE  jobs'[i].attempt # jobs'[j].attempt
  BY DEF NumbersDiffer
<1>5. CASE i \in DOMAIN jobs /\ j \in DOMAIN jobs
  BY <1>1, <1>5 DEF NumbersDiffer
<1>6. CASE i \in DOMAIN jobs /\ j = Len(jobs) + 1
  BY <1>1, <1>4, <1>6
<1>7. CASE j \in DOMAIN jobs /\ i = Len(jobs) + 1
  BY <1>1, <1>4, <1>7 DEF SameJob
<1>. QED
  BY <1>1, <1>5, <1>6, <1>7

LEMMA InitBudget == Init => BudgetInv
<1> SUFFICES ASSUME Init PROVE BudgetInv
  OBVIOUS
<1>1. \A w \in Workers : DOMAIN worker[w].due = {}
  BY DEF Init, Idle
<1>2. (\A e \in Enqueuers : enqueuer[e] = NoRow) /\ DOMAIN jobs = {}
  BY DEF Init
<1>3. \A s \in Submissions : ~Has(jobs, s)
  <2>1. jobs \in Seq(Row) /\ Len(jobs) = 0
    BY DEF Init
  <2>2. \A j \in 1 .. Len(jobs), s \in Submissions : jobs[j].key # s
    BY <2>1
  <2>. QED
    BY <2>1, <2>2, LatestIndexNone DEF Has
<1>. QED
  BY <1>1, <1>2, <1>3, InitBackoff
     DEF BudgetInv, Numbered, LatestNumber, DueNumber, NumbersDiffer, Fresh, Issued, FreshJobs,
         Capped, NumberCap, DueCap, LastUnderWay

\* A step that only loses work, and so is a fault, leaves no attempt under way.
LEMMA CutShort ==
  ASSUME BudgetInv, BackoffInv', UNCHANGED <<jobs, issued>>, faults' = faults + 1,
         \A w \in Workers : DOMAIN worker'[w].due = {},
         \A e \in Enqueuers : enqueuer'[e] \in {enqueuer[e], NoRow}
  PROVE  BudgetInv'
<1>0. TypeOK
  BY DEF BudgetInv, BackoffInv, IInv
<1>1. Numbered' /\ Fresh'
  BY DEF BudgetInv, Numbered, LatestNumber, DueNumber, NumbersDiffer, Fresh, Issued, FreshJobs
<1>2. NumberCap' /\ DueCap'
  BY <1>0, BudgetTypes DEF BudgetInv, Capped, NumberCap, DueCap
<1>3. LastUnderWay'
  <2>1. \A s \in Submissions : Has(jobs, s) => \E i \in DOMAIN jobs : Latest(jobs, s) = jobs[i]
    BY <1>0, LatestIndexProperties DEF Has, Latest, TypeOK
  <2>2. \A s \in Submissions : Has(jobs, s) /\ Latest(jobs, s).status = "submitted"
                                 => ~(Latest(jobs, s).attempt >= MaxAttempts + (faults + 1))
    BY <1>0, <2>1, BudgetTypes DEF BudgetInv, Capped, NumberCap
  <2>. QED
    BY <2>2 DEF LastUnderWay
<1>. QED
  BY <1>1, <1>2, <1>3 DEF BudgetInv, Capped

\* The rows a sweep writes for the job in hand carry its identity and the next number.
LEMMA HandNumbers ==
  ASSUME TypeOK, NEW w \in Workers, worker[w].pc # "idle",
         NEW row \in {Attempted(w), Confirmed(w), GivenBack(w)}
  PROVE  /\ row \in Row /\ 1 \in DOMAIN worker[w].due
         /\ SameJob(row, worker[w].due[1])
         /\ row.attempt = worker[w].due[1].attempt + 1
         /\ row.status = "submitted" => row = Attempted(w)
<1>1. 1 \in DOMAIN worker[w].due /\ Head(worker[w].due) = worker[w].due[1]
  BY DEF TypeOK
<1>2. /\ Attempted(w) \in Row /\ Confirmed(w) \in Row /\ GivenBack(w) \in Row
      /\ Confirmed(w).status # "submitted" /\ GivenBack(w).status # "submitted"
  BY WrittenRowsType
<1>3. /\ SameJob(Attempted(w), worker[w].due[1])
      /\ Attempted(w).attempt = worker[w].due[1].attempt + 1
  BY <1>1 DEF Attempted, Patch, SameJob
<1>4. /\ SameJob(Confirmed(w), Attempted(w)) /\ SameJob(GivenBack(w), Attempted(w))
      /\ Confirmed(w).attempt = Attempted(w).attempt /\ GivenBack(w).attempt = Attempted(w).attempt
  BY DEF Confirmed, GivenBack, Patch, SameJob
<1>. QED
  BY <1>1, <1>2, <1>3, <1>4 DEF SameJob

LEMMA NextBudget ==
  ASSUME SweepsInTurn, SweepsInTurn', BudgetInv, [Next]_vars
  PROVE  BudgetInv'
<1>0. /\ BackoffInv /\ TypeOK /\ FreshRows /\ DueDistinct /\ AllWithinBudget /\ jobs \in Seq(Row)
      /\ LatestNumber /\ DueNumber /\ NumbersDiffer /\ Issued /\ FreshJobs
      /\ NumberCap /\ DueCap /\ LastUnderWay
  BY DEF BudgetInv, BackoffInv, IInv, TypeOK, Numbered, Fresh, Capped
<1>i. BackoffInv'
  BY <1>0, NextBackoff
<1>1. ASSUME NEW e \in Enqueuers, NEW s \in Submissions, NEW readable \in BOOLEAN,
             EnqueueRead(e, s, readable)
      PROVE  BudgetInv'
  <2>1. /\ enqueuer' = [enqueuer EXCEPT ![e] = NewJob(s)] /\ NewJob(s).job = issued + 1
        /\ enqueuer[e] = NoRow /\ UNCHANGED <<jobs, worker>>
        /\ issued' = issued + 1 /\ faults' \in {faults, faults + 1}
    BY <1>1 DEF EnqueueRead, NewJob
  <2>2. /\ enqueuer'[e].job = issued + 1
        /\ \A f \in Enqueuers : f # e => enqueuer'[f] = enqueuer[f]
    BY <1>0, <2>1 DEF TypeOK
  <2>3. \A f \in Enqueuers : enqueuer[f] # NoRow => enqueuer[f].job \in Nat
    BY <1>0 DEF FreshRows, Row
  <2>4. Issued'
    BY <1>0, <2>1, <2>2, <2>3, BudgetTypes DEF Issued
  <2>5. FreshJobs'
    BY <1>0, <2>1, <2>2, <2>3, BudgetTypes DEF Issued, FreshJobs
  <2>6. Numbered'
    BY <1>0, <2>1 DEF Numbered, LatestNumber, DueNumber, NumbersDiffer, Waits
  <2>7. NumberCap' /\ DueCap'
    BY <1>0, <2>1, BudgetTypes DEF NumberCap, DueCap
  <2>8. LastUnderWay'
    <3>1. \A s1 \in Submissions : Has(jobs, s1) => Latest(jobs, s1).attempt \in Nat
      BY <1>0, LatestAttempt
    <3>2. \A s1 \in Submissions :
            Has(jobs, s1) /\ Latest(jobs, s1).attempt >= MaxAttempts + faults'
              => Latest(jobs, s1).attempt >= MaxAttempts + faults
      BY <1>0, <2>1, <3>1, BudgetTypes
    <3>. QED
      BY <1>0, <2>1, <3>2 DEF LastUnderWay
  <2>. QED
    BY <1>i, <2>4, <2>5, <2>6, <2>7, <2>8 DEF BudgetInv, Fresh, Capped
<1>2. ASSUME NEW e \in Enqueuers, EnqueueAppend(e)
      PROVE  BudgetInv'
  <2> DEFINE row == enqueuer[e]
  <2>1. /\ row \in Row /\ row.status = "queued" /\ jobs' = Append(jobs, row)
        /\ row # NoRow /\ enqueuer' = [enqueuer EXCEPT ![e] = NoRow]
        /\ UNCHANGED <<worker, issued, faults>>
    BY <1>0, <1>2 DEF EnqueueAppend, FreshRows
  <2>2. \A f \in Enqueuers : enqueuer'[f] # NoRow => f # e /\ enqueuer'[f] = enqueuer[f]
    BY <1>0, <2>1 DEF TypeOK
  <2>3. /\ \A i \in DOMAIN jobs : jobs[i].job # row.job
        /\ row.job <= issued
        /\ \A f \in Enqueuers : f # e /\ enqueuer[f] # NoRow => enqueuer[f].job # row.job
    BY <1>0, <2>1 DEF FreshJobs, Issued
  <2> HIDE DEF row
  <2>4. \A i \in DOMAIN jobs' : jobs'[i] = row \/ (i \in DOMAIN jobs /\ jobs'[i] = jobs[i])
    BY <1>0, <2>1, AppendedRow
  <2>5. NumberedTo(jobs, row, row.attempt)
    BY <2>3 DEF NumberedTo, SameJob
  <2>6. LatestNumber' /\ NumbersDiffer'
    BY <1>0, <2>1, <2>5, LatestNumberAppend, NumbersDifferAppend
  <2>7. DueNumber'
    BY <1>0, <2>1, NumberedAppend DEF DueNumber, Waits
  <2>8. Issued'
    BY <1>0, <2>1, <2>2, <2>3, <2>4 DEF Issued
  <2>9. FreshJobs'
    BY <1>0, <2>1, <2>2, <2>3, <2>4 DEF FreshJobs
  <2>10. NumberCap' /\ DueCap'
    BY <1>0, <2>1, <2>4 DEF NumberCap, DueCap
  <2>11. LastUnderWay'
    <3> SUFFICES ASSUME NEW s \in Submissions, Has(jobs', s), Latest(jobs', s).status = "submitted",
                        Latest(jobs', s).attempt >= MaxAttempts + faults
                 PROVE  \E w \in Workers : worker[w].pc \in {"send", "receipt"}
                                           /\ worker[w].due[1].key = s
      BY <2>1 DEF LastUnderWay
    <3>1. s # row.key /\ Has(jobs, s) /\ Latest(jobs', s) = Latest(jobs, s)
      BY <1>0, <2>1, LatestAppend
    <3>. QED
      BY <1>0, <3>1 DEF LastUnderWay
  <2>. QED
    BY <1>i, <2>6, <2>7, <2>8, <2>9, <2>10, <2>11 DEF BudgetInv, Numbered, Fresh, Capped
<1>3. ASSUME NEW e \in Enqueuers, EnqueueThrows(e)
      PROVE  BudgetInv'
  <2>1. /\ UNCHANGED <<jobs, worker, issued, faults>>
        /\ \A f \in Enqueuers : enqueuer'[f] # NoRow => enqueuer'[f] = enqueuer[f]
    BY <1>0, <1>3 DEF EnqueueThrows, TypeOK
  <2>2. Numbered' /\ Capped'
    BY <1>0, <2>1 DEF Numbered, LatestNumber, DueNumber, NumbersDiffer, Waits,
                      Capped, NumberCap, DueCap, LastUnderWay
  <2>3. Fresh'
    BY <1>0, <2>1 DEF Fresh, Issued, FreshJobs
  <2>. QED
    BY <1>i, <2>2, <2>3 DEF BudgetInv
<1>4. ASSUME NEW w \in Workers, Sweep(w)
      PROVE  BudgetInv'
  <2>1. PICK q \in SweepOrders : worker' = [worker EXCEPT ![w] = NextJob(FirstJobs(q))]
    BY <1>4 DEF Sweep
  <2>2. /\ worker'[w] = NextJob(FirstJobs(q)) /\ worker'[w].due = FirstJobs(q)
        /\ \A v \in Workers : v # w => worker'[v] = worker[v]
    BY <1>0, <2>1, NextJobFacts DEF TypeOK
  <2>3. UNCHANGED <<jobs, enqueuer, issued, faults>> /\ worker[w].pc = "idle"
    BY <1>4 DEF Sweep
  <2>4. ASSUME NEW i \in DOMAIN FirstJobs(q)
        PROVE  /\ Waits(worker'[w], i)
               /\ \E j \in DOMAIN jobs : FirstJobs(q)[i] = jobs[j]
               /\ NumberedTo(jobs, FirstJobs(q)[i], FirstJobs(q)[i].attempt)
               /\ FirstJobs(q)[i].attempt < MaxAttempts + faults
    <3> DEFINE row == FirstJobs(q)[i]
    <3>1. /\ row.key \in Submissions /\ Has(jobs, row.key) /\ Latest(jobs, row.key) = row
          /\ row.status \in DueStatuses
      BY <1>0, FirstJobsFacts DEF Due
    <3>2. FirstJobs(q) # << >>
      <4>1. DOMAIN << >> = {}
        OBVIOUS
      <4>. QED
        BY <4>1
    <3>3. worker'[w].pc = "submit"
      BY <2>2, <3>2, NextJobFacts
    <3> HIDE DEF row
    <3>4. PICK j \in DOMAIN jobs : row = jobs[j]
      BY <1>0, <3>1, LatestIndexProperties DEF Has, Latest
    <3>5. NumberedTo(jobs, row, row.attempt)
      BY <1>0, <3>1 DEF LatestNumber
    <3>6. row.attempt < MaxAttempts + faults
      <4>1. CASE row.status = "queued"
        BY <1>0, <3>4, <4>1, BudgetTypes DEF AllWithinBudget, WithinBudget
      <4>2. CASE row.status = "submitted"
        <5>1. \A v \in Workers : worker[v].pc = "idle"
          BY <2>2, <2>3, <3>3 DEF SweepsInTurn
        <5>2. ~(row.attempt >= MaxAttempts + faults)
          BY <1>0, <3>1, <4>2, <5>1 DEF LastUnderWay
        <5>. QED
          BY <1>0, <3>4, <5>2, BudgetTypes
      <4>. QED
        BY <3>1, <4>1, <4>2 DEF DueStatuses
    <3>. QED
      BY <3>3, <3>4, <3>5, <3>6 DEF Waits, row
  <2>5. DueNumber'
    <3> SUFFICES ASSUME NEW v \in Workers, NEW i \in DOMAIN worker'[v].due
                 PROVE  NumberedTo(jobs, worker'[v].due[i],
                          worker'[v].due[i].attempt + (IF Waits(worker'[v], i) THEN 0 ELSE 1))
      BY <2>3 DEF DueNumber, NumberedTo
    <3>1. CASE v = w
      <4>1. PICK j \in DOMAIN jobs : FirstJobs(q)[i] = jobs[j]
        BY <2>2, <2>4, <3>1
      <4>2. FirstJobs(q)[i].attempt + 0 = FirstJobs(q)[i].attempt
        BY <1>0, <4>1, BudgetTypes
      <4>. QED
        BY <2>2, <2>4, <3>1, <4>2
    <3>2. CASE v # w
      BY <1>0, <2>2, <3>2 DEF DueNumber
    <3>. QED
      BY <3>1, <3>2
  <2>6. ASSUME NEW v \in Workers, NEW i \in DOMAIN worker'[v].due
        PROVE  /\ worker'[v].due[i].attempt < MaxAttempts + faults
               /\ worker'[v].due[i].job <= issued
               /\ \A e \in Enqueuers : enqueuer[e] # NoRow => worker'[v].due[i].job # enqueuer[e].job
    <3>1. CASE v = w
      BY <1>0, <2>2, <2>4, <3>1 DEF Issued, FreshJobs
    <3>2. CASE v # w
      BY <1>0, <2>2, <3>2 DEF Issued, FreshJobs, DueCap
    <3>. QED
      BY <3>1, <3>2
  <2>7. Fresh' /\ DueCap'
    BY <1>0, <2>3, <2>6 DEF Fresh, Issued, FreshJobs, DueCap
  <2>8. LatestNumber' /\ NumbersDiffer' /\ NumberCap'
    BY <1>0, <2>3 DEF LatestNumber, NumbersDiffer, NumberCap
  <2>9. LastUnderWay'
    <3>1. \A v \in Workers : worker[v].pc \in {"send", "receipt"} => worker'[v] = worker[v]
      BY <2>2, <2>3
    <3>. QED
      BY <1>0, <2>3, <3>1 DEF LastUnderWay
  <2>. QED
    BY <1>i, <2>5, <2>7, <2>8, <2>9 DEF BudgetInv, Numbered, Capped
<1>5. ASSUME NEW w \in Workers, AppendSubmitted(w)
      PROVE  BudgetInv'
  <2> DEFINE row == Attempted(w)
             job == worker[w].due[1]
  <2>1. /\ worker[w].pc = "submit" /\ jobs' = Append(jobs, row)
        /\ worker' = [worker EXCEPT ![w].pc = "send"]
        /\ UNCHANGED <<enqueuer, issued, faults>>
    BY <1>5 DEF AppendSubmitted, MoveTo
  <2>2. /\ row \in Row /\ 1 \in DOMAIN worker[w].due /\ row.status = "submitted"
        /\ SameJob(row, job) /\ row.attempt = job.attempt + 1
    BY <1>0, <2>1, HandNumbers, WrittenRowsType
  <2>3. /\ worker'[w].due = worker[w].due /\ worker'[w].pc = "send"
        /\ \A v \in Workers : v # w => DOMAIN worker[v].due = {} /\ worker'[v] = worker[v]
        /\ \A v \in Workers : worker[v].pc \notin {"send", "receipt"}
    BY <1>0, <2>1, OthersIdle DEF TypeOK, SweepsInTurn
  <2>4. /\ job.attempt \in Nat /\ job.attempt < MaxAttempts + faults /\ job.job <= issued
        /\ \A f \in Enqueuers : enqueuer[f] # NoRow => job.job # enqueuer[f].job
    BY <1>0, <2>2, BudgetTypes DEF DueCap, Issued, FreshJobs
  <2>5. NumberedTo(jobs, job, job.attempt + 0)
    BY <1>0, <2>1, <2>2 DEF DueNumber, Waits
  <2> HIDE DEF row, job
  <2>6. /\ NumberedTo(jobs, row, row.attempt) /\ NumberedTo(jobs, row, row.attempt - 1)
        /\ NumberedTo(jobs, job, job.attempt + 1)
    BY <1>0, <2>2, <2>4, <2>5, BudgetTypes DEF NumberedTo, SameJob
  <2>7. LatestNumber' /\ NumbersDiffer'
    BY <1>0, <2>1, <2>2, <2>6, LatestNumberAppend, NumbersDifferAppend
  <2>8. DueNumber'
    <3> SUFFICES ASSUME NEW i \in DOMAIN worker[w].due
                 PROVE  NumberedTo(jobs', worker[w].due[i],
                          worker[w].due[i].attempt + (IF i # 1 THEN 0 ELSE 1))
      BY <2>3 DEF DueNumber, Waits
    <3>1. CASE i = 1
      BY <1>0, <2>1, <2>2, <2>4, <2>6, <3>1, NumberedAppend DEF job
    <3>2. CASE i # 1
      <4>1. ~SameJob(row, worker[w].due[i])
        BY <1>0, <2>2, <3>2 DEF DueDistinct, SameJob, job
      <4>2. NumberedTo(jobs, worker[w].due[i], worker[w].due[i].attempt + 0)
        BY <1>0, <2>1 DEF DueNumber, Waits
      <4>. QED
        BY <1>0, <2>1, <2>2, <3>2, <4>1, <4>2, NumberedAppend
    <3>. QED
      BY <3>1, <3>2
  <2>9. \A i \in DOMAIN jobs' : jobs'[i] = row \/ (i \in DOMAIN jobs /\ jobs'[i] = jobs[i])
    BY <1>0, <2>1, <2>2, AppendedRow
  <2>10. Fresh'
    BY <1>0, <2>1, <2>2, <2>3, <2>4, <2>9 DEF Fresh, Issued, FreshJobs, SameJob
  <2>11. NumberCap'
    BY <1>0, <2>1, <2>2, <2>4, <2>9, BudgetTypes DEF NumberCap
  <2>12. DueCap'
    BY <1>0, <2>1, <2>3 DEF DueCap
  <2>13. LastUnderWay'
    <3> SUFFICES ASSUME NEW s \in Submissions, Has(jobs', s), Latest(jobs', s).status = "submitted",
                        Latest(jobs', s).attempt >= MaxAttempts + faults, s # row.key
                 PROVE  FALSE
      BY <2>1, <2>2, <2>3 DEF LastUnderWay, SameJob, job
    <3>1. Has(jobs, s) /\ Latest(jobs', s) = Latest(jobs, s)
      BY <1>0, <2>1, <2>2, LatestAppend
    <3>. QED
      BY <1>0, <2>3, <3>1 DEF LastUnderWay
  <2>. QED
    BY <1>i, <2>7, <2>8, <2>10, <2>11, <2>12, <2>13 DEF BudgetInv, Numbered, Capped
<1>6. ASSUME NEW w \in Workers, Broadcast(w)
      PROVE  BudgetInv'
  <2>1. /\ worker[w].pc = "send" /\ worker' = [worker EXCEPT ![w].pc = "receipt"]
        /\ UNCHANGED <<jobs, enqueuer, issued, faults>>
    BY <1>6 DEF Broadcast, MoveTo
  <2>2. \A v \in Workers : /\ worker'[v].due = worker[v].due
                           /\ v = w => worker'[v].pc = "receipt" /\ worker[v].pc = "send"
                           /\ v # w => worker'[v] = worker[v]
    BY <1>0, <2>1 DEF TypeOK
  <2>3. Numbered' /\ Fresh'
    BY <1>0, <2>1, <2>2 DEF Numbered, LatestNumber, DueNumber, NumbersDiffer, Waits,
                            Fresh, Issued, FreshJobs
  <2>4. Capped'
    BY <1>0, <2>1, <2>2 DEF Capped, NumberCap, DueCap, LastUnderWay
  <2>. QED
    BY <1>i, <2>3, <2>4 DEF BudgetInv
<1>7. ASSUME NEW w \in Workers, AppendConfirmed(w) \/ AppendFailure(w)
      PROVE  BudgetInv'
  <2>1. PICK row \in {Confirmed(w), GivenBack(w)} :
          /\ worker[w].pc # "idle" /\ jobs' = Append(jobs, row) /\ Finish(w)
          /\ UNCHANGED <<enqueuer, issued>> /\ faults' \in {faults, faults + 1}
    BY <1>7 DEF AppendConfirmed, AppendFailure
  <2> DEFINE job == worker[w].due[1]
  <2>2. /\ row \in Row /\ 1 \in DOMAIN worker[w].due /\ row.status # "submitted"
        /\ SameJob(row, job) /\ row.attempt = job.attempt + 1
    BY <1>0, <2>1, HandNumbers, WrittenRowsType
  <2>3. /\ \A v \in Workers : v # w => DOMAIN worker[v].due = {} /\ worker'[v] = worker[v]
        /\ \A v \in Workers : v # w => worker[v].pc = "idle"
        /\ \A i \in DOMAIN worker'[w].due :
             /\ i + 1 \in DOMAIN worker[w].due /\ i + 1 # 1
             /\ worker'[w].due[i] = worker[w].due[i + 1] /\ Waits(worker[w], i + 1)
    BY <1>0, <2>1, OthersIdle, FinishedDue DEF Finish, TypeOK, SweepsInTurn
  <2>4. /\ job.attempt \in Nat /\ job.job <= issued
        /\ \A f \in Enqueuers : enqueuer[f] # NoRow => job.job # enqueuer[f].job
    BY <1>0, <2>2, BudgetTypes DEF Issued, FreshJobs
  <2>5. /\ NumberedTo(jobs, job, job.attempt + 0) \/ NumberedTo(jobs, job, job.attempt + 1)
    BY <1>0, <2>2 DEF DueNumber
  <2> HIDE DEF job
  <2>6. NumberedTo(jobs, row, row.attempt)
    <3>2. ASSUME NEW k \in DOMAIN jobs, jobs[k].status = "submitted", SameJob(jobs[k], row)
          PROVE  jobs[k].attempt <= row.attempt
      <4>1. SameJob(jobs[k], job)
        BY <2>2, <3>2 DEF SameJob
      <4>2. jobs[k].attempt <= job.attempt + 0 \/ jobs[k].attempt <= job.attempt + 1
        BY <2>5, <3>2, <4>1 DEF NumberedTo
      <4>3. jobs[k].attempt \in Nat
        BY <1>0, BudgetTypes
      <4>. QED
        BY <2>2, <2>4, <4>2, <4>3
    <3>. QED
      BY <3>2 DEF NumberedTo
  <2>7. LatestNumber' /\ NumbersDiffer'
    BY <1>0, <2>1, <2>2, <2>6, LatestNumberAppend, NumbersDifferAppend
  <2>8. ASSUME NEW i \in DOMAIN worker'[w].due, NEW n, NumberedTo(jobs, worker'[w].due[i], n)
        PROVE  NumberedTo(jobs', worker'[w].due[i], n)
    BY <1>0, <2>1, <2>2, <2>8, NumberedAppend
  <2>9. DueNumber'
    <3> SUFFICES ASSUME NEW i \in DOMAIN worker'[w].due
                 PROVE  NumberedTo(jobs', worker'[w].due[i],
                          worker'[w].due[i].attempt + (IF Waits(worker'[w], i) THEN 0 ELSE 1))
      BY <2>3 DEF DueNumber
    <3>1. NumberedTo(jobs, worker'[w].due[i], worker'[w].due[i].attempt + 0)
      BY <1>0, <2>3 DEF DueNumber
    <3>2. NumberedTo(jobs', worker'[w].due[i], worker'[w].due[i].attempt + 0)
      BY <2>8, <3>1
    <3>3. Waits(worker'[w], i)
      <4>1. worker'[w] = NextJob(Tail(worker[w].due)) /\ worker'[w].due = Tail(worker[w].due)
        BY <1>0, <2>1, FinishedDue DEF Finish, TypeOK
      <4>2. Tail(worker[w].due) # << >>
        <5>1. DOMAIN << >> = {}
          OBVIOUS
        <5>. QED
          BY <4>1, <5>1
      <4>. QED
        BY <4>1, <4>2, NextJobFacts DEF Waits
    <3>. QED
      BY <3>2, <3>3
  <2>10. \A i \in DOMAIN jobs' : jobs'[i] = row \/ (i \in DOMAIN jobs /\ jobs'[i] = jobs[i])
    BY <1>0, <2>1, <2>2, AppendedRow
  <2>11. Issued'
    BY <1>0, <2>1, <2>2, <2>3, <2>4, <2>10 DEF Issued, SameJob
  <2>12. FreshJobs'
    BY <1>0, <2>1, <2>2, <2>3, <2>4, <2>10 DEF FreshJobs, SameJob
  <2>13. NumberCap'
    BY <1>0, <2>1, <2>2, <2>10, BudgetTypes DEF NumberCap
  <2>14. DueCap'
    <3>1. \A i \in DOMAIN worker[w].due : worker[w].due[i].attempt < MaxAttempts + faults'
      BY <1>0, <2>1, BudgetTypes DEF DueCap
    <3>2. \A i \in DOMAIN worker'[w].due : worker'[w].due[i].attempt < MaxAttempts + faults'
      BY <2>3, <3>1
    <3>. QED
      BY <2>3, <3>2 DEF DueCap
  <2>15. LastUnderWay'
    <3> SUFFICES ASSUME NEW s \in Submissions, Has(jobs', s), Latest(jobs', s).status = "submitted",
                        Latest(jobs', s).attempt >= MaxAttempts + faults'
                 PROVE  FALSE
      BY DEF LastUnderWay
    <3>1. s # row.key /\ Has(jobs, s) /\ Latest(jobs', s) = Latest(jobs, s)
      BY <1>0, <2>1, <2>2, LatestAppend
    <3>2. Latest(jobs, s).attempt \in Nat
      BY <1>0, <3>1, LatestAttempt
    <3>3. Latest(jobs, s).attempt >= MaxAttempts + faults
      BY <1>0, <2>1, <3>1, <3>2, BudgetTypes
    <3>4. PICK v \in Workers : worker[v].pc \in {"send", "receipt"} /\ worker[v].due[1].key = s
      BY <1>0, <3>1, <3>3 DEF LastUnderWay
    <3>5. v = w
      BY <2>3, <3>4
    <3>. QED
      BY <2>2, <3>1, <3>4, <3>5 DEF SameJob, job
  <2>. QED
    BY <1>i, <2>7, <2>9, <2>11, <2>12, <2>13, <2>14, <2>15
       DEF BudgetInv, Numbered, Fresh, Capped
<1>8. ASSUME NEW w \in Workers, SweepAborts(w)
      PROVE  BudgetInv'
  <2>1. \A v \in Workers : DOMAIN worker'[v].due = {}
    BY <1>0, <1>8, OthersIdle DEF SweepAborts, TypeOK, Idle
  <2>. QED
    BY <1>i, <1>8, <2>1, CutShort DEF SweepAborts
<1>9. ASSUME Crash PROVE BudgetInv'
  <2>1. /\ \A v \in Workers : DOMAIN worker'[v].due = {}
        /\ \A e \in Enqueuers : enqueuer'[e] = NoRow
    BY <1>9 DEF Crash, Idle
  <2>. QED
    BY <1>i, <1>9, <2>1, CutShort DEF Crash
<1>10. CASE Tick \/ UNCHANGED vars
  <2>1. UNCHANGED <<jobs, enqueuer, worker, issued, faults>>
    BY <1>10 DEF Tick, vars
  <2>. QED
    BY <1>0, <1>i, <2>1
       DEF BudgetInv, Numbered, LatestNumber, DueNumber, NumbersDiffer, Waits, Fresh, Issued,
           FreshJobs, Capped, NumberCap, DueCap, LastUnderWay
<1>. QED
  BY <1>1, <1>2, <1>3, <1>4, <1>5, <1>6, <1>7, <1>8, <1>9, <1>10
     DEF Next, Enqueue, WorkerStep

\* Rows with different numbers up to a bound are at most that many.
LEMMA NumbersAreCount ==
  ASSUME BudgetInv, NEW i \in DOMAIN jobs
  PROVE  Cardinality(Attempts(jobs[i])) <= MaxAttempts + faults
<1> DEFINE n == MaxAttempts + faults
           f == [k \in Attempts(jobs[i]) |-> jobs[k].attempt]
<1>1. TypeOK /\ NumbersDiffer /\ NumberCap
  BY DEF BudgetInv, BackoffInv, IInv, Numbered, Capped
<1>2. n \in Nat
  BY <1>1, BudgetTypes
<1>3. f \in Injection(Attempts(jobs[i]), 1 .. n)
  <2>1. \A k \in Attempts(jobs[i]) : jobs[k].attempt \in 1 .. n
    BY <1>1 DEF NumberCap, Attempts
  <2>2. \A k, m \in Attempts(jobs[i]) : k # m => jobs[k].attempt # jobs[m].attempt
    BY <1>1 DEF NumbersDiffer, Attempts, SameJob
  <2> HIDE DEF n
  <2>. QED
    BY <2>1, <2>2 DEF Injection, IsInjective
<1> HIDE DEF n, f
<1>4. IsFiniteSet(1 .. n) /\ Cardinality(1 .. n) = n
  <2>1. 1 .. n = {} => n = 0
    BY <1>2
  <2>. QED
    BY <1>2, FS_Interval
<1>. QED
  BY <1>3, <1>4, FS_Injection DEF n

THEOREM BudgetInvHolds == Spec /\ []SweepsInTurn => []BudgetInv
<1>1. SweepsInTurn /\ SweepsInTurn' /\ BudgetInv /\ [Next]_vars => BudgetInv'
  BY NextBudget
<1>. QED
  BY <1>1, InitBudget, PTL DEF Spec

\* When no two sweeps overlap, whatever the approvals do, processDueMintJobs attempts a
\* job at most maxAttempts times, and once more for every crash or failed file access.
THEOREM RetryBudgetHolds == Spec /\ []SweepsInTurn => []RetryBudget
<1>1. BudgetInv => RetryBudget
  BY NumbersAreCount DEF RetryBudget
<1>. QED
  BY <1>1, BudgetInvHolds, PTL

-----------------------------------------------------------------------------
(***************************************************************************)
(* Neither two sweeps nor two approvals of one submission overlap, and no  *)
(* read fails. What an approval saw when it read the ledger is still so    *)
(* when it appends: it holds a row only for a submission without a live    *)
(* job, and a sweep holds jobs only of submissions that have one, so       *)
(* neither writes for the other's submissions.                             *)
(***************************************************************************)
EnqueuesApart ==
  \A e, f \in Enqueuers :
    e # f /\ enqueuer[e] # NoRow /\ enqueuer[f] # NoRow => enqueuer[e].key # enqueuer[f].key

Serialised == SweepsInTurn /\ EnqueuesApart

\* The submission of every job a sweep holds has a live job, and the one under
\* way was submitted.
Live(rows, s, statuses) == Has(rows, s) /\ Latest(rows, s).status \in statuses

InHandLive ==
  \A w \in Workers : \A i \in DOMAIN worker[w].due :
    Live(jobs, worker[w].due[i].key, IF Waits(worker[w], i) THEN DueStatuses ELSE {"submitted"})

StillNeeded ==
  \A e \in Enqueuers : enqueuer[e] # NoRow => NeedsJob(jobs, enqueuer[e].key)

SerialInv == BackoffInv /\ InHandLive /\ StillNeeded /\ QueuedOnce

\* A first row appended for a submission that needs a job is queued once.
LEMMA QueuedOnceAppend ==
  ASSUME jobs \in Seq(Row), NEW row \in Row, jobs' = Append(jobs, row), QueuedOnce,
         row.attempt = 0 /\ row.status = "queued" => NeedsJob(jobs, row.key)
  PROVE  QueuedOnce'
<1>1. /\ Len(jobs) \in Nat /\ DOMAIN jobs = 1 .. Len(jobs)
      /\ DOMAIN jobs' = 1 .. (Len(jobs) + 1)
      /\ jobs'[Len(jobs) + 1] = row
      /\ \A i \in 1 .. Len(jobs) : jobs'[i] = jobs[i]
  BY AppendProperties, LenProperties
<1>2. /\ \A i \in 1 .. Len(jobs) : SubSeq(jobs', 1, i - 1) = SubSeq(jobs, 1, i - 1)
      /\ SubSeq(jobs', 1, Len(jobs)) = jobs
  BY PrefixAppend
<1> SUFFICES ASSUME NEW i \in 1 .. (Len(jobs) + 1),
                    jobs'[i].attempt = 0, jobs'[i].status = "queued",
                    Has(SubSeq(jobs', 1, i - 1), jobs'[i].key)
             PROVE  Latest(SubSeq(jobs', 1, i - 1), jobs'[i].key).status = "failed"
  BY <1>1 DEF QueuedOnce
<1>3. CASE i \in 1 .. Len(jobs)
  BY <1>1, <1>2, <1>3 DEF QueuedOnce
<1>4. CASE i = Len(jobs) + 1
  <2>1. i - 1 = Len(jobs) /\ jobs'[i] = row
    BY <1>1, <1>4
  <2>. QED
    BY <1>2, <2>1 DEF NeedsJob
<1>. QED
  BY <1>1, <1>3, <1>4

\* A live job is none that an approval may replace.
LEMMA LiveNeedsNoJob ==
  ASSUME NEW s, NEW statuses \in SUBSET DueStatuses, Live(jobs, s, statuses)
  PROVE  ~NeedsJob(jobs, s)
<1>. QED
  BY DEF Live, NeedsJob, DueStatuses

LEMMA InitSerial == Init => SerialInv
<1> SUFFICES ASSUME Init PROVE SerialInv
  OBVIOUS
<1>1. \A w \in Workers : DOMAIN worker[w].due = {}
  BY DEF Init, Idle
<1>2. (\A e \in Enqueuers : enqueuer[e] = NoRow) /\ DOMAIN jobs = {}
  BY DEF Init
<1>. QED
  BY <1>1, <1>2, InitBackoff DEF SerialInv, InHandLive, StillNeeded, QueuedOnce

\* The row of a sweep's head job is about a submission no enqueue call holds and
\* no other job of the sweep is about.
LEMMA HeadJobFacts ==
  ASSUME SerialInv, NEW w \in Workers, worker[w].pc # "idle"
  PROVE  /\ 1 \in DOMAIN worker[w].due /\ Head(worker[w].due) = worker[w].due[1]
         /\ Attempted(w).key = worker[w].due[1].key
         /\ Attempted(w).key \in Submissions
         /\ Confirmed(w).key = Attempted(w).key /\ GivenBack(w).key = Attempted(w).key
         /\ Live(jobs, Attempted(w).key, DueStatuses)
         /\ worker[w].pc # "submit" => Live(jobs, Attempted(w).key, {"submitted"})
         /\ \A e \in Enqueuers : enqueuer[e] # NoRow => enqueuer[e].key # Attempted(w).key
         /\ \A i \in DOMAIN worker[w].due : i # 1 => worker[w].due[i].key # Attempted(w).key
<1>0. TypeOK /\ DueDistinct
  BY DEF SerialInv, BackoffInv, IInv
<1>1. 1 \in DOMAIN worker[w].due /\ Head(worker[w].due) = worker[w].due[1]
  BY <1>0 DEF TypeOK
<1>2. /\ Attempted(w).key = worker[w].due[1].key
      /\ Confirmed(w).key = Attempted(w).key /\ GivenBack(w).key = Attempted(w).key
  BY <1>1 DEF Attempted, Confirmed, GivenBack, Patch
<1>3. /\ Live(jobs, Attempted(w).key, DueStatuses)
      /\ worker[w].pc # "submit" => Live(jobs, Attempted(w).key, {"submitted"})
  BY <1>1, <1>2 DEF SerialInv, InHandLive, Waits, Live, DueStatuses
<1>4. ~NeedsJob(jobs, Attempted(w).key)
  BY <1>3, LiveNeedsNoJob
<1>5. Attempted(w).key \in Submissions
  BY <1>0, WrittenRowsType DEF Row
<1>. QED
  BY <1>0, <1>1, <1>2, <1>3, <1>4, <1>5 DEF SerialInv, StillNeeded, DueDistinct

LEMMA NextSerial ==
  ASSUME ReadsFail = FALSE, Serialised, SerialInv, [Next]_vars
  PROVE  SerialInv'
<1>0. /\ BackoffInv /\ TypeOK /\ FreshRows /\ InHandLive /\ StillNeeded /\ QueuedOnce
      /\ jobs \in Seq(Row) /\ SweepsInTurn /\ EnqueuesApart
  BY DEF SerialInv, BackoffInv, IInv, TypeOK, Serialised
<1>i. BackoffInv'
  BY <1>0, NextBackoff
<1>1. ASSUME NEW e \in Enqueuers, NEW s \in Submissions, NEW readable \in BOOLEAN,
             EnqueueRead(e, s, readable)
      PROVE  SerialInv'
  <2>1. /\ enqueuer' = [enqueuer EXCEPT ![e] = NewJob(s)] /\ NewJob(s).key = s
        /\ UNCHANGED <<jobs, worker>> /\ NeedsJob(jobs, s)
    BY <1>1 DEF EnqueueRead, NewJob, ReadRows
  <2>2. StillNeeded'
    BY <1>0, <2>1 DEF StillNeeded, TypeOK, NeedsJob
  <2>3. InHandLive' /\ QueuedOnce'
    BY <1>0, <2>1 DEF InHandLive, Waits, Live, QueuedOnce
  <2>. QED
    BY <1>i, <2>2, <2>3 DEF SerialInv
<1>2. ASSUME NEW e \in Enqueuers, EnqueueAppend(e)
      PROVE  SerialInv'
  <2>1. /\ enqueuer[e] \in Row /\ NeedsJob(jobs, enqueuer[e].key)
        /\ jobs' = Append(jobs, enqueuer[e])
        /\ enqueuer' = [enqueuer EXCEPT ![e] = NoRow]
        /\ worker' = worker
    BY <1>0, <1>2 DEF EnqueueAppend, FreshRows, StillNeeded
  <2>2. StillNeeded'
    <3> SUFFICES ASSUME NEW f \in Enqueuers, enqueuer'[f] # NoRow
                 PROVE  NeedsJob(jobs', enqueuer'[f].key)
      BY DEF StillNeeded
    <3>1. enqueuer'[f] = enqueuer[f] /\ f # e
      BY <1>0, <2>1 DEF TypeOK
    <3>2. NeedsJob(jobs, enqueuer[f].key) /\ enqueuer[f].key # enqueuer[e].key
      BY <1>0, <1>2, <3>1 DEF StillNeeded, EnqueuesApart, EnqueueAppend
    <3>. QED
      BY <1>0, <2>1, <3>1, <3>2, LatestAppend DEF NeedsJob
  <2>3. InHandLive'
    <3> SUFFICES ASSUME NEW w \in Workers, NEW i \in DOMAIN worker[w].due,
                        NEW statuses \in SUBSET DueStatuses,
                        Live(jobs, worker[w].due[i].key, statuses)
                 PROVE  Live(jobs', worker[w].due[i].key, statuses)
      BY <1>0, <2>1 DEF InHandLive, Waits, DueStatuses
    <3>1. worker[w].due[i].key # enqueuer[e].key
      BY <2>1, LiveNeedsNoJob
    <3>. QED
      BY <1>0, <2>1, <3>1, LatestAppend DEF Live
  <2>4. QueuedOnce'
    BY <1>0, <2>1, QueuedOnceAppend
  <2>. QED
    BY <1>i, <2>2, <2>3, <2>4 DEF SerialInv
<1>3. ASSUME NEW e \in Enqueuers, EnqueueThrows(e)
      PROVE  SerialInv'
  BY <1>0, <1>i, <1>3
     DEF EnqueueThrows, SerialInv, InHandLive, Waits, Live, StillNeeded, NeedsJob, QueuedOnce, TypeOK
<1>4. ASSUME NEW w \in Workers, Sweep(w)
      PROVE  SerialInv'
  <2>1. PICK q \in SweepOrders : worker' = [worker EXCEPT ![w] = NextJob(FirstJobs(q))]
    BY <1>4 DEF Sweep
  <2>2. /\ worker'[w] = NextJob(FirstJobs(q)) /\ worker'[w].due = FirstJobs(q)
        /\ \A v \in Workers : v # w => worker'[v] = worker[v]
    BY <1>0, <2>1, NextJobFacts DEF TypeOK
  <2>3. UNCHANGED <<jobs, enqueuer>>
    BY <1>4 DEF Sweep
  <2>4. FirstJobs(q) \in Seq(Row)
    BY <1>0, FirstJobsType
  <2>5. InHandLive'
    <3> SUFFICES ASSUME NEW v \in Workers, NEW i \in DOMAIN worker'[v].due
                 PROVE  Live(jobs, worker'[v].due[i].key,
                             IF Waits(worker'[v], i) THEN DueStatuses ELSE {"submitted"})
      BY <2>3 DEF InHandLive, Live
    <3>1. CASE v = w
      <4>1. i \in DOMAIN FirstJobs(q) /\ FirstJobs(q) # << >>
        BY <2>2, <2>4, <3>1
      <4>2. Waits(worker'[v], i)
        BY <2>2, <3>1, <4>1, NextJobFacts DEF Waits
      <4>3. Live(jobs, FirstJobs(q)[i].key, DueStatuses)
        BY <1>0, <4>1, FirstJobsFacts DEF Live, Due
      <4>. QED
        BY <2>2, <3>1, <4>2, <4>3
    <3>2. CASE v # w
      BY <1>0, <2>2, <3>2 DEF InHandLive
    <3>. QED
      BY <3>1, <3>2
  <2>6. StillNeeded' /\ QueuedOnce'
    BY <1>0, <2>3 DEF StillNeeded, NeedsJob, QueuedOnce
  <2>. QED
    BY <1>i, <2>5, <2>6 DEF SerialInv
<1>5. ASSUME NEW w \in Workers, NEW row \in Row, row.key = Attempted(w).key,
             row.attempt = 0 => row.status # "queued",
             worker[w].pc # "idle", jobs' = Append(jobs, row), enqueuer' = enqueuer,
             \A v \in Workers : v # w => worker'[v] = worker[v],
             \A i \in DOMAIN worker'[w].due :
               \/ /\ Waits(worker'[w], i)
                  /\ \E j \in DOMAIN worker[w].due :
                       j # 1 /\ worker'[w].due[i].key = worker[w].due[j].key
               \/ /\ worker'[w].due[i].key = row.key
                  /\ row.status = "submitted"
      PROVE  SerialInv'
  <2>1. /\ \A e \in Enqueuers : enqueuer[e] # NoRow => enqueuer[e].key # row.key
        /\ \A i \in DOMAIN worker[w].due : i # 1 => worker[w].due[i].key # row.key
    BY <1>5, HeadJobFacts
  <2>2. StillNeeded'
    BY <1>0, <1>5, <2>1, LatestAppend DEF StillNeeded, NeedsJob
  <2>3. QueuedOnce'
    BY <1>0, <1>5, QueuedOnceAppend
  <2>4. InHandLive'
    <3> SUFFICES ASSUME NEW i \in DOMAIN worker'[w].due
                 PROVE  Live(jobs', worker'[w].due[i].key,
                      IF Waits(worker'[w], i) THEN DueStatuses ELSE {"submitted"})
      <4>1. \A v \in Workers : v # w => DOMAIN worker'[v].due = {}
        BY <1>0, <1>5, OthersIdle
      <4>. QED
        BY <4>1 DEF InHandLive
    <3>1. CASE worker'[w].due[i].key = row.key /\ row.status = "submitted"
      BY <1>0, <1>5, <3>1, LatestAppend DEF Live, DueStatuses
    <3>2. CASE /\ Waits(worker'[w], i)
               /\ \E j \in DOMAIN worker[w].due :
                    j # 1 /\ worker'[w].due[i].key = worker[w].due[j].key
      <4>1. PICK j \in DOMAIN worker[w].due : j # 1 /\ worker'[w].due[i].key = worker[w].due[j].key
        BY <3>2
      <4>2. Live(jobs, worker[w].due[j].key, DueStatuses) /\ worker[w].due[j].key # row.key
        BY <1>0, <2>1, <4>1 DEF InHandLive, Waits, Live, DueStatuses
      <4>3. Live(jobs', worker[w].due[j].key, DueStatuses)
        BY <1>0, <1>5, <4>2, LatestAppend DEF Live, DueStatuses
      <4>. QED
        BY <3>2, <4>1, <4>3
    <3>. QED
      BY <1>5, <3>1, <3>2
  <2>. QED
    BY <1>i, <2>2, <2>3, <2>4 DEF SerialInv
<1>6. ASSUME NEW w \in Workers, AppendSubmitted(w)
      PROVE  SerialInv'
  <2>1. /\ worker[w].pc = "submit" /\ jobs' = Append(jobs, Attempted(w))
        /\ worker' = [worker EXCEPT ![w].pc = "send"] /\ enqueuer' = enqueuer
    BY <1>6 DEF AppendSubmitted, MoveTo
  <2>2. /\ Attempted(w) \in Row /\ Attempted(w).status = "submitted"
        /\ Attempted(w).key = worker[w].due[1].key
    BY <1>0, <2>1, WrittenRowsType, HeadJobFacts
  <2>3. worker'[w].due = worker[w].due /\ \A v \in Workers : v # w => worker'[v] = worker[v]
    BY <1>0, <2>1 DEF TypeOK
  <2>4. \A i \in DOMAIN worker'[w].due :
          \/ /\ Waits(worker'[w], i)
             /\ \E j \in DOMAIN worker[w].due :
                  j # 1 /\ worker'[w].due[i].key = worker[w].due[j].key
          \/ worker'[w].due[i].key = Attempted(w).key /\ Attempted(w).status = "submitted"
    BY <2>2, <2>3 DEF Waits
  <2>. QED
    BY <1>5, <2>1, <2>2, <2>3, <2>4
<1>7. ASSUME NEW w \in Workers, Broadcast(w)
      PROVE  SerialInv'
  <2>1. /\ worker[w].pc = "send" /\ worker' = [worker EXCEPT ![w].pc = "receipt"]
        /\ UNCHANGED <<jobs, enqueuer>>
    BY <1>7 DEF Broadcast, MoveTo
  <2>2. \A v \in Workers : /\ worker'[v].due = worker[v].due
                           /\ v = w => worker'[v].pc = "receipt" /\ worker[v].pc = "send"
                           /\ v # w => worker'[v] = worker[v]
    BY <1>0, <2>1 DEF TypeOK
  <2>. QED
    BY <1>0, <1>i, <2>1, <2>2 DEF SerialInv, InHandLive, Waits, Live, StillNeeded, NeedsJob, QueuedOnce
<1>8. ASSUME NEW w \in Workers, AppendConfirmed(w) \/ AppendFailure(w)
      PROVE  SerialInv'
  <2>1. PICK row \in {Confirmed(w), GivenBack(w)} :
          /\ worker[w].pc # "idle" /\ jobs' = Append(jobs, row) /\ Finish(w) /\ enqueuer' = enqueuer
    BY <1>8 DEF AppendConfirmed, AppendFailure
  <2>2. row \in Row /\ row.key = Attempted(w).key
    BY <1>0, <2>1, WrittenRowsType, HeadJobFacts
  <2>3. row.attempt = 0 => row.status # "queued"
    BY <1>0, <2>1, WrittenRowsType
  <2>4. \A i \in DOMAIN worker'[w].due :
          /\ Waits(worker'[w], i)
          /\ \E j \in DOMAIN worker[w].due :
               j # 1 /\ worker'[w].due[i].key = worker[w].due[j].key
    <3> SUFFICES ASSUME NEW i \in DOMAIN worker'[w].due
                 PROVE  /\ Waits(worker'[w], i)
                        /\ \E j \in DOMAIN worker[w].due :
                             j # 1 /\ worker'[w].due[i].key = worker[w].due[j].key
      OBVIOUS
    <3>1. /\ i + 1 \in DOMAIN worker[w].due /\ i + 1 # 1
          /\ worker'[w].due[i] = worker[w].due[i + 1]
      BY <1>0, <2>1, FinishedDue
    <3>2. worker'[w] = NextJob(Tail(worker[w].due)) /\ worker'[w].due = Tail(worker[w].due)
      BY <1>0, <2>1, FinishedDue DEF Finish, TypeOK
    <3>3. Tail(worker[w].due) # << >>
      <4>1. DOMAIN << >> = {}
        OBVIOUS
      <4>. QED
        BY <3>2, <4>1
    <3>4. Waits(worker'[w], i)
      BY <3>2, <3>3, NextJobFacts DEF Waits
    <3>. QED
      BY <3>1, <3>4
  <2>5. \A v \in Workers : v # w => worker'[v] = worker[v]
    BY <1>0, <2>1 DEF Finish, TypeOK
  <2>. QED
    BY <1>5, <2>1, <2>2, <2>3, <2>4, <2>5
<1>9. ASSUME NEW w \in Workers, SweepAborts(w)
      PROVE  SerialInv'
  <2>1. \A v \in Workers : DOMAIN worker'[v].due = {}
    BY <1>0, <1>9, OthersIdle DEF SweepAborts, TypeOK, Idle
  <2>. QED
    BY <1>0, <1>i, <1>9, <2>1
       DEF SweepAborts, SerialInv, InHandLive, StillNeeded, NeedsJob, QueuedOnce
<1>10. ASSUME Crash PROVE SerialInv'
  <2>1. /\ \A v \in Workers : DOMAIN worker'[v].due = {}
        /\ \A e \in Enqueuers : enqueuer'[e] = NoRow
    BY <1>10 DEF Crash, Idle
  <2>. QED
    BY <1>0, <1>i, <1>10, <2>1 DEF Crash, SerialInv, InHandLive, StillNeeded, QueuedOnce
<1>11. CASE Tick \/ UNCHANGED vars
  BY <1>0, <1>i, <1>11
     DEF Tick, vars, SerialInv, InHandLive, Waits, Live, StillNeeded, NeedsJob, QueuedOnce
<1>. QED
  BY <1>1, <1>2, <1>3, <1>4, <1>6, <1>7, <1>8, <1>9, <1>10, <1>11
     DEF Next, Enqueue, WorkerStep

THEOREM SerialInvHolds ==
  ASSUME ReadsFail = FALSE
  PROVE  Spec /\ []Serialised => []SerialInv
<1>1. Serialised /\ SerialInv /\ [Next]_vars => SerialInv'
  BY NextSerial
<1>. QED
  BY <1>1, InitSerial, PTL DEF Spec

\* When neither sweeps nor approvals of one submission overlap and reads do not
\* fail, through crashes and failed writes, a submission gets a first job row only
\* when it has no job or its last was given up. The check of
\* enqueueMintJobForApprovedSubmission is enough when nothing overlaps.
THEOREM QueuedOnceHolds ==
  ASSUME ReadsFail = FALSE
  PROVE  Spec /\ []Serialised => []QueuedOnce
<1>1. SerialInv => QueuedOnce
  BY DEF SerialInv
<1>. QED
  BY <1>1, SerialInvHolds, PTL

-----------------------------------------------------------------------------
(***************************************************************************)
(* The queue implements the job lifecycle, submission by submission.       *)
(***************************************************************************)
PhaseMap == [s \in Submissions |-> Phase(s)]

\* The abstract state is a function of the ledger: appending a row moves the
\* phase of its submission to the row's status.
LEMMA AppendMoves ==
  ASSUME jobs \in Seq(Row), NEW row \in Row, jobs' = Append(jobs, row),
         NEW from, Phase(row.key) \in from
  PROVE  Lifecycle!Move(row.key, from, row.status)
<1>1. row.key \in Submissions
  BY DEF Row
<1>2. \A s \in Submissions : Phase(s)' = IF s = row.key THEN row.status ELSE Phase(s)
  BY LatestAppend DEF Phase
<1>. QED
  BY <1>1, <1>2 DEF Lifecycle!Move

LEMMA LivePhase ==
  ASSUME NEW s, NEW statuses, Live(jobs, s, statuses)
  PROVE  Phase(s) \in statuses
<1>. QED
  BY DEF Live, Phase

LEMMA InitImplements == Init => Lifecycle!Init
<1> SUFFICES ASSUME Init PROVE Lifecycle!Init
  OBVIOUS
<1>1. jobs \in Seq(Row) /\ Len(jobs) = 0
  BY DEF Init
<1>2. \A j \in 1 .. Len(jobs), s \in Submissions : jobs[j].key # s
  BY <1>1
<1>3. \A s \in Submissions : ~Has(jobs, s)
  BY <1>1, <1>2, LatestIndexNone DEF Has
<1>. QED
  BY <1>3 DEF Lifecycle!Init, Phase

LEMMA StepImplements ==
  ASSUME SerialInv, [Next]_vars
  PROVE  [Lifecycle!Next]_PhaseMap
<1>0. TypeOK /\ FreshRows /\ StillNeeded /\ InHandLive /\ jobs \in Seq(Row)
  BY DEF SerialInv, BackoffInv, IInv, TypeOK
<1>1. ASSUME jobs' = jobs PROVE UNCHANGED PhaseMap
  BY <1>1 DEF PhaseMap, Phase
<1>2. ASSUME NEW e \in Enqueuers, EnqueueAppend(e) PROVE Lifecycle!Next
  <2>1. /\ enqueuer[e] \in Row /\ enqueuer[e].status = "queued"
        /\ NeedsJob(jobs, enqueuer[e].key) /\ jobs' = Append(jobs, enqueuer[e])
    BY <1>0, <1>2 DEF EnqueueAppend, FreshRows, StillNeeded
  <2>2. Phase(enqueuer[e].key) \in {"none", "failed"} /\ enqueuer[e].key \in Submissions
    BY <2>1 DEF NeedsJob, Phase, Row
  <2>3. Lifecycle!Move(enqueuer[e].key, {"none", "failed"}, "queued")
    BY <1>0, <2>1, <2>2, AppendMoves
  <2>. QED
    BY <2>2, <2>3 DEF Lifecycle!Next, Lifecycle!Queue
<1>3. ASSUME NEW w \in Workers, AppendSubmitted(w) PROVE Lifecycle!Next
  <2>1. worker[w].pc = "submit" /\ jobs' = Append(jobs, Attempted(w))
    BY <1>3 DEF AppendSubmitted
  <2>2. /\ Attempted(w) \in Row /\ Attempted(w).status = "submitted"
        /\ Phase(Attempted(w).key) \in {"queued", "submitted"} /\ Attempted(w).key \in Submissions
    BY <1>0, <2>1, WrittenRowsType, HeadJobFacts, LivePhase DEF DueStatuses
  <2>3. Lifecycle!Move(Attempted(w).key, {"queued", "submitted"}, "submitted")
    BY <1>0, <2>1, <2>2, AppendMoves
  <2>. QED
    BY <2>2, <2>3 DEF Lifecycle!Next, Lifecycle!Attempt
<1>4. ASSUME NEW w \in Workers, AppendConfirmed(w) PROVE Lifecycle!Next
  <2>1. worker[w].pc = "receipt" /\ jobs' = Append(jobs, Confirmed(w))
    BY <1>4 DEF AppendConfirmed
  <2>2. /\ Confirmed(w) \in Row /\ Confirmed(w).status = "confirmed"
        /\ Phase(Confirmed(w).key) \in {"submitted"} /\ Confirmed(w).key \in Submissions
    BY <1>0, <2>1, WrittenRowsType, HeadJobFacts, LivePhase
  <2>3. Lifecycle!Move(Confirmed(w).key, {"submitted"}, "confirmed")
    BY <1>0, <2>1, <2>2, AppendMoves
  <2>. QED
    BY <2>2, <2>3 DEF Lifecycle!Next, Lifecycle!Confirm
<1>5. ASSUME NEW w \in Workers, AppendFailure(w) PROVE Lifecycle!Next \/ UNCHANGED PhaseMap
  <2> DEFINE row == GivenBack(w)
  <2>1. worker[w].pc # "idle" /\ jobs' = Append(jobs, row)
    BY <1>5 DEF AppendFailure
  <2>2. /\ row \in Row /\ row.status \in {"queued", "failed"}
        /\ Phase(row.key) \in {"queued", "submitted"} /\ row.key \in Submissions
    BY <1>0, <2>1, WrittenRowsType, HeadJobFacts, LivePhase DEF DueStatuses
  <2> HIDE DEF row
  <2>3. CASE row.status = "failed"
    <3>1. Lifecycle!Move(row.key, {"queued", "submitted"}, "failed")
      BY <1>0, <2>1, <2>2, <2>3, AppendMoves
    <3>. QED
      BY <2>2, <3>1 DEF Lifecycle!Next, Lifecycle!GiveUp
  <2>4. CASE row.status = "queued" /\ Phase(row.key) = "submitted"
    <3>1. Lifecycle!Move(row.key, {"submitted"}, "queued")
      BY <1>0, <2>1, <2>2, <2>4, AppendMoves
    <3>. QED
      BY <2>2, <3>1 DEF Lifecycle!Next, Lifecycle!Retry
  <2>5. CASE row.status = "queued" /\ Phase(row.key) = "queued"
    <3>1. \A s \in Submissions : Phase(s)' = Phase(s)
      BY <1>0, <2>1, <2>2, <2>5, LatestAppend DEF Phase
    <3>. QED
      BY <3>1 DEF PhaseMap
  <2>. QED
    BY <2>2, <2>3, <2>4, <2>5
<1>6. \/ jobs' = jobs
      \/ \E e \in Enqueuers : EnqueueAppend(e)
      \/ \E w \in Workers : AppendSubmitted(w) \/ AppendConfirmed(w) \/ AppendFailure(w)
  BY DEF Next, Enqueue, WorkerStep, EnqueueRead, EnqueueThrows, Sweep, Broadcast, SweepAborts,
         Crash, Tick, vars
<1>. QED
  BY <1>1, <1>2, <1>3, <1>4, <1>5, <1>6

\* Under the same hypotheses, through crashes and failed writes, what a reader of
\* the ledger sees of a submission follows the lifecycle: what processDueMintJobs
\* confirmed is final, and enqueueMintJobForApprovedSubmission starts a new job only
\* where there was none or it was given up.
THEOREM QueueImplementsLifecycle ==
  ASSUME ReadsFail = FALSE
  PROVE  Spec /\ []Serialised => ImplementsLifecycle
<1>1. SerialInv /\ [Next]_vars => [Lifecycle!Next]_PhaseMap
  BY StepImplements
<1>. QED
  BY <1>1, InitImplements, SerialInvHolds, PTL
     DEF Spec, ImplementsLifecycle, Lifecycle!Spec, PhaseMap

=============================================================================

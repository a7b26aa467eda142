-------------------------- MODULE OnchainMintQueue --------------------------
(***************************************************************************)
(* apps/web/src/lib/onchainMintQueue.ts: the ledger of on-chain mint jobs, *)
(* the enqueue call every approval makes, and the operator-triggered sweep *)
(* that sends due jobs to the chain and records how each attempt ended.    *)
(*                                                                         *)
(* Every "await" of the code ends a step: a handler reads the file in one  *)
(* step and appends in a later one, and other handlers run in between.     *)
(***************************************************************************)
EXTENDS JsonlLedger

CONSTANTS
  Submissions,   \* approved submissions
  Enqueuers,     \* request handlers that may run enqueueMintJob... at once
  Workers,       \* request handlers that may run processDueMintJobs at once
  MaxAttempts,   \* ONCHAIN_MINT_RETRY_POLICY.maxAttempts
  Backoff,       \* the delay after each failed attempt, in clock ticks
  Limit,         \* the sweep's ?limit=
  MaxJobs,       \* bound: enqueue calls that build a job row
  MaxFaults,     \* bound: crashes and failed file reads or writes
  ReadsFail,     \* whether a file read may fail, and so return no rows
  MaxRows,       \* bound: no sweep starts on a longer ledger
  NoRow          \* an idle enqueuer

ASSUME MintQueueAssumption ==
  /\ MaxAttempts \in Nat \ {0}
  /\ Backoff \in [1 .. MaxAttempts -> Nat]
  /\ Limit \in Nat
  /\ MaxJobs \in Nat
  /\ MaxFaults \in Nat
  /\ MaxRows \in Nat
  /\ ReadsFail \in BOOLEAN

VARIABLES
  jobs,      \* storage/onchain-mint-jobs.jsonl
  enqueuer,  \* the row each enqueue call is about to append
  worker,    \* each sweep: where it is, and the jobs it still has to process
  sent,      \* transactions that reached the chain
  now,       \* Date.now(), in ticks
  issued,    \* job rows built so far; also the next job's identity
  faults     \* crashes and file errors so far

vars == <<jobs, enqueuer, worker, sent, now, issued, faults>>

Statuses == {"queued", "submitted", "confirmed", "failed"}

Row == [key : Submissions, job : Nat, status : Statuses, attempt : Nat, next : Nat]

Idle == [pc |-> "idle", due |-> << >>]

Init ==
  /\ jobs = << >>
  /\ enqueuer = [e \in Enqueuers |-> NoRow]
  /\ worker = [w \in Workers |-> Idle]
  /\ sent = {}
  /\ now = 0
  /\ issued = 0
  /\ faults = 0

-----------------------------------------------------------------------------
(* Enqueueing: latestJobBySubmission, then appendJsonl. *)

\* Mutation: a confirmed job no longer counts as existing.
NeedsJob_ConfirmedForgotten(rows, s) ==
  Has(rows, s) => Latest(rows, s).status \in {"failed", "confirmed"}

\* A live job is returned as it is; a submission with none, or whose last job
\* was given up, gets a new one.
NeedsJob(rows, s) == Has(rows, s) => Latest(rows, s).status = "failed"

NewJob(s) ==
  [key |-> s, job |-> issued + 1, status |-> "queued", attempt |-> 0, next |-> now]

\* The read and the construction of the row.
EnqueueRead(e, s, readable) ==
  /\ enqueuer[e] = NoRow
  /\ issued < MaxJobs
  /\ ~readable => ReadsFail /\ faults < MaxFaults
  /\ NeedsJob(ReadRows(jobs, readable), s)
  /\ enqueuer' = [enqueuer EXCEPT ![e] = NewJob(s)]
  /\ issued' = issued + 1
  /\ faults' = IF readable THEN faults ELSE faults + 1
  /\ UNCHANGED <<jobs, worker, sent, now>>

EnqueueAppend(e) ==
  /\ enqueuer[e] # NoRow
  /\ jobs' = Append(jobs, enqueuer[e])
  /\ enqueuer' = [enqueuer EXCEPT ![e] = NoRow]
  /\ UNCHANGED <<worker, sent, now, issued, faults>>

\* A missing contract address, ABI or argument template throws before the
\* append; runOperatorSubmissionReview swallows the error.
EnqueueThrows(e) ==
  /\ enqueuer[e] # NoRow
  /\ enqueuer' = [enqueuer EXCEPT ![e] = NoRow]
  /\ UNCHANGED <<jobs, worker, sent, now, issued, faults>>

-----------------------------------------------------------------------------
(* The sweep: processDueMintJobs. *)

\* Mutation: a job left "submitted" by a crash is not taken up again.
DueStatuses_QueuedOnly == {"queued"}

DueStatuses == {"queued", "submitted"}

\* Mutation: the next attempt does not wait for its time.
Due_IgnoresTime(row) == row.status \in DueStatuses

Due(row) == row.status \in DueStatuses /\ row.next <= now

DueJobs == {Latest(jobs, s) : s \in {k \in Keys(jobs) : Due(Latest(jobs, k))}}

\* Oldest nextAttemptAt first; the comparator leaves the order of ties open.
SweepOrders ==
  {q \in SetToSeqs(DueJobs) : \A i, j \in DOMAIN q : i < j => q[i].next <= q[j].next}

FirstJobs(q) == SubSeq(q, 1, IF Len(q) < Limit THEN Len(q) ELSE Limit)

\* Mutation: the sweep goes on after its last job.
NextJob_NeverEnds(due) == [pc |-> "submit", due |-> due]

NextJob(due) == IF due = << >> THEN Idle ELSE [pc |-> "submit", due |-> due]

Sweep(w) ==
  /\ worker[w].pc = "idle"
  /\ Len(jobs) <= MaxRows
  /\ \E q \in SweepOrders :
       worker' = [worker EXCEPT ![w] = NextJob(FirstJobs(q))]
  /\ UNCHANGED <<jobs, enqueuer, sent, now, issued, faults>>

\* { ...row, status, attemptCount, nextAttemptAt }; nobody reads the time of a row
\* that is confirmed or failed.
Patch(row, status, attempt, next) ==
  [key |-> row.key, job |-> row.job, status |-> status, attempt |-> attempt, next |-> next]

\* The job in hand as this attempt records it.
Attempted(w) == LET job == Head(worker[w].due)
                IN  Patch(job, "submitted", job.attempt + 1, job.next)

Confirmed(w) == Patch(Attempted(w), "confirmed", Attempted(w).attempt, now)

\* Mutation: one attempt too many.
WillRetry_OffByOne(attempt) == attempt <= MaxAttempts

WillRetry(attempt) == attempt < MaxAttempts

GivenBack(w) ==
  LET row == Attempted(w) IN
  IF WillRetry(row.attempt)
  THEN Patch(row, "queued", row.attempt, now + Backoff[row.attempt])
  ELSE Patch(row, "failed", row.attempt, now)

Tx(row) == [key |-> row.key, job |-> row.job, attempt |-> row.attempt]

MoveTo(w, pc) == worker' = [worker EXCEPT ![w].pc = pc]

Finish(w) == worker' = [worker EXCEPT ![w] = NextJob(Tail(@.due))]

\* Mutation: the attempt is not recorded before the transaction is sent.
AppendSubmitted_Unlogged(w) ==
  /\ worker[w].pc = "submit"
  /\ MoveTo(w, "send")
  /\ UNCHANGED <<jobs, enqueuer, sent, now, issued, faults>>

AppendSubmitted(w) ==
  /\ worker[w].pc = "submit"
  /\ jobs' = Append(jobs, Attempted(w))
  /\ MoveTo(w, "send")
  /\ UNCHANGED <<enqueuer, sent, now, issued, faults>>

\* writeContract or sendTransaction puts the transaction on the network.
Broadcast(w) ==
  /\ worker[w].pc = "send"
  /\ sent' = sent \cup {Tx(Attempted(w))}
  /\ MoveTo(w, "receipt")
  /\ UNCHANGED <<jobs, enqueuer, now, issued, faults>>

\* waitForTransactionReceipt returned; the confirmation is recorded.
AppendConfirmed(w) ==
  /\ worker[w].pc = "receipt"
  /\ jobs' = Append(jobs, Confirmed(w))
  /\ Finish(w)
  /\ UNCHANGED <<enqueuer, sent, now, issued, faults>>

\* The catch block: a gateway error before the broadcast, a receipt timeout
\* after it, or (with a fault) a failed append of the row itself.
AppendFailure(w) ==
  /\ worker[w].pc # "idle"
  /\ IF worker[w].pc = "submit"
     THEN faults < MaxFaults /\ faults' = faults + 1
     ELSE UNCHANGED faults
  /\ jobs' = Append(jobs, GivenBack(w))
  /\ Finish(w)
  /\ UNCHANGED <<enqueuer, sent, now, issued>>

\* The append in the catch block throws: the sweep ends with its jobs undone.
SweepAborts(w) ==
  /\ worker[w].pc # "idle"
  /\ faults < MaxFaults
  /\ faults' = faults + 1
  /\ worker' = [worker EXCEPT ![w] = Idle]
  /\ UNCHANGED <<jobs, enqueuer, sent, now, issued>>

\* The process dies with every handler it was running; only the file is left.
Crash ==
  /\ faults < MaxFaults
  /\ faults' = faults + 1
  /\ enqueuer' = [e \in Enqueuers |-> NoRow]
  /\ worker' = [w \in Workers |-> Idle]
  /\ UNCHANGED <<jobs, sent, now, issued>>

\* Time matters only while a retry lies in the future, so it passes only then.
Tick ==
  /\ \E s \in Keys(jobs) : Latest(jobs, s).status \in DueStatuses /\ Latest(jobs, s).next > now
  /\ now' = now + 1
  /\ UNCHANGED <<jobs, enqueuer, worker, sent, issued, faults>>

-----------------------------------------------------------------------------
Enqueue == \E e \in Enqueuers :
             \/ \E s \in Submissions, readable \in BOOLEAN : EnqueueRead(e, s, readable)
             \/ EnqueueAppend(e)
             \/ EnqueueThrows(e)

WorkerStep(w) ==
  AppendSubmitted(w) \/ Broadcast(w) \/ AppendConfirmed(w) \/ AppendFailure(w)

Next ==
  \/ Enqueue
  \/ \E w \in Workers : Sweep(w) \/ WorkerStep(w) \/ SweepAborts(w)
  \/ Crash
  \/ Tick

Spec == Init /\ [][Next]_vars

\* A handler that started keeps running and time passes; that an operator keeps
\* pressing "process" is an assumption about people, made only here.
FairSpec ==
  /\ Spec
  /\ WF_vars(Tick)
  /\ \A w \in Workers : WF_vars(Sweep(w)) /\ WF_vars(WorkerStep(w))

-----------------------------------------------------------------------------
(* Properties. *)

HasLatest(s, statuses) == Has(jobs, s) /\ Latest(jobs, s).status \in statuses

\* Every ledger row, row in hand, transaction and counter has its type; a sweep
\* is idle exactly when it has no job left.
TypeOK ==
  /\ jobs \in Seq(Row)
  /\ enqueuer \in [Enqueuers -> Row \cup {NoRow}]
  /\ worker \in [Workers -> [pc : {"idle", "submit", "send", "receipt"}, due : Seq(Row)]]
  /\ \A w \in Workers : worker[w].pc = "idle" <=> worker[w].due = << >>
  /\ sent \subseteq [key : Submissions, job : Nat, attempt : Nat]
  /\ now \in Nat /\ issued \in Nat /\ faults \in Nat

\* "Queue mint jobs exactly once per submission": a first row of a job comes
\* only when the submission has no job yet or its last one was given up. This is
\* about enqueueMintJobForApprovedSubmission's check before its append.
QueuedOnce ==
  \A i \in DOMAIN jobs :
    jobs[i].attempt = 0 /\ jobs[i].status = "queued" =>
      LET before == SubSeq(jobs, 1, i - 1) IN
      Has(before, jobs[i].key) => Latest(before, jobs[i].key).status = "failed"

\* The backoff is honoured: an attempt that appends a "submitted" row starts
\* only when the row it follows was due.
BackoffHonoured ==
  [][\A s \in Submissions :
       /\ Has(jobs, s) /\ Latest(jobs', s) # Latest(jobs, s)
       /\ Latest(jobs', s).status = "submitted"
       => Latest(jobs, s).next <= now]_vars

\* No transaction reaches the chain that the ledger does not already show as
\* submitted, so an operator reading the ledger after a crash knows every
\* attempt that may have minted.
EveryTxIsLogged ==
  \A tx \in sent : \E i \in DOMAIN jobs : jobs[i].status = "submitted" /\ Tx(jobs[i]) = tx

\* The rows that record an attempt of the row's job.
Attempts(row) ==
  {i \in DOMAIN jobs :
     jobs[i].status = "submitted" /\ jobs[i].key = row.key /\ jobs[i].job = row.job}

\* A job is attempted at most ONCHAIN_MINT_RETRY_POLICY.maxAttempts times, and once
\* more for every crash or failed write: an attempt cut short leaves its job
\* "submitted", which is due again, with its count already at the limit or not.
RetryBudget ==
  \A i \in DOMAIN jobs : Cardinality(Attempts(jobs[i])) <= MaxAttempts + faults

\* Seen per submission, the queue is the abstract job lifecycle.
Phase(s) == IF Has(jobs, s) THEN Latest(jobs, s).status ELSE "none"

Lifecycle == INSTANCE JobLifecycle WITH phase <- [s \in Submissions |-> Phase(s)]

\* Every step of the queue is a step of the lifecycle or none at all: a confirmed
\* job is final, and only an unsubmitted or given-up one leads to a new job.
ImplementsLifecycle == Lifecycle!Spec

\* Every queued or interrupted job is eventually confirmed or given up, with
\* several jobs competing for a sweep of Limit jobs and crashes in between.
JobsSettle ==
  \A s \in Submissions :
    HasLatest(s, {"queued", "submitted"}) ~> HasLatest(s, {"confirmed", "failed"})
=============================================================================

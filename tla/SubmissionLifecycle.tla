------------------------- MODULE SubmissionLifecycle -------------------------
(***************************************************************************)
(* What the artwork registry promises for each submission, with ledgers,   *)
(* handlers and files abstracted away: an operator may decide and decide   *)
(* again until the artist withdraws, which is final; the artist may        *)
(* withdraw or change the number of editions only while the review is open *)
(* and no collector has held the work.                                     *)
(***************************************************************************)
EXTENDS Naturals

CONSTANTS Submissions, MaxMint

VARIABLES
  status,  \* the review status
  mint,    \* how many editions an approval authorises
  sold     \* whether a collector has ever held the work

Open == {"pending_review", "changes_requested"}
Decisions == Open \cup {"approved", "rejected"}
Mints == 1 .. MaxMint

Init ==
  /\ status = [s \in Submissions |-> "none"]
  /\ mint = [s \in Submissions |-> 0]
  /\ sold = [s \in Submissions |-> FALSE]

Set(s, st, m) ==
  /\ status' = [status EXCEPT ![s] = st]
  /\ mint' = [mint EXCEPT ![s] = m]
  /\ UNCHANGED sold

Register(s) == status[s] = "none" /\ \E m \in Mints : Set(s, "pending_review", m)

Decide(s) ==
  /\ status[s] \in Decisions
  /\ \E st \in Decisions, m \in Mints :
       (status[s] \notin Open => m = mint[s]) /\ Set(s, st, m)

Withdraw(s) == status[s] \in Open /\ ~sold[s] /\ Set(s, "withdrawn", mint[s])

EditEdition(s) ==
  status[s] \in Open /\ ~sold[s] /\ \E m \in Mints : Set(s, status[s], m)

Sell(s) ==
  /\ status[s] # "none"
  /\ sold' = [sold EXCEPT ![s] = TRUE]
  /\ UNCHANGED <<status, mint>>

Next == \E s \in Submissions :
          Register(s) \/ Decide(s) \/ Withdraw(s) \/ EditEdition(s) \/ Sell(s)

Spec == Init /\ [][Next]_<<status, mint, sold>>
=============================================================================

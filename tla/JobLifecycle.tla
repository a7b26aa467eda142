---------------------------- MODULE JobLifecycle ----------------------------
(***************************************************************************)
(* What the mint queue promises for each approved submission, with the     *)
(* ledger, the workers and the clock abstracted away: one job at a time,   *)
(* retried until it is confirmed, which is final, or given up, after which *)
(* a later approval may queue a fresh job.                                 *)
(***************************************************************************)
CONSTANT Submissions

VARIABLE phase

Phases == {"none", "queued", "submitted", "confirmed", "failed"}

TypeOK == phase \in [Submissions -> Phases]

Init == phase = [s \in Submissions |-> "none"]

Move(s, from, to) ==
  /\ phase[s] \in from
  /\ phase' = [phase EXCEPT ![s] = to]

Queue(s) == Move(s, {"none", "failed"}, "queued")
Attempt(s) == Move(s, {"queued", "submitted"}, "submitted")
Confirm(s) == Move(s, {"submitted"}, "confirmed")
Retry(s) == Move(s, {"submitted"}, "queued")
GiveUp(s) == Move(s, {"queued", "submitted"}, "failed")

Next == \E s \in Submissions :
          Queue(s) \/ Attempt(s) \/ Confirm(s) \/ Retry(s) \/ GiveUp(s)

Spec == Init /\ [][Next]_phase
=============================================================================

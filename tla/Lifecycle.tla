----------------------------- MODULE Lifecycle -----------------------------
(***************************************************************************)
(* What the control plane promises about one job, with workers, leases,    *)
(* clocks, locks and messages left out.  A job is a row that moves by      *)
(* itself: its state, the number of attempts it may use, and the states of *)
(* the attempts it has used, oldest first.                                 *)
(*                                                                         *)
(* JobStore (one action per transaction) and Transactions (one action per  *)
(* SQL statement) are both shown to implement this specification.          *)
(***************************************************************************)
EXTENDS Naturals, Sequences

CONSTANT Job

VARIABLE rows

Active == {"LEASED", "RUNNING"}
JobState == Active \cup
            {"ABSENT", "QUEUED", "SUCCEEDED", "FAILED", "CANCELLED"}
AttemptState == Active \cup {"SUCCEEDED", "FAILED", "EXPIRED", "CANCELLED"}

Row == [state : JobState, budget : Nat \ {0}, history : Seq(AttemptState)]

Init == \A j \in Job : /\ rows[j].state = "ABSENT"
                       /\ rows[j].budget > 0
                       /\ rows[j].history = <<>>

-----------------------------------------------------------------------------
(* The steps of one row, from old to new.                                  *)

Submitted(old, new) ==
  /\ old.state = "ABSENT" /\ new.state = "QUEUED"
  /\ new.budget = old.budget
  /\ new.history = <<>>

(* A new attempt is added while the budget has room for it.                *)
Leased(old, new) ==
  /\ old.state = "QUEUED" /\ new.state = "LEASED"
  /\ Len(old.history) < old.budget
  /\ new.budget = old.budget
  /\ new.history = Append(old.history, "LEASED")

(* Only the latest attempt of an active job ever changes, and only while   *)
(* it is active itself.                                                    *)
Moved(old, new, to) ==
  /\ old.state \in Active
  /\ Len(old.history) > 0
  /\ old.history[Len(old.history)] = old.state
  /\ new.budget = old.budget
  /\ new.history = [old.history EXCEPT ![Len(old.history)] = to]

Started(old, new) ==
  Moved(old, new, "RUNNING") /\ new.state = "RUNNING"

Succeeded(old, new) ==
  /\ old.state = "RUNNING" /\ new.state = "SUCCEEDED"
  /\ Moved(old, new, "SUCCEEDED")

(* An attempt that fails or expires puts the job back in the queue exactly *)
(* when the budget has room for another one.                               *)
Lost(old, new) ==
  /\ \/ Moved(old, new, "EXPIRED")
     \/ Moved(old, new, "FAILED") /\ old.state = "RUNNING"
  /\ new.state = IF Len(old.history) < old.budget THEN "QUEUED" ELSE "FAILED"

Cancelled(old, new) ==
  /\ new.state = "CANCELLED"
  /\ \/ Moved(old, new, "CANCELLED")
     \/ old.state = "QUEUED" /\ new.budget = old.budget
                             /\ new.history = old.history

Retried(old, new) ==
  /\ old.state = "FAILED" /\ new.state = "QUEUED"
  /\ new.budget = old.budget + 1
  /\ new.history = old.history

Step(old, new) ==
  \/ Submitted(old, new) \/ Leased(old, new) \/ Started(old, new)
  \/ Succeeded(old, new) \/ Lost(old, new) \/ Cancelled(old, new)
  \/ Retried(old, new)

(* One transaction may move several jobs: a batch submission, a reaper     *)
(* pass.                                                                   *)
Next == \A j \in Job : rows'[j] = rows[j] \/ Step(rows[j], rows'[j])

Spec == Init /\ [][Next]_rows

-----------------------------------------------------------------------------
(* What every step preserves: earlier attempts have failed or expired; the *)
(* latest one and the job agree while it is active and once it has         *)
(* succeeded or was cancelled; a queued job has budget left and a failed   *)
(* one has none.                                                           *)
RowInv(row) ==
  LET h == row.history
      n == Len(h)
  IN /\ \A i \in 1 .. n - 1 : h[i] \in {"FAILED", "EXPIRED"}
     /\ row.state \in Active \cup {"SUCCEEDED"} => n > 0 /\ h[n] = row.state
     /\ n > 0 /\ h[n] \in Active \cup {"SUCCEEDED", "CANCELLED"} =>
          row.state = h[n]
     /\ n <= row.budget
     /\ row.state = "QUEUED" => n < row.budget
     /\ row.state = "FAILED" => n = row.budget
     /\ row.state = "ABSENT" => n = 0
=============================================================================

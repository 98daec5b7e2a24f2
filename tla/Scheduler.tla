----------------------------- MODULE Scheduler -----------------------------
(* The states of jobs and attempts, and the rules of internal/scheduler    *)
(* that the transactions of internal/store apply to them.                  *)
EXTENDS Integers

Active == {"LEASED", "RUNNING"}
JobState == Active \cup
            {"ABSENT", "QUEUED", "SUCCEEDED", "FAILED", "CANCELLED"}
AttemptState == Active \cup {"SUCCEEDED", "FAILED", "EXPIRED", "CANCELLED"}

least(a, b) == IF a <= b THEN a ELSE b

(* Mutant: one attempt too many.                                           *)
RetryStateOffByOne(number, max) ==
  IF number <= max THEN "QUEUED" ELSE "FAILED"

RetryState(number, max) == IF number < max THEN "QUEUED" ELSE "FAILED"

(* lease_expires_at > now AND deadline_at > now, where an attempt carries  *)
(* the ticks left until the two.                                           *)
Valid(a) == a.lease > 0 /\ a.deadline > 0

(* Mutant: an attempt that was never started is overlooked.                *)
ExpiredRunning(a) == a.state = "RUNNING" /\ a.lease = 0

(* state IN ('LEASED','RUNNING') AND lease_expires_at <= now               *)
Expired(a) == a.state \in Active /\ a.lease = 0

(* One tick passes for an attempt.                                         *)
Aged(a) == [a EXCEPT !.lease = IF @ > 0 THEN @ - 1 ELSE 0,
                     !.deadline = IF @ > 0 THEN @ - 1 ELSE 0]
=============================================================================

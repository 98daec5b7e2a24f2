------------------------------ MODULE JobStore ------------------------------
(***************************************************************************)
(* The durable state of the control plane (internal/store) and the         *)
(* transactions that change it, one action for each.  A transaction that   *)
(* ends in an error rolls back, so an error path is a step that changes    *)
(* nothing and has no action of its own.                                   *)
(*                                                                         *)
(* Time is kept as what remains: an attempt carries the ticks left until   *)
(* lease_expires_at and until deadline_at, and Tick lets one pass.  An     *)
(* attempt's number is its position in attempts[j]; its id and its lease   *)
(* token are drawn together at random, handed out together and compared    *)
(* together, so the pair <<j, n>> stands for both.                         *)
(***************************************************************************)
EXTENDS Scheduler, Sequences, FiniteSets

CONSTANTS
  Job,           \* jobs clients may submit, named by their idempotency key
  Worker,        \* worker ids
  Session,       \* session ids, one per worker process
  NoSession,     \* the session of a worker id nobody registered
  Resource,      \* cpu, memory_mb, gpu
  Need,          \* Need[j][r]: what job j reserves
  Capacity,      \* Capacity[w][r]: what worker w declares
  MaxAttempts,   \* MaxAttempts[j]: definition.max_attempts
  Timeout,       \* Timeout[j]: timeout_seconds, in ticks
  LeaseSeconds,  \* the server's lease, in ticks
  Key,           \* object keys below an attempt's prefix
  Checksum,      \* contents
  Upload,        \* the artifact lists a worker may report
  MaxBudget,     \* largest max_attempts the integer column holds
  ReapLimit      \* jobs one reaper pass takes (100)

Artifact == [object_key : Key, checksum : Checksum,
             kind : {"checkpoint", "output", "log"}]

ASSUME JobAssumption ==
  /\ MaxAttempts \in [Job -> Nat \ {0}]
  /\ Timeout \in [Job -> Nat \ {0}]
  /\ LeaseSeconds \in Nat \ {0}
  /\ MaxBudget \in Nat
  /\ ReapLimit \in Nat

ASSUME ResourceAssumption ==
  /\ Need \in [Job -> [Resource -> Nat]]
  /\ Capacity \in [Worker -> [Resource -> Nat]]

(* A worker names every object with a fresh uuid, so one report never      *)
(* names an object twice.                                                  *)
ASSUME UploadAssumption ==
  /\ Upload \subseteq Seq(Artifact)
  /\ \A u \in Upload : \A i, k \in DOMAIN u :
       u[i].object_key = u[k].object_key => i = k

ASSUME SessionAssumption == NoSession \notin Session

VARIABLES
  jobs,        \* jobs[j]: state and max_attempts
  attempts,    \* attempts[j]: the attempts of j, oldest first
  workers,     \* workers[w]: session and state
  artifacts,   \* artifacts[j]: artifact rows in the order of created_at
  last_event   \* last_event[j]: type of the newest event of j

vars == <<jobs, attempts, workers, artifacts, last_event>>

-----------------------------------------------------------------------------
EventType == {"NONE", "SUBMITTED", "cancel", "retry", "LEASED",
              "StartAttempt", "ReportProgress", "CompleteAttempt",
              "FailAttempt", "LEASE_EXPIRED"}

JobRow == [state : JobState, max_attempts : Nat \ {0}]
Attempt == [state : AttemptState, worker : Worker,
            lease : Nat, deadline : Nat, checkpoint : Nat]
WorkerRow == [session : Session \cup {NoSession},
              state : {"UNREGISTERED", "ACTIVE", "DRAINING"}]
ArtifactRow == [attempt : Nat, artifact : Artifact]

TypeOK ==
  /\ jobs \in [Job -> JobRow]
  /\ attempts \in [Job -> Seq(Attempt)]
  /\ workers \in [Worker -> WorkerRow]
  /\ artifacts \in [Job -> Seq(ArtifactRow)]
  /\ last_event \in [Job -> EventType]

Init ==
  /\ jobs = [j \in Job |-> [state |-> "ABSENT",
                            max_attempts |-> MaxAttempts[j]]]
  /\ attempts = [j \in Job |-> <<>>]
  /\ workers = [w \in Worker |-> [session |-> NoSession,
                                  state |-> "UNREGISTERED"]]
  /\ artifacts = [j \in Job |-> <<>>]
  /\ last_event = [j \in Job |-> "NONE"]

-----------------------------------------------------------------------------
(* Helpers.                                                                *)

(* Mutant: the renewal forgets the deadline.                               *)
RenewedUnclipped(a) == LeaseSeconds

(* least(deadline_at, now + LeaseSeconds)                                  *)
Renewed(a) == least(a.deadline, LeaseSeconds)

KnownSession(w, s) ==
  workers[w].state # "UNREGISTERED" /\ workers[w].session = s

(* The attempts that hold resources of w, and what they hold of r unit by  *)
(* unit: the number of units is sum(j.r) over those attempts.              *)
Held(w) ==
  {h \in UNION {{j} \X DOMAIN attempts[j] : j \in Job} :
     /\ attempts[h[1]][h[2]].worker = w
     /\ attempts[h[1]][h[2]].state \in Active}
Units(w, r) == UNION {{h} \X (1 .. Need[h[1]][r]) : h \in Held(w)}
used(w, r) == Cardinality(Units(w, r))

(* Mutant: each job is compared with the whole worker.                     *)
FitsAlone(j, w) == \A r \in Resource : Need[j][r] <= Capacity[w][r]

Fits(j, w) == \A r \in Resource : used(w, r) + Need[j][r] <= Capacity[w][r]

(* Mutant: the checkpoints are read in ascending order.                    *)
OldestCheckpoint(j, c) ==
  /\ c > 0 => artifacts[j][c].artifact.kind = "checkpoint"
  /\ \A i \in DOMAIN artifacts[j] :
       c = 0 \/ i < c => artifacts[j][i].artifact.kind # "checkpoint"

(* Row c of artifacts[j] is the newest checkpoint; c = 0 is none.          *)
LatestCheckpoint(j, c) ==
  /\ c > 0 => artifacts[j][c].artifact.kind = "checkpoint"
  /\ \A i \in c + 1 .. Len(artifacts[j]) :
       artifacts[j][i].artifact.kind # "checkpoint"

-----------------------------------------------------------------------------
(* Client operations.                                                      *)

(* Submit: one transaction for the whole batch.  A job whose idempotency   *)
(* key exists is left as it is; the others are inserted QUEUED.            *)
Submit(batch) ==
  LET new == {j \in batch : jobs[j].state = "ABSENT"} IN
  /\ jobs' = [j \in Job |-> IF j \in new
                            THEN [jobs[j] EXCEPT !.state = "QUEUED"]
                            ELSE jobs[j]]
  /\ last_event' = [j \in Job |-> IF j \in new THEN "SUBMITTED"
                                               ELSE last_event[j]]
  /\ UNCHANGED <<attempts, workers, artifacts>>

(* Mutant: the active attempt is left behind.                              *)
CancelJobOnly(j) ==
  /\ jobs[j].state \notin {"ABSENT", "SUCCEEDED", "FAILED"}
  /\ jobs' = [jobs EXCEPT ![j].state = "CANCELLED"]
  /\ last_event' = [last_event EXCEPT ![j] = "cancel"]
  /\ UNCHANGED <<attempts, workers, artifacts>>

(* Mutant: a failed job can be cancelled.                                  *)
CancelFailed(j) ==
  /\ jobs[j].state \in {"QUEUED", "FAILED"}
  /\ jobs' = [jobs EXCEPT ![j].state = "CANCELLED"]
  /\ last_event' = [last_event EXCEPT ![j] = "cancel"]
  /\ UNCHANGED <<attempts, workers, artifacts>>

(* Action "cancel": refused for SUCCEEDED and FAILED jobs; the active      *)
(* attempt, if any, ends with the job.                                     *)
Cancel(j) ==
  /\ jobs[j].state \notin {"ABSENT", "SUCCEEDED", "FAILED"}
  /\ attempts' = [attempts EXCEPT ![j] =
       [n \in DOMAIN attempts[j] |->
          IF attempts[j][n].state \in Active
          THEN [attempts[j][n] EXCEPT !.state = "CANCELLED"]
          ELSE attempts[j][n]]]
  /\ jobs' = [jobs EXCEPT ![j].state = "CANCELLED"]
  /\ last_event' = [last_event EXCEPT ![j] = "cancel"]
  /\ UNCHANGED <<workers, artifacts>>

(* Action "retry": a FAILED job gets one more attempt.                     *)
Retry(j) ==
  /\ jobs[j].state = "FAILED"
  /\ jobs[j].max_attempts < MaxBudget
  /\ jobs' = [jobs EXCEPT ![j].state = "QUEUED",
                          ![j].max_attempts = @ + 1]
  /\ last_event' = [last_event EXCEPT ![j] = "retry"]
  /\ UNCHANGED <<attempts, workers, artifacts>>

-----------------------------------------------------------------------------
(* Worker operations.                                                      *)

(* Mutant: registering again in the same session resets the state.         *)
RegisterWorkerAgain(w, s) ==
  /\ workers[w].session \in {NoSession, s}
  /\ workers' = [workers EXCEPT ![w] = [session |-> s, state |-> "ACTIVE"]]
  /\ UNCHANGED <<jobs, attempts, artifacts, last_event>>

(* Registering again in the same session changes nothing; in another       *)
(* session, or with other resources, it is a conflict.                     *)
RegisterWorker(w, s) ==
  /\ workers[w].state = "UNREGISTERED"
  /\ workers' = [workers EXCEPT ![w] = [session |-> s, state |-> "ACTIVE"]]
  /\ UNCHANGED <<jobs, attempts, artifacts, last_event>>

ReleaseWorker(w, s) ==
  /\ KnownSession(w, s)
  /\ workers' = [workers EXCEPT ![w].state = "DRAINING"]
  /\ UNCHANGED <<jobs, attempts, artifacts, last_event>>

(* Any queued job that fits may be the one found, and the answer may be    *)
(* idle while there is one: the query takes the oldest row that no other   *)
(* transaction has locked.  Transactions has the order and the locks.      *)
LeaseJob(w, s) ==
  /\ KnownSession(w, s) /\ workers[w].state = "ACTIVE"
  /\ \E j \in Job :
       /\ jobs[j].state = "QUEUED" /\ Fits(j, w)
       /\ Len(attempts[j]) + 1 <= jobs[j].max_attempts
       /\ \E c \in 0 .. Len(artifacts[j]) :
            /\ LatestCheckpoint(j, c)
            /\ attempts' = [attempts EXCEPT ![j] = Append(@,
                 [state |-> "LEASED", worker |-> w,
                  lease |-> least(LeaseSeconds, Timeout[j]),
                  deadline |-> Timeout[j], checkpoint |-> c])]
       /\ jobs' = [jobs EXCEPT ![j].state = "LEASED"]
       /\ last_event' = [last_event EXCEPT ![j] = "LEASED"]
  /\ UNCHANGED <<workers, artifacts>>

(* What every operation on an attempt checks, under the locks on the       *)
(* worker, the job and the attempt.                                        *)
Fenced(w, s, j, n) ==
  /\ KnownSession(w, s)
  /\ attempts[j][n].worker = w
  /\ Valid(attempts[j][n])
  /\ jobs[j].state \in Active
  /\ attempts[j][n].state \in Active

(* Heartbeat: the lease is renewed up to the deadline; no event.           *)
Heartbeat(w, s, j, n) ==
  /\ Fenced(w, s, j, n)
  /\ attempts' = [attempts EXCEPT ![j][n].lease = Renewed(attempts[j][n])]
  /\ UNCHANGED <<jobs, workers, artifacts, last_event>>

(* StartAttempt: repeated under a new request id it only adds an event.    *)
StartAttempt(w, s, j, n) ==
  /\ Fenced(w, s, j, n)
  /\ attempts' = [attempts EXCEPT ![j][n].state = "RUNNING"]
  /\ jobs' = IF attempts[j][n].state = "LEASED"
             THEN [jobs EXCEPT ![j].state = "RUNNING"] ELSE jobs
  /\ last_event' = [last_event EXCEPT ![j] = "StartAttempt"]
  /\ UNCHANGED <<workers, artifacts>>

(* The artifacts of a report are inserted in order, except those that are  *)
(* there already; one that is there with other contents is a conflict.     *)
RecordArtifacts(j, n, upload) ==
  LET rows == [i \in DOMAIN upload |->
                 [attempt |-> n, artifact |-> upload[i]]]
      known == {artifacts[j][i] : i \in DOMAIN artifacts[j]}
      fresh == {i \in DOMAIN rows : rows[i] \notin known}
      Same(r, q) == r.attempt = q.attempt
                    /\ r.artifact.object_key = q.artifact.object_key
  IN /\ \A i \in DOMAIN rows : \A r \in known :
          Same(r, rows[i]) => r = rows[i]
     /\ \E pick \in [1 .. Cardinality(fresh) -> fresh] :
          /\ \A a, b \in DOMAIN pick : a < b => pick[a] < pick[b]
          /\ artifacts' = [artifacts EXCEPT ![j] =
                             @ \o [k \in DOMAIN pick |-> rows[pick[k]]]]

ReportProgress(w, s, j, n, upload) ==
  /\ Fenced(w, s, j, n) /\ attempts[j][n].state = "RUNNING"
  /\ RecordArtifacts(j, n, upload)
  /\ last_event' = [last_event EXCEPT ![j] = "ReportProgress"]
  /\ UNCHANGED <<jobs, attempts, workers>>

CompleteAttempt(w, s, j, n, upload) ==
  /\ Fenced(w, s, j, n) /\ attempts[j][n].state = "RUNNING"
  /\ RecordArtifacts(j, n, upload)
  /\ attempts' = [attempts EXCEPT ![j][n].state = "SUCCEEDED"]
  /\ jobs' = [jobs EXCEPT ![j].state = "SUCCEEDED"]
  /\ last_event' = [last_event EXCEPT ![j] = "CompleteAttempt"]
  /\ UNCHANGED workers

(* Mutant: the two states are swapped.                                     *)
FailAttemptSwapped(w, s, j, n, upload) ==
  /\ Fenced(w, s, j, n) /\ attempts[j][n].state = "RUNNING"
  /\ RecordArtifacts(j, n, upload)
  /\ attempts' = [attempts EXCEPT ![j][n].state =
                    RetryState(n, jobs[j].max_attempts)]
  /\ jobs' = [jobs EXCEPT ![j].state = "FAILED"]
  /\ last_event' = [last_event EXCEPT ![j] = "FailAttempt"]
  /\ UNCHANGED workers

(* Mutant: the attempt row keeps its state.                                *)
FailAttemptJobOnly(w, s, j, n, upload) ==
  /\ Fenced(w, s, j, n) /\ attempts[j][n].state = "RUNNING"
  /\ RecordArtifacts(j, n, upload)
  /\ jobs' = [jobs EXCEPT ![j].state = RetryState(n, jobs[j].max_attempts)]
  /\ last_event' = [last_event EXCEPT ![j] = "FailAttempt"]
  /\ UNCHANGED <<attempts, workers>>

FailAttempt(w, s, j, n, upload) ==
  /\ Fenced(w, s, j, n) /\ attempts[j][n].state = "RUNNING"
  /\ RecordArtifacts(j, n, upload)
  /\ attempts' = [attempts EXCEPT ![j][n].state = "FAILED"]
  /\ jobs' = [jobs EXCEPT ![j].state = RetryState(n, jobs[j].max_attempts)]
  /\ last_event' = [last_event EXCEPT ![j] = "FailAttempt"]
  /\ UNCHANGED workers

-----------------------------------------------------------------------------
(* The reaper and the clock.                                               *)

Reapable ==
  {j \in Job : /\ jobs[j].state \in Active
               /\ \E n \in DOMAIN attempts[j] : Expired(attempts[j][n])}

ExpiredAttempt(j) ==
  CHOOSE n \in DOMAIN attempts[j] : Expired(attempts[j][n])

(* Mutant: the pass writes no event.                                       *)
ReapSilently(batch) ==
  /\ batch \subseteq Reapable /\ Cardinality(batch) <= ReapLimit
  /\ attempts' = [j \in Job |->
       IF j \in batch
       THEN [attempts[j] EXCEPT ![ExpiredAttempt(j)].state = "EXPIRED"]
       ELSE attempts[j]]
  /\ jobs' = [j \in Job |->
       IF j \in batch
       THEN [jobs[j] EXCEPT !.state = RetryState(ExpiredAttempt(j),
                                                 jobs[j].max_attempts)]
       ELSE jobs[j]]
  /\ UNCHANGED <<workers, artifacts, last_event>>

(* One pass over the jobs the query returns: rows locked by another        *)
(* transaction are skipped, and at most ReapLimit are taken.               *)
Reap(batch) ==
  /\ batch \subseteq Reapable /\ Cardinality(batch) <= ReapLimit
  /\ attempts' = [j \in Job |->
       IF j \in batch
       THEN [attempts[j] EXCEPT ![ExpiredAttempt(j)].state = "EXPIRED"]
       ELSE attempts[j]]
  /\ jobs' = [j \in Job |->
       IF j \in batch
       THEN [jobs[j] EXCEPT !.state = RetryState(ExpiredAttempt(j),
                                                 jobs[j].max_attempts)]
       ELSE jobs[j]]
  /\ last_event' = [j \in Job |-> IF j \in batch THEN "LEASE_EXPIRED"
                                                 ELSE last_event[j]]
  /\ UNCHANGED <<workers, artifacts>>

Tick ==
  /\ attempts' = [j \in Job |->
       [n \in DOMAIN attempts[j] |-> Aged(attempts[j][n])]]
  /\ UNCHANGED <<jobs, workers, artifacts, last_event>>

-----------------------------------------------------------------------------
Next ==
  \/ \E batch \in SUBSET Job : Submit(batch)
  \/ \E j \in Job : Cancel(j) \/ Retry(j)
  \/ \E w \in Worker, s \in Session :
       \/ RegisterWorker(w, s) \/ ReleaseWorker(w, s) \/ LeaseJob(w, s)
       \/ \E j \in Job : \E n \in DOMAIN attempts[j] :
            \/ Heartbeat(w, s, j, n) \/ StartAttempt(w, s, j, n)
            \/ \E u \in Upload : \/ ReportProgress(w, s, j, n, u)
                                 \/ CompleteAttempt(w, s, j, n, u)
                                 \/ FailAttempt(w, s, j, n, u)
  \/ \E batch \in SUBSET Job : Reap(batch)
  \/ Tick

Spec == Init /\ [][Next]_vars

(* Time passes, and the reaper runs every second in every server           *)
(* (cmd/server/main.go): a job whose lease stays expired is in some pass,  *)
(* because the row locks that make a pass skip it are held for the length  *)
(* of one transaction.  Nothing is assumed of clients and workers.         *)
Fairness ==
  /\ WF_vars(Tick)
  /\ \A j \in Job : WF_vars(\E batch \in SUBSET Job :
                               j \in batch /\ Reap(batch))

FairSpec == Spec /\ Fairness

-----------------------------------------------------------------------------
(* Properties.                                                             *)

Latest(j) == attempts[j][Len(attempts[j])]

(* Job row and attempt rows never disagree (workers.go and reaper.go write *)
(* them in pairs): at most the latest attempt is active, it is active      *)
(* exactly when the job is, in the same state; earlier ones have failed or *)
(* expired; a job has succeeded exactly when its latest attempt has, and a *)
(* cancelled attempt means a cancelled job.                                *)
AttemptsAgree ==
  \A j \in Job :
    /\ \A n \in 1 .. Len(attempts[j]) - 1 :
         attempts[j][n].state \in {"FAILED", "EXPIRED"}
    /\ jobs[j].state \in Active \cup {"SUCCEEDED"} =>
         Len(attempts[j]) > 0 /\ Latest(j).state = jobs[j].state
    /\ Len(attempts[j]) > 0
       /\ Latest(j).state \in Active \cup {"SUCCEEDED", "CANCELLED"} =>
         jobs[j].state = Latest(j).state

(* A queued job has room for another attempt, so that lease never returns  *)
(* "attempt budget invariant violated" (workers.go:145); a job fails only  *)
(* once its whole budget is used, manual retries included.                 *)
AttemptBudget ==
  \A j \in Job :
    /\ jobs[j].state = "QUEUED" => Len(attempts[j]) < jobs[j].max_attempts
    /\ jobs[j].state = "FAILED" => Len(attempts[j]) = jobs[j].max_attempts

(* The LEASED and RUNNING attempts of a worker never reserve more of a     *)
(* resource than it declared, although capacity is only compared at the    *)
(* moment of a lease.                                                      *)
CapacityRespected ==
  \A w \in Worker, r \in Resource : used(w, r) <= Capacity[w][r]

(* Rows of two attempts never interleave: once a newer attempt has         *)
(* recorded an artifact an older one records none, however late its        *)
(* report arrives.                                                         *)
ArtifactsInOrder ==
  \A j \in Job : \A i, k \in DOMAIN artifacts[j] :
    i <= k => artifacts[j][i].attempt <= artifacts[j][k].attempt

(* An attempt resumes from the last checkpoint its predecessors recorded:  *)
(* no checkpoint of an earlier attempt is newer than the one it was        *)
(* handed, not even one recorded after the lease was granted.              *)
ResumesFromLatest ==
  \A j \in Job : \A n \in DOMAIN attempts[j] :
    LET c == attempts[j][n].checkpoint IN
    /\ c > 0 => artifacts[j][c].attempt < n
    /\ \A i \in DOMAIN artifacts[j] :
         i > c /\ artifacts[j][i].artifact.kind = "checkpoint" =>
           artifacts[j][i].attempt >= n

(* The reaper looks at lease_expires_at alone.  It still finds every       *)
(* attempt past its deadline, because no lease outlives the deadline.      *)
DeadlineCovered ==
  \A j \in Job : \A n \in DOMAIN attempts[j] :
    attempts[j][n].lease <= attempts[j][n].deadline

(* The states a job may be in after an event.                              *)
StatesAfter(event) ==
  CASE event = "NONE" -> {"ABSENT"}
    [] event \in {"SUBMITTED", "retry"} -> {"QUEUED"}
    [] event = "cancel" -> {"CANCELLED"}
    [] event = "LEASED" -> {"LEASED"}
    [] event \in {"StartAttempt", "ReportProgress"} -> {"RUNNING"}
    [] event = "CompleteAttempt" -> {"SUCCEEDED"}
    [] event \in {"FailAttempt", "LEASE_EXPIRED"} -> {"QUEUED", "FAILED"}

(* The newest event of a job tells the state its row is in: events are     *)
(* written in the transaction that moves the job.                          *)
EventsAgree == \A j \in Job : jobs[j].state \in StatesAfter(last_event[j])

(* A released worker is out for good: it is given no further attempt, and  *)
(* registering again does not bring it back.                               *)
DrainedForGood ==
  [][\A w \in Worker : workers[w].state = "DRAINING" =>
       workers'[w] = workers[w] /\ Held(w)' \subseteq Held(w)]_vars

(* The store implements the life cycle of a job: cancellation and success  *)
(* are final, finished attempts are never touched again, a retry adds one  *)
(* attempt, a lost attempt requeues the job while the budget lasts.        *)
RowOf(j) == [state |-> jobs[j].state,
             budget |-> jobs[j].max_attempts,
             history |-> [n \in DOMAIN attempts[j] |-> attempts[j][n].state]]
L == INSTANCE Lifecycle WITH rows <- [j \in Job |-> RowOf(j)]
LifecycleSpec == L!Spec

(* Every attempt ends, whatever its worker does: heartbeats cannot carry   *)
(* it past the deadline set when it was leased, and the reaper collects    *)
(* it, so a dead or stuck worker never holds a job or a reservation for    *)
(* good.                                                                   *)
AttemptEnds ==
  \A j \in Job : \A n \in 1 .. MaxBudget :
    LET Running == n \in DOMAIN attempts[j] /\ attempts[j][n].state \in Active
    IN Running ~> ~ Running
=============================================================================

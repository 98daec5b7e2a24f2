---------------------------- MODULE Transactions ----------------------------
(***************************************************************************)
(* The transactions of internal/store statement by statement, running      *)
(* side by side under READ COMMITTED.  A statement is one action.  It sees *)
(* the committed rows and the transaction's own writes; SELECT ... FOR     *)
(* UPDATE waits for the row, SKIP LOCKED passes over it; a transaction may *)
(* be rolled back between any two statements (an error, a client that went *)
(* away, a server that stopped).                                           *)
(*                                                                         *)
(* JobStore takes each transaction as a single step.  Here the order of    *)
(* reads, locks, clock readings and writes is the code's, and the question *)
(* is whether the locks it takes are enough.                               *)
(*                                                                         *)
(* The jobs are submitted and the workers registered.  The three resource  *)
(* columns are compared alike, so one stands for them.                     *)
(***************************************************************************)
EXTENDS Scheduler, Sequences, FiniteSets

CONSTANTS
  Job,           \* numbered in the order of created_at
  Worker,
  Tx,            \* connections of the pool, each running one transaction
  None,
  Need, Capacity, MaxAttempts, Timeout, LeaseSeconds,
  MaxBudget,     \* largest max_attempts the integer column holds
  ReapLimit

ASSUME TransactionsAssumption ==
  /\ Job \subseteq Nat /\ IsFiniteSet(Job)
  /\ None \notin Worker \cup Tx
  /\ Need \in [Job -> Nat] /\ Capacity \in [Worker -> Nat]
  /\ MaxAttempts \in [Job -> Nat \ {0}] /\ Timeout \in [Job -> Nat \ {0}]
  /\ LeaseSeconds \in Nat \ {0} /\ MaxBudget \in Nat /\ ReapLimit \in Nat \ {0}

VARIABLES
  rows,    \* rows[j]: committed job row with its attempts, oldest first
  pend,    \* pend[j]: the same with the writes of the transaction locking j
  jlock,   \* jlock[j]: the transaction holding the row of j, or None
  wlock,   \* wlock[w]: the transaction holding the row of w, or None
  tx       \* tx[t]: operation, next statement and local variables

vars == <<rows, pend, jlock, wlock, tx>>

Attempt == [state : AttemptState, worker : Worker, lease : Nat, deadline : Nat]
Row == [state : JobState, max_attempts : Nat \ {0}, attempts : Seq(Attempt)]

AttemptOp == {"Heartbeat", "StartAttempt", "CompleteAttempt", "FailAttempt"}
ActionOp == {"cancel", "retry"}

(* w, j and n are the arguments or what a query found; free is capacity    *)
(* less reservations; ids are the rows a query has still to go through.    *)
Local == [op : AttemptOp \cup ActionOp \cup {"LeaseJob", "Reap", "none"},
          pc : {"idle", "worker", "used", "scan", "probe", "insert", "job",
                "check", "write", "expire", "recheck", "commit"},
          w : Worker \cup {None}, j : Job \cup {0}, n : Nat,
          free : Int, ids : SUBSET Job]

Idle == [op |-> "none", pc |-> "idle", w |-> None, j |-> 0, n |-> 0,
         free |-> 0, ids |-> {}]

TypeOK ==
  /\ rows \in [Job -> Row] /\ pend \in [Job -> Row]
  /\ jlock \in [Job -> Tx \cup {None}] /\ wlock \in [Worker -> Tx \cup {None}]
  /\ tx \in [Tx -> Local]

Init ==
  /\ rows = [j \in Job |-> [state |-> "QUEUED", max_attempts |-> MaxAttempts[j],
                            attempts |-> <<>>]]
  /\ pend = rows
  /\ jlock = [j \in Job |-> None] /\ wlock = [w \in Worker |-> None]
  /\ tx = [t \in Tx |-> Idle]

-----------------------------------------------------------------------------
(* Begin, end, locks.                                                      *)

Begin(t, local) == tx[t] = Idle /\ tx' = [tx EXCEPT ![t] = local]
                   /\ UNCHANGED <<rows, pend, jlock, wlock>>

BeginLease(t, w) ==
  Begin(t, [Idle EXCEPT !.op = "LeaseJob", !.pc = "worker", !.w = w])

BeginAttempt(t, op, j, n) ==
  Begin(t, [Idle EXCEPT !.op = op, !.pc = "worker",
                        !.w = rows[j].attempts[n].worker, !.j = j, !.n = n])

BeginAction(t, op, j) == Begin(t, [Idle EXCEPT !.op = op, !.pc = "job", !.j = j])

BeginReap(t) == Begin(t, [Idle EXCEPT !.op = "Reap", !.pc = "scan"])

Goto(t, pc) == tx' = [tx EXCEPT ![t].pc = pc]

Free(t) ==
  /\ jlock' = [j \in Job |-> IF jlock[j] = t THEN None ELSE jlock[j]]
  /\ wlock' = [w \in Worker |-> IF wlock[w] = t THEN None ELSE wlock[w]]
  /\ tx' = [tx EXCEPT ![t] = Idle]

Commit(t) ==
  /\ tx[t].pc = "commit"
  /\ rows' = [j \in Job |-> IF jlock[j] = t THEN pend[j] ELSE rows[j]]
  /\ Free(t) /\ UNCHANGED pend

(* defer tx.Rollback, or the end of the connection                         *)
Rollback(t) ==
  /\ tx[t].pc # "idle"
  /\ pend' = [j \in Job |-> IF jlock[j] = t THEN rows[j] ELSE pend[j]]
  /\ Free(t) /\ UNCHANGED rows

(* Mutant: the worker row is read without FOR UPDATE.                      *)
ReadWorker(t) ==
  /\ tx[t].pc = "worker"
  /\ Goto(t, IF tx[t].op = "LeaseJob" THEN "used" ELSE "job")
  /\ UNCHANGED <<rows, pend, jlock, wlock>>

LockWorker(t) ==
  /\ tx[t].pc = "worker" /\ wlock[tx[t].w] = None
  /\ wlock' = [wlock EXCEPT ![tx[t].w] = t]
  /\ Goto(t, IF tx[t].op = "LeaseJob" THEN "used" ELSE "job")
  /\ UNCHANGED <<rows, pend, jlock>>

LockJob(t) ==
  /\ tx[t].pc = "job" /\ jlock[tx[t].j] = None
  /\ jlock' = [jlock EXCEPT ![tx[t].j] = t]
  /\ Goto(t, IF tx[t].op \in ActionOp THEN "write" ELSE "check")
  /\ UNCHANGED <<rows, pend, wlock>>

-----------------------------------------------------------------------------
(* LeaseJob.                                                               *)

(* The row has an attempt that holds its resources on worker w.            *)
Holds(row, w) ==
  \E n \in DOMAIN row.attempts :
    row.attempts[n].worker = w /\ row.attempts[n].state \in Active

Held(w) == {j \in Job : Holds(rows[j], w)}

(* The sum over the rows, counted unit by unit.                            *)
Units(w) == UNION {{j} \X (1 .. Need[j]) : j \in Held(w)}
Reserved(w) == Cardinality(Units(w))

ReadUsed(t) ==
  /\ tx[t].pc = "used"
  /\ tx' = [tx EXCEPT ![t].free = Capacity[tx[t].w] - Reserved(tx[t].w),
                      ![t].pc = "scan"]
  /\ UNCHANGED <<rows, pend, jlock, wlock>>

(* The statement takes its snapshot, and then goes through the rows of the *)
(* snapshot in the order of created_at until it can lock one.  A row that  *)
(* was changed meanwhile is tested again in its new version.               *)
ScanQueued(t) ==
  /\ tx[t].pc = "scan" /\ tx[t].op = "LeaseJob"
  /\ tx' = [tx EXCEPT ![t].pc = "probe",
              ![t].ids = {j \in Job : /\ rows[j].state = "QUEUED"
                                      /\ Need[j] <= tx[t].free}]
  /\ UNCHANGED <<rows, pend, jlock, wlock>>

(* Mutant: the version of the snapshot is taken for the current one.       *)
ProbeQueuedStale(t) ==
  /\ tx[t].pc = "probe" /\ tx[t].op = "LeaseJob" /\ tx[t].ids # {}
  /\ LET j == CHOOSE i \in tx[t].ids : \A k \in tx[t].ids : i <= k IN
     IF jlock[j] = None
     THEN /\ jlock' = [jlock EXCEPT ![j] = t]
          /\ tx' = [tx EXCEPT ![t].pc = "insert", ![t].j = j, ![t].ids = {}]
     ELSE tx' = [tx EXCEPT ![t].ids = @ \ {j}] /\ UNCHANGED jlock
  /\ UNCHANGED <<rows, pend, wlock>>

ProbeQueued(t) ==
  /\ tx[t].pc = "probe" /\ tx[t].op = "LeaseJob" /\ tx[t].ids # {}
  /\ LET j == CHOOSE i \in tx[t].ids : \A k \in tx[t].ids : i <= k IN
     IF jlock[j] = None /\ rows[j].state = "QUEUED"
     THEN /\ jlock' = [jlock EXCEPT ![j] = t]
          /\ tx' = [tx EXCEPT ![t].pc = "insert", ![t].j = j, ![t].ids = {}]
     ELSE tx' = [tx EXCEPT ![t].ids = @ \ {j}] /\ UNCHANGED jlock
  /\ UNCHANGED <<rows, pend, wlock>>

(* {"idle": true}                                                          *)
AnswerIdle(t) ==
  /\ tx[t].pc = "probe" /\ tx[t].op = "LeaseJob" /\ tx[t].ids = {}
  /\ Goto(t, "commit")
  /\ UNCHANGED <<rows, pend, jlock, wlock>>

HasActive(j) ==
  \E n \in DOMAIN rows[j].attempts : rows[j].attempts[n].state \in Active

(* The index one_active_attempt, and the budget check that follows.        *)
CanInsert(j) ==
  ~ HasActive(j) /\ Len(rows[j].attempts) + 1 <= rows[j].max_attempts

Insert(t) ==
  LET j == tx[t].j IN
  /\ tx[t].pc = "insert" /\ CanInsert(j)
  /\ pend' = [pend EXCEPT ![j].state = "LEASED",
       ![j].attempts = Append(@, [state |-> "LEASED", worker |-> tx[t].w,
                                  lease |-> least(LeaseSeconds, Timeout[j]),
                                  deadline |-> Timeout[j]])]
  /\ Goto(t, "commit")
  /\ UNCHANGED <<rows, jlock, wlock>>

-----------------------------------------------------------------------------
(* Operations on an attempt.  Check reads state and clock, Write comes     *)
(* later.                                                                  *)

Fenced(t) ==
  LET j == tx[t].j
      a == pend[j].attempts[tx[t].n]
  IN /\ Valid(a) /\ pend[j].state \in Active /\ a.state \in Active
     /\ tx[t].op \in {"CompleteAttempt", "FailAttempt"} => a.state = "RUNNING"

Check(t) ==
  /\ tx[t].pc = "check" /\ Fenced(t)
  /\ Goto(t, "write")
  /\ UNCHANGED <<rows, pend, jlock, wlock>>

(* Nobody reads the times of an attempt that has ended; they are dropped.  *)
In(a, state) ==
  [a EXCEPT !.state = state,
            !.lease = IF state \in Active THEN @ ELSE 0,
            !.deadline = IF state \in Active THEN @ ELSE 0]

Set(t, jobState, attemptState) ==
  /\ pend' = [pend EXCEPT ![tx[t].j].state = jobState,
       ![tx[t].j].attempts[tx[t].n] = In(@, attemptState)]
  /\ Goto(t, "commit")
  /\ UNCHANGED <<rows, jlock, wlock>>

WriteHeartbeat(t) ==
  /\ tx[t].pc = "write" /\ tx[t].op = "Heartbeat"
  /\ pend' = [pend EXCEPT ![tx[t].j].attempts[tx[t].n].lease =
       least(pend[tx[t].j].attempts[tx[t].n].deadline, LeaseSeconds)]
  /\ Goto(t, "commit")
  /\ UNCHANGED <<rows, jlock, wlock>>

WriteStart(t) ==
  /\ tx[t].pc = "write" /\ tx[t].op = "StartAttempt"
  /\ \/ /\ pend[tx[t].j].attempts[tx[t].n].state = "LEASED"
        /\ Set(t, "RUNNING", "RUNNING")
     \/ /\ pend[tx[t].j].attempts[tx[t].n].state = "RUNNING"
        /\ Goto(t, "commit") /\ UNCHANGED <<rows, pend, jlock, wlock>>

(* Mutant: the two states of a failure are swapped.                        *)
WriteResultSwapped(t) ==
  /\ tx[t].pc = "write"
  /\ \/ tx[t].op = "CompleteAttempt" /\ Set(t, "SUCCEEDED", "SUCCEEDED")
     \/ /\ tx[t].op = "FailAttempt"
        /\ Set(t, "FAILED", RetryState(tx[t].n, pend[tx[t].j].max_attempts))

WriteResult(t) ==
  /\ tx[t].pc = "write"
  /\ \/ tx[t].op = "CompleteAttempt" /\ Set(t, "SUCCEEDED", "SUCCEEDED")
     \/ /\ tx[t].op = "FailAttempt"
        /\ Set(t, RetryState(tx[t].n, pend[tx[t].j].max_attempts), "FAILED")

-----------------------------------------------------------------------------
(* Action.                                                                 *)

CanAct(t) ==
  LET row == pend[tx[t].j] IN
  \/ tx[t].op = "cancel" /\ row.state \notin {"SUCCEEDED", "FAILED"}
  \/ tx[t].op = "retry" /\ row.state = "FAILED" /\ row.max_attempts < MaxBudget

(* Mutant: a finished job is cancelled too.                                *)
WriteCancelAnyway(t) ==
  LET j == tx[t].j IN
  /\ tx[t].pc = "write" /\ tx[t].op = "cancel"
  /\ pend' = [pend EXCEPT ![j].state = "CANCELLED",
       ![j].attempts = [n \in DOMAIN @ |->
          IF @[n].state \in Active THEN In(@[n], "CANCELLED")
                                   ELSE @[n]]]
  /\ Goto(t, "commit")
  /\ UNCHANGED <<rows, jlock, wlock>>

WriteCancel(t) ==
  LET j == tx[t].j IN
  /\ tx[t].pc = "write" /\ tx[t].op = "cancel" /\ CanAct(t)
  /\ pend' = [pend EXCEPT ![j].state = "CANCELLED",
       ![j].attempts = [n \in DOMAIN @ |->
          IF @[n].state \in Active THEN In(@[n], "CANCELLED")
                                   ELSE @[n]]]
  /\ Goto(t, "commit")
  /\ UNCHANGED <<rows, jlock, wlock>>

WriteRetry(t) ==
  LET j == tx[t].j IN
  /\ tx[t].pc = "write" /\ tx[t].op = "retry" /\ CanAct(t)
  /\ pend' = [pend EXCEPT ![j].state = "QUEUED", ![j].max_attempts = @ + 1]
  /\ Goto(t, "commit")
  /\ UNCHANGED <<rows, jlock, wlock>>

-----------------------------------------------------------------------------
(* Reap.                                                                   *)

ScanExpired(t) ==
  /\ tx[t].pc = "scan" /\ tx[t].op = "Reap"
  /\ tx' = [tx EXCEPT ![t].pc = "probe",
       ![t].ids = {j \in Job : /\ rows[j].state \in Active
                               /\ \E n \in DOMAIN rows[j].attempts :
                                    Expired(rows[j].attempts[n])}]
  /\ UNCHANGED <<rows, pend, jlock, wlock>>

Locked(t) == {j \in Job : jlock[j] = t}

(* The order of the random ids has nothing to do with the order of         *)
(* creation.  A row changed since the snapshot is tested again, but the    *)
(* attempts it was selected for are still those of the snapshot: a         *)
(* heartbeat, which leaves the job row alone, goes unnoticed.              *)
ProbeExpired(t) ==
  /\ tx[t].pc = "probe" /\ tx[t].op = "Reap"
  /\ Cardinality(Locked(t)) < ReapLimit
  /\ \E j \in tx[t].ids :
       /\ tx' = [tx EXCEPT ![t].ids = @ \ {j}]
       /\ jlock' = IF jlock[j] = None /\ rows[j].state \in Active
                   THEN [jlock EXCEPT ![j] = t] ELSE jlock
  /\ UNCHANGED <<rows, pend, wlock>>

Collected(t) ==
  /\ tx[t].pc = "probe" /\ tx[t].op = "Reap"
  /\ tx[t].ids = {} \/ Cardinality(Locked(t)) = ReapLimit
  /\ tx' = [tx EXCEPT ![t].pc = "recheck", ![t].ids = Locked(t)]
  /\ UNCHANGED <<rows, pend, jlock, wlock>>

(* Mutant: the answer of the first query is trusted.                       *)
RecheckActive(t) ==
  /\ tx[t].pc = "recheck"
  /\ \E j \in tx[t].ids : \E n \in DOMAIN pend[j].attempts :
       /\ pend[j].attempts[n].state \in Active
       /\ tx' = [tx EXCEPT ![t].ids = @ \ {j}, ![t].pc = "expire",
                           ![t].j = j, ![t].n = n]
  /\ UNCHANGED <<rows, pend, jlock, wlock>>

Recheck(t) ==
  /\ tx[t].pc = "recheck"
  /\ \E j \in tx[t].ids :
       \/ \E n \in DOMAIN pend[j].attempts :
            /\ Expired(pend[j].attempts[n])
            /\ tx' = [tx EXCEPT ![t].ids = @ \ {j}, ![t].pc = "expire",
                                ![t].j = j, ![t].n = n]
       \/ /\ \A n \in DOMAIN pend[j].attempts : ~ Expired(pend[j].attempts[n])
          /\ tx' = [tx EXCEPT ![t].ids = @ \ {j}]
  /\ UNCHANGED <<rows, pend, jlock, wlock>>

Expire(t) ==
  LET j == tx[t].j IN
  /\ tx[t].pc = "expire"
  /\ pend' = [pend EXCEPT
       ![j].state = RetryState(tx[t].n, pend[j].max_attempts),
       ![j].attempts[tx[t].n] = In(@, "EXPIRED")]
  /\ tx' = [tx EXCEPT ![t].pc = "recheck", ![t].j = 0, ![t].n = 0]
  /\ UNCHANGED <<rows, jlock, wlock>>

Reaped(t) ==
  /\ tx[t].pc = "recheck" /\ tx[t].ids = {}
  /\ Goto(t, "commit")
  /\ UNCHANGED <<rows, pend, jlock, wlock>>

-----------------------------------------------------------------------------
Tick ==
  LET Age(row) == [row EXCEPT !.attempts = [n \in DOMAIN @ |-> Aged(@[n])]] IN
  /\ rows' = [j \in Job |-> Age(rows[j])]
  /\ pend' = [j \in Job |-> Age(pend[j])]
  /\ UNCHANGED <<jlock, wlock, tx>>

(* Mutant: the error is returned with the transaction still open.          *)
RefusedLeaks(t) ==
  /\ \/ tx[t].pc = "insert" /\ ~ CanInsert(tx[t].j)
     \/ tx[t].pc = "check" /\ ~ Fenced(t)
     \/ tx[t].pc = "write" /\ tx[t].op \in ActionOp /\ ~ CanAct(t)
  /\ tx' = [tx EXCEPT ![t] = Idle]
  /\ UNCHANGED <<rows, pend, jlock, wlock>>

(* ErrConflict and the other errors.                                       *)
Refused(t) ==
  /\ \/ tx[t].pc = "insert" /\ ~ CanInsert(tx[t].j)
     \/ tx[t].pc = "check" /\ ~ Fenced(t)
     \/ tx[t].pc = "write" /\ tx[t].op \in ActionOp /\ ~ CanAct(t)
  /\ Rollback(t)

Start(t) ==
  \/ \E w \in Worker : BeginLease(t, w)
  \/ \E j \in Job, op \in AttemptOp : \E n \in DOMAIN rows[j].attempts :
       BeginAttempt(t, op, j, n)
  \/ \E j \in Job, op \in ActionOp : BeginAction(t, op, j)
  \/ BeginReap(t)

Statement(t) ==
  \/ LockWorker(t) \/ LockJob(t) \/ ReadUsed(t) \/ ScanQueued(t)
  \/ ProbeQueued(t) \/ AnswerIdle(t) \/ Insert(t) \/ Check(t)
  \/ WriteHeartbeat(t) \/ WriteStart(t) \/ WriteResult(t)
  \/ WriteCancel(t) \/ WriteRetry(t) \/ ScanExpired(t) \/ ProbeExpired(t)
  \/ Collected(t) \/ Recheck(t) \/ Expire(t) \/ Reaped(t)
  \/ Commit(t) \/ Refused(t)

Next == Tick \/ \E t \in Tx : Start(t) \/ Statement(t) \/ Rollback(t)

Spec == Init /\ [][Next]_vars

(* A transaction that can go on does, and PostgreSQL queues those that     *)
(* wait for a row.  Nothing is assumed of callers, faults and time.        *)
Fairness == \A t \in Tx : SF_tx(Statement(t))

FairSpec == Spec /\ Fairness

-----------------------------------------------------------------------------
(* Properties.                                                             *)

(* Concurrent LeaseJob calls never over-commit a worker, although each     *)
(* adds up the reservations before it has locked a job (workers.go:127).   *)
CapacityRespected == \A w \in Worker : Reserved(w) <= Capacity[w]

(* A lease that has found its job is never refused: neither the unique     *)
(* index one_active_attempt nor the check of the attempt budget            *)
(* (workers.go:145) can fail, whatever committed since the snapshot.       *)
LeaseNeverRefused ==
  \A t \in Tx : tx[t].pc = "insert" => CanInsert(tx[t].j)

(* The reaper only expires what has expired: an attempt whose heartbeat    *)
(* was committed after the reaper chose its job keeps running              *)
(* (reaper.go:29).                                                         *)
NoEarlyExpiry ==
  [][\A j \in Job : \A n \in DOMAIN rows[j].attempts :
       /\ rows[j].attempts[n].state \in Active
       /\ rows'[j].attempts[n].state = "EXPIRED"
       => rows[j].attempts[n].lease = 0]_vars

(* What is committed follows the life cycle of a job, whatever the         *)
(* interleaving: "Cancellation wins against every later completion. A      *)
(* completion committed before cancellation remains successful"            *)
(* (docs/design.md:31).                                                    *)
Outline(row) ==
  [state |-> row.state, budget |-> row.max_attempts,
   history |-> [n \in DOMAIN row.attempts |-> row.attempts[n].state]]
L == INSTANCE Lifecycle WITH rows <- [j \in Job |-> Outline(rows[j])]
LifecycleSteps == [][L!Next]_rows

(* Nobody waits for ever: every transaction commits or is rolled back.     *)
TransactionEnds == \A t \in Tx : tx[t].pc # "idle" ~> tx[t].pc = "idle"

(* "An expired attempt can never be revived by a heartbeat"                *)
(* (docs/design.md:30): once the lease of an attempt has run out it has    *)
(* run out for good.                                                       *)
NeverRevived ==
  [][\A j \in Job : \A n \in DOMAIN rows[j].attempts :
       Expired(rows[j].attempts[n]) => rows'[j].attempts[n].lease = 0]_vars
=============================================================================

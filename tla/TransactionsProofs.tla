------------------------- MODULE TransactionsProofs -------------------------
(***************************************************************************)
(* For any number of connections, jobs and workers: the locks taken by the *)
(* transactions of internal/store are enough.  Whatever the interleaving   *)
(* of their statements, what is committed follows the life cycle of a job, *)
(* no lease is refused that found its job, no lease is expired early, no   *)
(* worker is over-committed and nobody waits in a circle.                  *)
(***************************************************************************)
EXTENDS LockProofs

(* What a lease may count on while it holds the row of its worker, and who *)
(* may be about to add a reservation.                                      *)
LeaseInv(t) ==
  LET x == tx[t] IN
  x.op = "LeaseJob" =>
    /\ x.pc # "idle"
    /\ x.pc # "worker" => wlock[x.w] = t
    /\ x.pc \in {"scan", "probe", "insert"} =>
         x.free + Reserved(x.w) <= Capacity[x.w]
    /\ x.pc = "probe" => \A j \in x.ids : Need[j] <= x.free
    /\ x.pc = "insert" => Need[x.j] <= x.free
    /\ \A j \in Job : jlock[j] = t => j = x.j
    /\ x.pc = "commit" => \A j \in Job :
         jlock[j] = t => Need[j] + Reserved(x.w) <= Capacity[x.w]

Adds(t, w) == tx[t].op = "LeaseJob" /\ tx[t].pc = "commit" /\ tx[t].w = w

CapacityInv ==
  /\ CapacityRespected
  /\ \A t \in Tx : LeaseInv(t)
  /\ \A j \in Job, w \in Worker : Holds(pend[j], w) =>
       Holds(rows[j], w) \/ (jlock[j] # None /\ Adds(jlock[j], w))

-----------------------------------------------------------------------------
(* Capacity.  Only a lease adds to what a worker has reserved, and it      *)
(* holds the row of the worker from the sum to the commit.                 *)

(* A lease keeps what it counts on while the others leave its rows alone   *)
(* and take nothing more from its worker.                                  *)
LEMMA OtherLease ==
  ASSUME Arithmetic, LockInv, NEW u \in Tx, LeaseInv(u), tx'[u] = tx[u],
         \A w \in Worker : wlock[w] = u =>
           wlock'[w] = u /\ Reserved(w)' <= Reserved(w),
         \A j \in Job : jlock'[j] = u => jlock[j] = u
  PROVE  LeaseInv(u)'
  <1> SUFFICES ASSUME tx[u].op = "LeaseJob" PROVE LeaseInv(u)'
    BY DEF LeaseInv
  <1> DEFINE w == tx[u].w
  <1>1. w \in Worker /\ tx[u].free \in Int
    BY LocalParts DEF LockInv, TypeOK, TxInv, Owns
  <1>2. /\ Capacity[w] \in Nat /\ \A j \in Job : Need[j] \in Nat
        /\ Reserved(w) \in Nat /\ Reserved(w)' \in Nat
    BY <1>1, TransactionsAssumption DEF Arithmetic
  <1>3. tx[u].pc # "worker" => wlock'[w] = u /\ Reserved(w)' <= Reserved(w)
    BY <1>1 DEF LeaseInv
  <1>4. ASSUME tx[u].pc \in {"scan", "probe", "insert"}
        PROVE  tx[u].free + Reserved(w)' <= Capacity[w]
    <2>1. tx[u].free + Reserved(w) <= Capacity[w]
      BY <1>4 DEF LeaseInv
    <2> QED
      BY <1>1, <1>2, <1>3, <1>4, <2>1
  <1>5. ASSUME tx[u].pc = "commit", NEW j \in Job, jlock'[j] = u
        PROVE  Need[j] + Reserved(w)' <= Capacity[w]
    <2>1. Need[j] + Reserved(w) <= Capacity[w]
      BY <1>5 DEF LeaseInv
    <2>2. Reserved(w)' <= Reserved(w)
      BY <1>3, <1>5
    <2> QED
      BY <1>2, <2>1, <2>2
  <1>6. Reserved(tx[u].w)' = Reserved(w)'
    BY DEF Reserved, Units, Held
  <1> QED
    BY <1>3, <1>4, <1>5, <1>6 DEF LeaseInv

(* A step that commits nothing.                                            *)
LEMMA QuietCapacity ==
  ASSUME Arithmetic, LockInv, CapacityInv, NEW t \in Tx, UNCHANGED rows,
         \A u \in Tx \ {t} : tx'[u] = tx[u],
         tx[t].pc # "commit", LeaseInv(t)',
         \A w \in Worker : wlock'[w] = wlock[w]
                           \/ (wlock[w] = None /\ wlock'[w] = t),
         \A j \in Job : jlock'[j] = jlock[j]
                        \/ (jlock[j] = None /\ jlock'[j] = t),
         \A j \in Job, w \in Worker : Holds(pend'[j], w) =>
           Holds(pend[j], w) \/ (jlock[j] = t /\ Adds(t, w)')
  PROVE  CapacityInv'
  <1>1. \A w : Reserved(w)' = Reserved(w)
    BY DEF Reserved, Units, Held
  <1>2. CapacityRespected'
    BY <1>1 DEF CapacityInv, CapacityRespected
  <1>3. ASSUME NEW u \in Tx \ {t} PROVE LeaseInv(u)'
    <2>1. u # None /\ LeaseInv(u) /\ tx'[u] = tx[u]
      BY TransactionsAssumption DEF CapacityInv
    <2>2. \A w \in Worker : wlock[w] = u =>
            wlock'[w] = u /\ Reserved(w)' <= Reserved(w)
      BY <1>1, <2>1 DEF Arithmetic
    <2>3. \A j \in Job : jlock'[j] = u => jlock[j] = u
      OBVIOUS
    <2> QED
      BY <2>1, <2>2, <2>3, OtherLease
  <1>4. ASSUME NEW j \in Job, NEW w \in Worker, Holds(pend'[j], w)
        PROVE  (Holds(rows[j], w)
                \/ (jlock[j] # None /\ Adds(jlock[j], w)))'
    <2>1. t # None
      BY TransactionsAssumption
    <2>2. CASE jlock[j] = t /\ Adds(t, w)'
      <3>1. jlock'[j] = t
        BY <2>1, <2>2
      <3> QED
        BY <2>1, <2>2, <3>1 DEF Adds
    <2>3. CASE Holds(rows[j], w)
      BY <2>3
    <2>4. CASE jlock[j] # None /\ Adds(jlock[j], w)
      <3>1. jlock[j] \in Tx \ {t} /\ jlock'[j] = jlock[j]
        BY <2>4 DEF Adds, LockInv, TypeOK
      <3>2. tx'[jlock[j]] = tx[jlock[j]]
        BY <3>1
      <3> QED
        BY <2>4, <3>1, <3>2 DEF Adds
    <2> QED
      BY <1>4, <2>2, <2>3, <2>4 DEF CapacityInv
  <1> QED
    BY <1>2, <1>3, <1>4 DEF CapacityInv

(* A transaction keeps its operation and its worker until it ends.         *)
LEMMA SameCall ==
  ASSUME Arithmetic, LockInv, NEW t \in Tx,
         \/ LockWorker(t) \/ LockJob(t) \/ ReadUsed(t) \/ ScanQueued(t)
         \/ ProbeQueued(t) \/ AnswerIdle(t) \/ Insert(t) \/ Check(t)
         \/ WriteHeartbeat(t) \/ WriteStart(t) \/ WriteResult(t)
         \/ WriteCancel(t) \/ WriteRetry(t) \/ ScanExpired(t)
         \/ ProbeExpired(t) \/ Collected(t) \/ Recheck(t) \/ Expire(t)
         \/ Reaped(t)
  PROVE  /\ \A u \in Tx \ {t} : tx'[u] = tx[u]
         /\ tx'[t].op = tx[t].op /\ tx'[t].w = tx[t].w
  <1>1. TypeOK /\ tx \in [Tx -> Local] /\ tx[t] \in Local
    BY DEF LockInv, TypeOK
  <1>2. CASE \E pc \in {"used", "job", "write", "check", "commit"} :
               Goto(t, pc)
    BY <1>1, <1>2, GotoParts DEF Only
  <1>3. ASSUME NEW y, tx' = [tx EXCEPT ![t] = y],
               y.op = tx[t].op, y.w = tx[t].w
        PROVE  /\ \A u \in Tx \ {t} : tx'[u] = tx[u]
               /\ tx'[t].op = tx[t].op /\ tx'[t].w = tx[t].w
    BY <1>1, <1>3
  <1>4. CASE ReadUsed(t)
    <2> DEFINE f == Capacity[tx[t].w] - Reserved(tx[t].w)
               y == [tx[t] EXCEPT !.free = f, !.pc = "scan"]
    <2>1. tx' = [tx EXCEPT ![t] = y]
      BY <1>1, <1>4 DEF ReadUsed
    <2> HIDE DEF f
    <2>2. y.op = tx[t].op /\ y.w = tx[t].w
      BY <1>1 DEF Local
    <2> HIDE DEF y
    <2> QED
      BY <1>3, <2>1, <2>2
  <1>5. ASSUME NEW S, \/ tx' = [tx EXCEPT ![t].pc = "probe", ![t].ids = S]
                      \/ tx' = [tx EXCEPT ![t].pc = "recheck", ![t].ids = S]
        PROVE  /\ \A u \in Tx \ {t} : tx'[u] = tx[u]
               /\ tx'[t].op = tx[t].op /\ tx'[t].w = tx[t].w
    BY <1>1, <1>5 DEF Local
  <1>6. CASE ScanQueued(t) \/ ScanExpired(t) \/ Collected(t)
    BY <1>5, <1>6 DEF ScanQueued, ScanExpired, Collected
  <1>7. ASSUME NEW j, NEW n,
               \/ tx' = [tx EXCEPT ![t].ids = @ \ {j}]
               \/ tx' = [tx EXCEPT ![t].pc = "insert", ![t].j = j,
                                   ![t].ids = {}]
               \/ tx' = [tx EXCEPT ![t].ids = @ \ {j}, ![t].pc = "expire",
                                   ![t].j = j, ![t].n = n]
        PROVE  /\ \A u \in Tx \ {t} : tx'[u] = tx[u]
               /\ tx'[t].op = tx[t].op /\ tx'[t].w = tx[t].w
    BY <1>1, <1>7 DEF Local
  <1>8. CASE ProbeQueued(t) \/ ProbeExpired(t) \/ Recheck(t)
    <2>1. CASE ProbeQueued(t)
      BY <1>7, <2>1, ProbesOne
    <2>2. CASE ProbeExpired(t)
      BY <1>7, <2>2 DEF ProbeExpired
    <2>3. CASE Recheck(t)
      BY <1>7, <2>3 DEF Recheck
    <2> QED
      BY <1>8, <2>1, <2>2, <2>3
  <1>9. CASE Expire(t)
    <2> DEFINE y == [tx[t] EXCEPT !.pc = "recheck", !.j = 0, !.n = 0]
    <2>1. tx' = [tx EXCEPT ![t] = y]
      BY <1>1, <1>9 DEF Expire
    <2>2. y.op = tx[t].op /\ y.w = tx[t].w
      BY <1>1 DEF Local
    <2> HIDE DEF y
    <2> QED
      BY <1>3, <2>1, <2>2
  <1>10. CASE \/ LockWorker(t) \/ LockJob(t) \/ AnswerIdle(t) \/ Insert(t)
              \/ Check(t) \/ WriteHeartbeat(t) \/ WriteStart(t)
              \/ WriteResult(t) \/ WriteCancel(t) \/ WriteRetry(t)
              \/ Reaped(t)
    <2>1. \E pc \in {"used", "job", "write", "check", "commit"} : Goto(t, pc)
      BY <1>10
      DEF LockWorker, LockJob, AnswerIdle, Insert, Check, WriteHeartbeat,
          WriteStart, WriteResult, Set, WriteCancel, WriteRetry, Reaped
    <2> QED
      BY <1>2, <2>1
  <1> QED
    BY <1>4, <1>6, <1>8, <1>9, <1>10

(* Who is not leasing has no reservation to answer for.                    *)
LEMMA OtherCalls ==
  ASSUME Arithmetic, LockInv, CapacityInv, NEW t \in Tx,
         \/ LockJob(t) \/ Check(t) \/ WriteHeartbeat(t) \/ WriteStart(t)
         \/ WriteResult(t) \/ WriteCancel(t) \/ WriteRetry(t)
         \/ ScanExpired(t) \/ ProbeExpired(t) \/ Collected(t)
         \/ Recheck(t) \/ Expire(t) \/ Reaped(t)
  PROVE  CapacityInv'
  <1>1. /\ TypeOK /\ Places(tx[t]) /\ Owns(t)
        /\ jlock \in [Job -> Tx \cup {None}]
    BY DEF LockInv, TxInv, TypeOK
  <1>2. tx[t].pc # "commit" /\ tx[t].op # "LeaseJob"
    BY <1>1
    DEF LockJob, Check, WriteHeartbeat, WriteStart, WriteResult, WriteCancel,
        WriteRetry, ScanExpired, ProbeExpired, Collected, Recheck, Expire,
        Reaped, Places, AttemptOp, ActionOp
  <1>3. /\ UNCHANGED <<rows, wlock>>
        /\ UNCHANGED jlock \/ LockJob(t) \/ ProbeExpired(t)
    BY DEF LockJob, Check, WriteHeartbeat, WriteStart, WriteResult, Set,
        WriteCancel, WriteRetry, ScanExpired, ProbeExpired, Collected,
        Recheck, Expire, Reaped
  <1>4. Thins
    <2>1. CASE \/ LockJob(t) \/ Check(t) \/ ScanExpired(t) \/ ProbeExpired(t)
               \/ Collected(t) \/ Recheck(t) \/ Reaped(t)
      BY <2>1
      DEF LockJob, Check, ScanExpired, ProbeExpired, Collected, Recheck,
          Reaped, Thins
    <2> QED
      BY <2>1, HeartbeatKeeps, ResultKeeps, ActionKeeps, ExpireKeeps
  <1>5. \A j \in Job : jlock'[j] = jlock[j]
                       \/ (jlock[j] = None /\ jlock'[j] = t)
    <2>1. CASE LockJob(t)
      BY <1>1, <2>1 DEF LockJob
    <2>2. CASE ProbeExpired(t)
      BY <1>1, <2>2 DEF ProbeExpired
    <2> QED
      BY <1>3, <2>1, <2>2
  <1>6. /\ \A u \in Tx \ {t} : tx'[u] = tx[u]
        /\ tx'[t].op = tx[t].op
    BY SameCall
  <1>7. LeaseInv(t)'
    BY <1>2, <1>6 DEF LeaseInv
  <1> QED
    BY <1>2, <1>3, <1>4, <1>5, <1>6, <1>7, QuietCapacity DEF Thins

(* A lease, up to its insert.                                              *)
LEMMA LeaseReads ==
  ASSUME Arithmetic, LockInv, CapacityInv, NEW t \in Tx,
         \/ LockWorker(t) \/ ReadUsed(t) \/ ScanQueued(t) \/ AnswerIdle(t)
  PROVE  CapacityInv'
  <1>1. /\ TypeOK /\ Places(tx[t]) /\ Owns(t) /\ LeaseInv(t)
        /\ tx \in [Tx -> Local] /\ tx[t] \in Local
        /\ wlock \in [Worker -> Tx \cup {None}]
    BY DEF LockInv, CapacityInv, TxInv, TypeOK
  <1>2. /\ \A j \in Job : jlock[j] # t
        /\ tx[t].pc \in {"worker", "used", "scan", "probe"}
        /\ tx[t].op \in AttemptOp \cup {"LeaseJob"} /\ tx[t].w \in Worker
        /\ UNCHANGED <<rows, pend, jlock>>
    BY <1>1
    DEF LockWorker, ReadUsed, ScanQueued, AnswerIdle, Places, Owns, Unlocked
  <1>3. /\ \A u \in Tx \ {t} : tx'[u] = tx[u]
        /\ tx'[t].op = tx[t].op /\ tx'[t].w = tx[t].w
    BY SameCall
  <1>4. /\ Capacity[tx[t].w] \in Nat /\ Reserved(tx[t].w) \in Nat
        /\ tx[t].free \in Int
    BY <1>1, <1>2, LocalParts, TransactionsAssumption DEF Arithmetic
  <1>5. Reserved(tx[t].w)' = Reserved(tx[t].w)
    BY <1>2, <1>3 DEF Reserved, Units, Held
  <1>6. /\ \A w \in Worker : wlock'[w] = wlock[w]
                             \/ (wlock[w] = None /\ wlock'[w] = t)
        /\ LeaseInv(t)'
    <2>1. CASE LockWorker(t)
      <3>1. /\ wlock[tx[t].w] = None /\ tx[t].pc = "worker"
            /\ wlock' = [wlock EXCEPT ![tx[t].w] = t]
        BY <2>1 DEF LockWorker
      <3>2. tx'[t].pc = IF tx[t].op = "LeaseJob" THEN "used" ELSE "job"
        BY <1>1, <2>1, GotoParts DEF LockWorker
      <3>3. wlock'[tx[t].w] = t
        BY <1>1, <1>2, <3>1
      <3>4. LeaseInv(t)'
        BY <1>2, <1>3, <3>2, <3>3 DEF LeaseInv
      <3> QED
        BY <1>1, <3>1, <3>4
    <2>2. CASE ReadUsed(t)
      <3> DEFINE f == Capacity[tx[t].w] - Reserved(tx[t].w)
      <3>1. /\ tx[t].pc = "used" /\ UNCHANGED wlock /\ tx[t].op = "LeaseJob"
            /\ tx' = [tx EXCEPT ![t].free = f, ![t].pc = "scan"]
        BY <1>1, <2>2 DEF ReadUsed, Places
      <3>2. f + Reserved(tx[t].w) <= Capacity[tx[t].w]
        BY <1>4
      <3> HIDE DEF f
      <3>3. tx'[t].free = f /\ tx'[t].pc = "scan"
        BY <1>1, <3>1 DEF Local
      <3>4. wlock[tx[t].w] = t
        BY <1>1, <3>1 DEF LeaseInv
      <3> QED
        BY <1>2, <1>3, <1>5, <3>1, <3>2, <3>3, <3>4 DEF LeaseInv
    <2>3. CASE ScanQueued(t)
      <3> DEFINE S == {j \in Job : /\ rows[j].state = "QUEUED"
                                   /\ Need[j] <= tx[t].free}
      <3>1. /\ tx[t].pc = "scan" /\ UNCHANGED wlock /\ tx[t].op = "LeaseJob"
            /\ tx' = [tx EXCEPT ![t].pc = "probe", ![t].ids = S]
        BY <2>3 DEF ScanQueued
      <3>2. \A j \in S : Need[j] <= tx[t].free
        OBVIOUS
      <3> HIDE DEF S
      <3>3. /\ tx'[t].pc = "probe" /\ tx'[t].ids = S
            /\ tx'[t].free = tx[t].free
        BY <1>1, <3>1 DEF Local
      <3>4. /\ wlock[tx[t].w] = t
            /\ tx[t].free + Reserved(tx[t].w) <= Capacity[tx[t].w]
        BY <1>1, <3>1 DEF LeaseInv
      <3> QED
        BY <1>2, <1>3, <1>5, <3>1, <3>2, <3>3, <3>4 DEF LeaseInv
    <2>4. CASE AnswerIdle(t)
      <3>1. /\ tx[t].pc = "probe" /\ UNCHANGED wlock /\ tx[t].op = "LeaseJob"
            /\ Goto(t, "commit")
        BY <2>4 DEF AnswerIdle
      <3>2. tx'[t].pc = "commit"
        BY <1>1, <3>1, GotoParts
      <3>3. wlock[tx[t].w] = t
        BY <1>1, <3>1 DEF LeaseInv
      <3> QED
        BY <1>2, <1>3, <3>1, <3>2, <3>3 DEF LeaseInv
    <2> QED
      BY <2>1, <2>2, <2>3, <2>4
  <1> QED
    BY <1>2, <1>3, <1>6, QuietCapacity

LEMMA ProbeCapacity ==
  ASSUME Arithmetic, LockInv, CapacityInv, NEW t \in Tx, ProbeQueued(t)
  PROVE  CapacityInv'
  <1>1. /\ TypeOK /\ Owns(t) /\ LeaseInv(t)
        /\ tx \in [Tx -> Local] /\ tx[t] \in Local
        /\ jlock \in [Job -> Tx \cup {None}]
    BY DEF LockInv, CapacityInv, TxInv, TypeOK
  <1>2. /\ \A i \in Job : jlock[i] # t
        /\ tx[t].pc = "probe" /\ tx[t].op = "LeaseJob" /\ tx[t].w \in Worker
        /\ UNCHANGED <<rows, pend, wlock>>
    BY <1>1 DEF ProbeQueued, Owns, Unlocked
  <1>3. /\ \A u \in Tx \ {t} : tx'[u] = tx[u]
        /\ tx'[t].op = tx[t].op /\ tx'[t].w = tx[t].w
    BY SameCall
  <1>4. Reserved(tx[t].w)' = Reserved(tx[t].w)
    BY <1>2, <1>3 DEF Reserved, Units, Held
  <1>5. /\ wlock[tx[t].w] = t
        /\ tx[t].free + Reserved(tx[t].w) <= Capacity[tx[t].w]
        /\ \A i \in tx[t].ids : Need[i] <= tx[t].free
    BY <1>1, <1>2 DEF LeaseInv
  <1>6. PICK j \in Job : /\ j \in tx[t].ids
           /\ \/ /\ jlock[j] = None /\ rows[j].state = "QUEUED"
                 /\ jlock' = [jlock EXCEPT ![j] = t]
                 /\ tx' = [tx EXCEPT ![t].pc = "insert", ![t].j = j,
                                     ![t].ids = {}]
              \/ tx' = [tx EXCEPT ![t].ids = @ \ {j}] /\ UNCHANGED jlock
    BY ProbesOne
  <1>7. CASE tx' = [tx EXCEPT ![t].ids = @ \ {j}] /\ UNCHANGED jlock
    <2>1. /\ tx'[t].pc = "probe" /\ tx'[t].ids = tx[t].ids \ {j}
          /\ tx'[t].free = tx[t].free
      BY <1>1, <1>2, <1>7 DEF Local
    <2>2. LeaseInv(t)'
      BY <1>2, <1>3, <1>4, <1>5, <1>7, <2>1 DEF LeaseInv
    <2> QED
      BY <1>2, <1>3, <1>7, <2>2, QuietCapacity
  <1>8. CASE /\ jlock[j] = None
             /\ jlock' = [jlock EXCEPT ![j] = t]
             /\ tx' = [tx EXCEPT ![t].pc = "insert", ![t].j = j, ![t].ids = {}]
    <2>1. /\ tx'[t].pc = "insert" /\ tx'[t].j = j
          /\ tx'[t].free = tx[t].free
      BY <1>1, <1>8 DEF Local
    <2>2. \A i \in Job : jlock'[i] = IF i = j THEN t ELSE jlock[i]
      BY <1>1, <1>8
    <2>3. LeaseInv(t)'
      BY <1>2, <1>3, <1>4, <1>5, <1>6, <2>1, <2>2 DEF LeaseInv
    <2> QED
      BY <1>2, <1>3, <1>8, <2>2, <2>3, QuietCapacity
  <1> QED
    BY <1>6, <1>7, <1>8

(* The insert takes what was free when the worker was locked.              *)
LEMMA InsertCapacity ==
  ASSUME Arithmetic, LockInv, CapacityInv, NEW t \in Tx, Insert(t)
  PROVE  CapacityInv'
  <1> DEFINE j == tx[t].j
             b == [state |-> "LEASED", worker |-> tx[t].w,
                   lease |-> least(LeaseSeconds, Timeout[j]),
                   deadline |-> Timeout[j]]
             s == [pend[j] EXCEPT !.state = "LEASED",
                                  !.attempts = Append(@, b)]
  <1>1. /\ TypeOK /\ Places(tx[t]) /\ Owns(t) /\ LeaseInv(t)
        /\ pend \in [Job -> Row] /\ tx[t] \in Local
    BY DEF LockInv, CapacityInv, TxInv, TypeOK
  <1>2. /\ tx[t].pc = "insert" /\ tx[t].op = "LeaseJob" /\ tx[t].w \in Worker
        /\ UNCHANGED <<rows, jlock, wlock>> /\ Goto(t, "commit")
        /\ j \in Job /\ jlock[j] = t
    BY <1>1 DEF Insert, Places, Owns, Fresh
  <1>3. /\ \A u \in Tx \ {t} : tx'[u] = tx[u]
        /\ tx'[t].op = tx[t].op /\ tx'[t].w = tx[t].w
        /\ tx'[t].pc = "commit" /\ tx'[t].j = j
    BY <1>1, <1>2, GotoParts DEF Only
  <1>4. Reserved(tx[t].w)' = Reserved(tx[t].w)
    BY <1>2, <1>3 DEF Reserved, Units, Held
  <1>5. /\ wlock[tx[t].w] = t
        /\ tx[t].free + Reserved(tx[t].w) <= Capacity[tx[t].w]
        /\ Need[j] <= tx[t].free /\ \A i \in Job : jlock[i] = t => i = j
    BY <1>1, <1>2 DEF LeaseInv
  <1>6. Need[j] + Reserved(tx[t].w) <= Capacity[tx[t].w]
    <2>1. /\ Need[j] \in Nat /\ Capacity[tx[t].w] \in Nat
          /\ Reserved(tx[t].w) \in Nat /\ tx[t].free \in Int
      BY <1>1, <1>2, LocalParts, TransactionsAssumption DEF Arithmetic
    <2> QED
      BY <1>5, <2>1
  <1>7. LeaseInv(t)'
    BY <1>2, <1>3, <1>4, <1>5, <1>6 DEF LeaseInv
  <1>8. pend' = [pend EXCEPT ![j] = s]
    BY <1>1, <1>2 DEF Insert
  <1>9. pend[j] \in Row /\ b.worker = tx[t].w
    BY <1>1, <1>2
  <1> HIDE DEF b
  <1>10. s.attempts = Append(pend[j].attempts, b)
    BY <1>9 DEF Row
  <1>11. \A i \in Job : pend'[i] = IF i = j THEN s ELSE pend[i]
    BY <1>1, <1>8
  <1> HIDE DEF s
  <1>12. ASSUME NEW w \in Worker, Holds(s, w), w # tx[t].w
         PROVE  Holds(pend[j], w)
    <2> DEFINE c == pend[j].attempts
    <2>1. PICK n \in DOMAIN s.attempts : /\ s.attempts[n].worker = w
                                         /\ s.attempts[n].state \in Active
      BY <1>12 DEF Holds
    <2>2. c \in Seq(Attempt) /\ s.attempts = Append(c, b)
      BY <1>9, <1>10, RowParts
    <2> HIDE DEF c, j
    <2>3. n \in DOMAIN c /\ Append(c, b)[n] = c[n]
      <3>1. n \in 1 .. Len(c) + 1 /\ Len(c) \in Nat
        BY <2>1, <2>2
      <3>2. Append(c, b)[Len(c) + 1] = b
        BY <2>2
      <3>3. n # Len(c) + 1
        BY <1>9, <1>12, <2>1, <2>2, <3>2
      <3> QED
        BY <2>2, <3>1, <3>3
    <2> QED
      BY <2>1, <2>2, <2>3 DEF Holds, c
  <1>13. \A i \in Job, w \in Worker : Holds(pend'[i], w) =>
           Holds(pend[i], w) \/ (jlock[i] = t /\ Adds(t, w)')
    BY <1>2, <1>3, <1>11, <1>12 DEF Adds
  <1> QED
    BY <1>2, <1>3, <1>7, <1>13, QuietCapacity

LEMMA BeginCapacity ==
  ASSUME Arithmetic, LockInv, CapacityInv, NEW t \in Tx, Start(t)
  PROVE  CapacityInv'
  <1>1. TypeOK /\ Owns(t)
    BY DEF LockInv, TxInv
  <1>2. PICK y : /\ Begin(t, y)
                 /\ y.op = "LeaseJob" => y.pc = "worker"
    <2>1. ASSUME NEW w \in Worker, BeginLease(t, w)
          PROVE  \E y : Begin(t, y) /\ (y.op = "LeaseJob" => y.pc = "worker")
      <3> DEFINE y == [Idle EXCEPT !.op = "LeaseJob", !.pc = "worker", !.w = w]
      <3>1. Begin(t, y) /\ y.pc = "worker"
        BY <2>1, IdleTyped DEF BeginLease, Local
      <3> QED
        BY <3>1
    <2>2. ASSUME NEW op \in AttemptOp, NEW j \in Job,
                 NEW n \in DOMAIN rows[j].attempts, BeginAttempt(t, op, j, n)
          PROVE  \E y : Begin(t, y) /\ (y.op = "LeaseJob" => y.pc = "worker")
      <3> DEFINE y == [Idle EXCEPT !.op = op, !.pc = "worker",
                         !.w = rows[j].attempts[n].worker, !.j = j, !.n = n]
      <3>1. Begin(t, y) /\ y.pc = "worker"
        BY <2>2, IdleTyped DEF BeginAttempt, Local
      <3> QED
        BY <3>1
    <2>3. ASSUME NEW op \in ActionOp, NEW j \in Job, BeginAction(t, op, j)
          PROVE  \E y : Begin(t, y) /\ (y.op = "LeaseJob" => y.pc = "worker")
      <3> DEFINE y == [Idle EXCEPT !.op = op, !.pc = "job", !.j = j]
      <3>1. Begin(t, y) /\ y.op = op /\ op # "LeaseJob"
        BY <2>3, IdleTyped DEF BeginAction, Local, ActionOp
      <3> QED
        BY <3>1
    <2>4. ASSUME BeginReap(t)
          PROVE  \E y : Begin(t, y) /\ (y.op = "LeaseJob" => y.pc = "worker")
      <3> DEFINE y == [Idle EXCEPT !.op = "Reap", !.pc = "scan"]
      <3>1. Begin(t, y) /\ y.op = "Reap"
        BY <2>4, IdleTyped DEF BeginReap, Local
      <3> QED
        BY <3>1
    <2> QED
      BY <2>1, <2>2, <2>3, <2>4 DEF Start
  <1>3. /\ tx[t] = Idle /\ UNCHANGED <<rows, pend, jlock, wlock>>
        /\ tx'[t] = y /\ \A u \in Tx \ {t} : tx'[u] = tx[u]
    BY <1>1, <1>2 DEF Begin, TypeOK
  <1>4. tx[t].pc = "idle"
    BY <1>3 DEF Idle
  <1>5. \A j \in Job : jlock[j] # t
    BY <1>1, <1>4 DEF Owns, Unlocked
  <1>6. LeaseInv(t)'
    BY <1>2, <1>3, <1>5 DEF LeaseInv
  <1> QED
    BY <1>3, <1>4, <1>6, QuietCapacity

(* The end of a transaction.  Only a lease that inserted takes more from   *)
(* a worker, and it holds the row of that worker.                          *)
LEMMA EndCapacity ==
  ASSUME Arithmetic, LockInv, CapacityInv, NEW t \in Tx,
         Commit(t) \/ Rollback(t)
  PROVE  CapacityInv'
  <1>1. /\ TypeOK /\ LeaseInv(t) /\ tx \in [Tx -> Local]
        /\ \A u \in Tx : LeaseInv(u)
        /\ jlock \in [Job -> Tx \cup {None}]
    BY DEF LockInv, CapacityInv, TypeOK
  <1>2. /\ \A j \in Job : jlock'[j] = IF jlock[j] = t THEN None ELSE jlock[j]
        /\ \A w \in Worker :
             wlock'[w] = IF wlock[w] = t THEN None ELSE wlock[w]
        /\ tx'[t] = Idle /\ \A u \in Tx \ {t} : tx'[u] = tx[u]
    BY <1>1 DEF Commit, Rollback, Free
  <1>3. ASSUME NEW j \in Job
        PROVE  /\ jlock[j] # t => rows'[j] = rows[j] /\ pend'[j] = pend[j]
               /\ jlock[j] = t => /\ pend'[j] = rows'[j]
                                  /\ rows'[j] \in {rows[j], pend[j]}
    BY DEF Commit, Rollback
  <1>4. t # None
    BY TransactionsAssumption
  <1>5. ASSUME NEW j \in Job, NEW w \in Worker, Holds(rows'[j], w)
        PROVE  Holds(rows[j], w) \/ (jlock[j] = t /\ Adds(t, w))
    BY <1>3, <1>4, <1>5 DEF CapacityInv
  <1>6. ASSUME NEW w \in Worker, ~ Adds(t, w)
        PROVE  Reserved(w)' <= Reserved(w)
    <2>1. Held(w)' \subseteq Held(w)
      BY <1>5, <1>6 DEF Held
    <2> QED
      BY <2>1 DEF Arithmetic
  <1>7. CapacityRespected'
    <2> SUFFICES ASSUME NEW w \in Worker PROVE Reserved(w)' <= Capacity[w]
      BY DEF CapacityRespected
    <2>1. /\ Reserved(w) <= Capacity[w] /\ Capacity[w] \in Nat
          /\ Reserved(w) \in Nat /\ Reserved(w)' \in Nat
      BY TransactionsAssumption
      DEF Arithmetic, CapacityInv, CapacityRespected
    <2>2. CASE ~ Adds(t, w)
      BY <1>6, <2>1, <2>2
    <2>3. ASSUME Adds(t, w), \A j \in Job : jlock[j] # t
          PROVE  Reserved(w)' <= Capacity[w]
      <3>1. Held(w)' \subseteq Held(w)
        BY <1>5, <2>3 DEF Held
      <3> QED
        BY <2>1, <3>1 DEF Arithmetic
    <2>4. ASSUME Adds(t, w), NEW j \in Job, jlock[j] = t
          PROVE  Reserved(w)' <= Capacity[w]
      <3>1. /\ \A i \in Job : jlock[i] = t => i = j
            /\ Need[j] + Reserved(w) <= Capacity[w]
        BY <1>1, <2>4 DEF LeaseInv, Adds
      <3>2. Held(w)' \subseteq Held(w) \cup {j}
        BY <1>5, <3>1 DEF Held
      <3>3. Reserved(w)' <= Reserved(w) + Need[j] /\ Need[j] \in Nat
        BY <3>2, TransactionsAssumption DEF Arithmetic
      <3> QED
        BY <2>1, <3>1, <3>3
    <2> QED
      BY <2>2, <2>3, <2>4
  <1>8. ASSUME NEW u \in Tx PROVE LeaseInv(u)'
    <2>1. CASE u = t
      BY <1>2, <2>1 DEF LeaseInv, Idle
    <2>2. CASE u # t
      <3>1. ASSUME NEW w \in Worker, wlock[w] = u
            PROVE  wlock'[w] = u /\ Reserved(w)' <= Reserved(w)
        <4>1. ~ Adds(t, w)
          BY <1>1, <2>2, <3>1 DEF Adds, LeaseInv
        <4> QED
          BY <1>2, <1>6, <2>2, <3>1, <4>1
      <3>2. \A j \in Job : jlock'[j] = u => jlock[j] = u
        BY <1>2, TransactionsAssumption
      <3> QED
        BY <1>1, <1>2, <2>2, <3>1, <3>2, OtherLease
    <2> QED
      BY <2>1, <2>2
  <1>9. ASSUME NEW j \in Job, NEW w \in Worker, Holds(pend'[j], w)
        PROVE  (Holds(rows[j], w)
                \/ (jlock[j] # None /\ Adds(jlock[j], w)))'
    <2>1. CASE jlock[j] = t
      BY <1>3, <1>9, <2>1
    <2>2. CASE jlock[j] # t /\ Holds(rows[j], w)
      BY <1>3, <2>2
    <2>3. CASE jlock[j] # t /\ jlock[j] # None /\ Adds(jlock[j], w)
      <3>1. jlock[j] \in Tx \ {t} /\ jlock'[j] = jlock[j]
        BY <1>1, <1>2, <2>3
      <3>2. tx'[jlock[j]] = tx[jlock[j]]
        BY <1>2, <3>1
      <3> QED
        BY <2>3, <3>1, <3>2 DEF Adds
    <2> QED
      BY <1>3, <1>9, <2>1, <2>2, <2>3 DEF CapacityInv
  <1> QED
    BY <1>7, <1>8, <1>9 DEF CapacityInv

LEMMA TickCapacity ==
  ASSUME Arithmetic, LockInv, CapacityInv, Tick PROVE CapacityInv'
  <1>1. /\ \A j \in Job : rows[j] \in Row /\ pend[j] \in Row
        /\ UNCHANGED <<jlock, wlock, tx>>
        /\ \A j \in Job : /\ rows'[j] = AgeRow(rows[j])
                          /\ pend'[j] = AgeRow(pend[j])
    BY DEF LockInv, TypeOK, Tick, AgeRow
  <1>2. \A r \in Row : \A w : Holds(AgeRow(r), w) <=> Holds(r, w)
    BY AgeParts DEF Holds
  <1>3. \A j \in Job : \A w : /\ Holds(rows'[j], w) <=> Holds(rows[j], w)
                              /\ Holds(pend'[j], w) <=> Holds(pend[j], w)
    BY <1>1, <1>2
  <1>4. \A w : Held(w)' = Held(w)
    BY <1>3 DEF Held
  <1>5. \A w : Reserved(w)' <= Reserved(w)
    BY <1>4 DEF Arithmetic
  <1>6. CapacityRespected'
    <2> SUFFICES ASSUME NEW w \in Worker PROVE Reserved(w)' <= Capacity[w]
      BY DEF CapacityRespected
    <2>1. /\ Reserved(w) <= Capacity[w] /\ Capacity[w] \in Nat
          /\ Reserved(w) \in Nat /\ Reserved(w)' \in Nat
      BY TransactionsAssumption
      DEF Arithmetic, CapacityInv, CapacityRespected
    <2> QED
      BY <1>5, <2>1
  <1>7. \A u \in Tx : LeaseInv(u)'
    BY <1>1, <1>5, OtherLease DEF CapacityInv
  <1>8. \A j \in Job, w \in Worker : Holds(pend'[j], w) =>
          Holds(rows'[j], w) \/ (jlock[j] # None /\ Adds(jlock[j], w))
    BY <1>3 DEF CapacityInv
  <1> QED
    BY <1>1, <1>6, <1>7, <1>8 DEF CapacityInv, Adds

LEMMA CapacityStep ==
  ASSUME Arithmetic, LockInv, CapacityInv, [Next]_vars PROVE CapacityInv'
  <1>1. CASE UNCHANGED vars
    <2>1. UNCHANGED <<rows, pend, jlock, wlock, tx>>
      BY <1>1 DEF vars
    <2>2. \A w : Reserved(w)' = Reserved(w)
      BY <2>1 DEF Reserved, Units, Held
    <2>3. ASSUME NEW t \in Tx PROVE LeaseInv(t)'
      BY <2>1, <2>2 DEF CapacityInv, LeaseInv
    <2>4. \A t, w : Adds(t, w)' <=> Adds(t, w)
      BY <2>1 DEF Adds
    <2> QED
      BY <2>1, <2>2, <2>3, <2>4 DEF CapacityInv, CapacityRespected
  <1>2. CASE Tick
    BY <1>2, TickCapacity
  <1>3. ASSUME NEW t \in Tx, Start(t) \/ Statement(t) \/ Rollback(t)
        PROVE  CapacityInv'
    <2>1. CASE Start(t)
      BY <2>1, BeginCapacity
    <2>2. CASE \/ LockWorker(t) \/ ReadUsed(t) \/ ScanQueued(t)
               \/ ProbeQueued(t) \/ AnswerIdle(t) \/ Insert(t)
      BY <2>2, LeaseReads, ProbeCapacity, InsertCapacity
    <2>3. CASE \/ LockJob(t) \/ Check(t) \/ WriteHeartbeat(t) \/ WriteStart(t)
               \/ WriteResult(t) \/ WriteCancel(t) \/ WriteRetry(t)
               \/ ScanExpired(t) \/ ProbeExpired(t) \/ Collected(t)
               \/ Recheck(t) \/ Expire(t) \/ Reaped(t)
      BY <2>3, OtherCalls
    <2>4. CASE Commit(t) \/ Refused(t) \/ Rollback(t)
      BY <2>4, EndCapacity DEF Refused
    <2> QED
      BY <1>3, <2>1, <2>2, <2>3, <2>4 DEF Statement
  <1> QED
    BY <1>1, <1>2, <1>3 DEF Next

-----------------------------------------------------------------------------
(* Waiting.  Only LockWorker and LockJob wait for another transaction; the *)
(* other statements skip a row that is locked.                             *)

WaitsFor(t, u) ==
  \/ tx[t].pc = "worker" /\ wlock[tx[t].w] = u
  \/ tx[t].pc = "job" /\ jlock[tx[t].j] = u

(* Whoever waits for a worker may wait for one that waits for a job, and   *)
(* the owner of a job waits for nobody.                                    *)
WaitsEnd ==
  \A t, u, v, x \in Tx :
    ~ (WaitsFor(t, u) /\ WaitsFor(u, v) /\ WaitsFor(v, x))

WaitInv ==
  \A w \in Worker, t \in Tx :
    wlock[w] = t => tx[t].pc \notin {"idle", "worker"}

(* What a statement that neither takes a worker nor ends does to them.     *)
LEMMA OtherStatements ==
  ASSUME Arithmetic, LockInv, NEW t \in Tx,
         Statement(t), ~ LockWorker(t), ~ Commit(t), ~ Refused(t)
  PROVE  /\ UNCHANGED wlock
         /\ \A u \in Tx \ {t} : tx'[u] = tx[u]
         /\ tx'[t].pc \notin {"idle", "worker"}
  <1>1. tx \in [Tx -> Local] /\ tx[t] \in Local
    BY DEF LockInv, TypeOK
  <1>2. CASE \/ LockJob(t) \/ ReadUsed(t) \/ ScanQueued(t) \/ AnswerIdle(t)
             \/ Check(t)
    BY <1>1, <1>2
    DEF LockJob, ReadUsed, ScanQueued, AnswerIdle, Check, Goto, Local
  <1>3. CASE ProbeQueued(t)
    <2>1. PICK j \in Job :
            \/ tx' = [tx EXCEPT ![t].pc = "insert", ![t].j = j, ![t].ids = {}]
            \/ tx' = [tx EXCEPT ![t].ids = @ \ {j}]
      BY <1>3, ProbesOne
    <2>2. tx[t].pc = "probe" /\ UNCHANGED wlock
      BY <1>3 DEF ProbeQueued
    <2> QED
      BY <1>1, <2>1, <2>2 DEF Local
  <1>4. CASE \/ Insert(t) \/ WriteHeartbeat(t) \/ WriteStart(t)
             \/ WriteResult(t) \/ WriteCancel(t) \/ WriteRetry(t)
    <2>1. UNCHANGED wlock /\ tx' = [tx EXCEPT ![t].pc = "commit"]
      BY <1>4
      DEF Insert, WriteHeartbeat, WriteStart, WriteResult, WriteCancel,
          WriteRetry, Set, Goto
    <2> QED
      BY <1>1, <2>1 DEF Local
  <1>5. CASE \/ ScanExpired(t) \/ ProbeExpired(t) \/ Collected(t)
             \/ Expire(t) \/ Reaped(t)
    BY <1>1, <1>5
    DEF ScanExpired, ProbeExpired, Collected, Expire, Reaped, Goto, Local
  <1>6. CASE Recheck(t)
    BY <1>1, <1>6 DEF Recheck, Local
  <1> QED
    BY <1>2, <1>3, <1>4, <1>5, <1>6 DEF Statement

LEMMA WaitStep ==
  ASSUME Arithmetic, LockInv, WaitInv, [Next]_vars PROVE WaitInv'
  <1>1. tx \in [Tx -> Local] /\ wlock \in [Worker -> Tx \cup {None}]
    BY DEF LockInv, TypeOK
  <1>2. CASE UNCHANGED vars \/ Tick
    BY <1>2 DEF vars, Tick, WaitInv
  <1>3. ASSUME NEW t \in Tx, Start(t) PROVE WaitInv'
    <2>1. tx[t] = Idle /\ UNCHANGED wlock
      BY <1>3
      DEF Start, BeginLease, BeginAttempt, BeginAction, BeginReap, Begin
    <2>2. \A u \in Tx \ {t} : tx'[u] = tx[u]
      BY <1>1, <1>3
      DEF Start, BeginLease, BeginAttempt, BeginAction, BeginReap, Begin
    <2> QED
      BY <2>1, <2>2 DEF WaitInv, Idle
  <1>4. ASSUME NEW t \in Tx, LockWorker(t) PROVE WaitInv'
    <2>1. tx'[t].pc \in {"used", "job"}
      BY <1>1, <1>4 DEF LockWorker, Goto, Local
    <2>2. \A u \in Tx \ {t} : tx'[u] = tx[u]
      BY <1>1, <1>4 DEF LockWorker, Goto
    <2>3. \A w \in Worker : wlock'[w] \in {wlock[w], t}
      BY <1>1, <1>4 DEF LockWorker
    <2> QED
      BY <2>1, <2>2, <2>3 DEF WaitInv
  <1>5. ASSUME NEW t \in Tx, Commit(t) \/ Rollback(t) PROVE WaitInv'
    <2>1. \A u \in Tx \ {t} : tx'[u] = tx[u]
      BY <1>1, <1>5 DEF Commit, Rollback, Free
    <2>2. \A w \in Worker : wlock'[w] # t /\ wlock'[w] \in {wlock[w], None}
      BY <1>1, <1>5, TransactionsAssumption DEF Commit, Rollback, Free
    <2> QED
      BY <2>1, <2>2, TransactionsAssumption DEF WaitInv
  <1>6. ASSUME NEW t \in Tx, Statement(t), ~ LockWorker(t), ~ Commit(t),
               ~ Refused(t)
        PROVE  WaitInv'
    BY <1>6, OtherStatements DEF WaitInv
  <1> QED
    BY <1>2, <1>3, <1>4, <1>5, <1>6 DEF Next, Refused

-----------------------------------------------------------------------------
(* The units a job takes, and those of a worker, are finite in number.     *)

INSTANCE FiniteSetTheorems

Share(j) == {j} \X (1 .. Need[j])

LEMMA ShareSize ==
  ASSUME NEW j \in Job
  PROVE  IsFiniteSet(Share(j)) /\ Cardinality(Share(j)) = Need[j]
  <1> DEFINE m == Need[j]
             one == {j}
  <1>1. m \in Nat /\ Share(j) = one \X (1 .. m)
    BY TransactionsAssumption DEF Share
  <1> HIDE DEF m, one
  <1>2. IsFiniteSet(1 .. m) /\ Cardinality(1 .. m) = m
    <2>1. /\ IsFiniteSet(1 .. m)
          /\ Cardinality(1 .. m) = IF 1 > m THEN 0 ELSE m - 1 + 1
      BY <1>1, FS_Interval, SMTT(30)
    <2> QED
      BY <1>1, <2>1
  <1>3. IsFiniteSet(one) /\ Cardinality(one) = 1
    BY FS_Singleton, Zenon DEF one
  <1>4. /\ IsFiniteSet(one \X (1 .. m))
        /\ Cardinality(one \X (1 .. m)) = 1 * m
    BY <1>2, <1>3, FS_Product, ZenonT(60)
  <1>5. 1 * m = m
    BY <1>1
  <1> QED
    BY <1>1, <1>4, <1>5 DEF m

LEMMA UnitsFinite == \A w : IsFiniteSet(Units(w)) /\ Reserved(w) \in Nat
  <1> SUFFICES ASSUME NEW w PROVE IsFiniteSet(Units(w))
    BY FS_CardinalityType DEF Reserved
  <1> DEFINE f == [j \in Held(w) |-> Share(j)]
             T == {Share(j) : j \in Held(w)}
  <1>1. IsFiniteSet(Held(w))
    BY FS_Subset, TransactionsAssumption DEF Held
  <1>2. f \in Surjection(Held(w), T)
    BY Zenon DEF Surjection
  <1>3. IsFiniteSet(T)
    <2> HIDE DEF f, T
    <2> QED
      BY <1>1, <1>2, FS_Surjection
  <1>4. \A U \in T : IsFiniteSet(U)
    BY ShareSize DEF Held
  <1>5. Units(w) = UNION T
    BY DEF Units, Share
  <1> HIDE DEF T
  <1> QED
    BY <1>3, <1>4, <1>5, FS_UNION

LEMMA HasLeast ==
  ASSUME NEW S \in SUBSET Nat, S # {}
  PROVE  \E i \in S : \A k \in S : i <= k
  <1> DEFINE R == OpToRel(<, Nat)
  <1>1. PICK m \in S : \A k \in S : ~(<<k, m>> \in R)
    BY NatLessThanWellFounded, WFMin
  <1>2. R = {xy \in Nat \X Nat : xy[1] < xy[2]}
    BY DEF OpToRel
  <1> HIDE DEF R
  <1>3. \A k \in S : <<k, m>> \in Nat \X Nat /\ ~(k < m)
    BY <1>1, <1>2
  <1>4. ASSUME NEW k \in S PROVE m <= k
    <2>1. k \in Nat /\ m \in Nat /\ ~(k < m)
      BY <1>3
    <2> QED
      BY <2>1
  <1> QED
    BY <1>4

LEMMA FewerUnits ==
  ASSUME NEW w, Held(w)' \subseteq Held(w)
  PROVE  Reserved(w)' <= Reserved(w)
  <1>1. Units(w)' \subseteq Units(w)
    BY DEF Units
  <1> QED
    BY <1>1, UnitsFinite, FS_Subset DEF Reserved

(* One more job takes its share.                                           *)
LEMMA MoreUnits ==
  ASSUME NEW w, NEW j \in Job, Held(w)' \subseteq Held(w) \cup {j}
  PROVE  Reserved(w)' <= Reserved(w) + Need[j]
  <1> DEFINE U == Units(w)
             V == Share(j)
  <1>1. Units(w)' \subseteq U \cup V
    BY DEF Units, Share
  <1>2. IsFiniteSet(V) /\ Cardinality(V) = Need[j] /\ Need[j] \in Nat
    BY ShareSize, TransactionsAssumption
  <1>3. IsFiniteSet(U) /\ Cardinality(U) \in Nat
    BY UnitsFinite DEF Reserved
  <1> HIDE DEF U, V
  <1>4. /\ IsFiniteSet(U \cup V)
        /\ Cardinality(U \cup V) =
             Cardinality(U) + Cardinality(V) - Cardinality(U \cap V)
    BY <1>2, <1>3, FS_Union
  <1>5. Cardinality(U \cap V) \in Nat
    <2>1. IsFiniteSet(U \cap V)
      BY <1>3, FS_Subset
    <2> QED
      BY <2>1, FS_CardinalityType
  <1>6. Cardinality(U \cup V) <= Cardinality(U) + Need[j]
    BY <1>2, <1>3, <1>4, <1>5
  <1>7. /\ Cardinality(Units(w)') <= Cardinality(U \cup V)
        /\ IsFiniteSet(Units(w)')
    BY <1>1, <1>4, FS_Subset
  <1>8. Cardinality(Units(w)') \in Nat /\ Cardinality(U \cup V) \in Nat
    BY <1>4, <1>7, FS_CardinalityType
  <1> QED
    BY <1>2, <1>3, <1>6, <1>7, <1>8 DEF Reserved, U

LEMMA ReservedNat == \A w : Reserved(w) \in Nat /\ Reserved(w)' \in Nat
  <1>1. \A w : Reserved(w) \in Nat
    BY UnitsFinite
  <1>2. (\A w : Reserved(w) \in Nat)'
    BY <1>1, PTL
  <1> QED
    BY <1>1, <1>2

LEMMA ArithmeticHolds == Arithmetic
  <1>1. ASSUME NEW S \in SUBSET Nat, S # {}
        PROVE  \E i \in S : \A k \in S : i <= k
    BY <1>1, HasLeast
  <1>2. ASSUME NEW w, Held(w)' \subseteq Held(w)
        PROVE  Reserved(w)' <= Reserved(w)
    BY <1>2, FewerUnits
  <1>3. ASSUME NEW w, NEW j \in Job, Held(w)' \subseteq Held(w) \cup {j}
        PROVE  Reserved(w)' <= Reserved(w) + Need[j]
    BY <1>3, MoreUnits
  <1> QED
    BY <1>1, <1>2, <1>3, ReservedNat DEF Arithmetic

LEMMA CapacityInit == Init => CapacityInv
  <1> SUFFICES ASSUME Init PROVE CapacityInv
    OBVIOUS
  <1>1. \A j \in Job : \A w : ~ Holds(rows[j], w) /\ ~ Holds(pend[j], w)
    BY DEF Init, Holds
  <1>2. ASSUME NEW w \in Worker PROVE Reserved(w) <= Capacity[w]
    <2>1. Held(w) = {}
      BY <1>1 DEF Held
    <2>2. Units(w) = {}
      BY <2>1 DEF Units
    <2>3. Reserved(w) = 0
      BY <2>2, FS_EmptySet DEF Reserved
    <2> QED
      BY <2>3, TransactionsAssumption
  <1>3. \A t \in Tx : LeaseInv(t)
    BY DEF Init, LeaseInv, Idle
  <1> QED
    BY <1>1, <1>2, <1>3 DEF CapacityInv, CapacityRespected

-----------------------------------------------------------------------------
(* The theorems.                                                           *)

(* The rows a transaction reads, locks and has written are as it takes     *)
(* them to be, throughout.                                                 *)
THEOREM LocksCorrect == Spec => []LockInv
  <1>1. Init => LockInv
    BY LockInit
  <1>2. LockInv /\ [Next]_vars => LockInv'
    BY LockStep, ArithmeticHolds
  <1> QED
    BY <1>1, <1>2, PTL DEF Spec

(* Rows, locks and the local variables of transactions keep to their       *)
(* types.                                                                  *)
THEOREM TransactionsTyped == Spec => []TypeOK
  <1>1. LockInv => TypeOK
    BY DEF LockInv
  <1> QED
    BY <1>1, LocksCorrect, PTL

(* LeaseJob, once it has locked a queued row, meets neither the index      *)
(* one_active_attempt nor an exhausted budget.                             *)
THEOREM LeasesAreNeverRefused == Spec => []LeaseNeverRefused
  <1>1. LockInv => LeaseNeverRefused
    <2> SUFFICES ASSUME LockInv, NEW t \in Tx, tx[t].pc = "insert"
                 PROVE  CanInsert(tx[t].j)
      BY DEF LeaseNeverRefused
    <2> DEFINE r == rows[tx[t].j]
    <2>1. r \in Row /\ L!RowInv(Outline(r)) /\ r.state = "QUEUED"
      BY DEF LockInv, TypeOK, RowsInv, TxInv, Owns, Found, Fresh
    <2> HIDE DEF r
    <2>2. Len(r.attempts) + 1 <= r.max_attempts
      <3>1. Len(r.attempts) < r.max_attempts
        BY <2>1, RowInvParts
      <3>2. Len(r.attempts) \in Nat /\ r.max_attempts \in Nat
        BY <2>1, RowParts
      <3> QED
        BY <3>1, <3>2
    <2>3. \A n \in DOMAIN r.attempts : r.attempts[n].state \notin Active
      BY <2>1, ActiveIsLatest DEF Active
    <2> QED
      BY <2>2, <2>3 DEF CanInsert, HasActive, r
  <1> QED
    BY <1>1, LocksCorrect, PTL

(* Whatever the interleaving of statements, each row that is committed is  *)
(* the old one or a step of Lifecycle away from it: a cancellation wins    *)
(* against a later completion, a completion stays, the budget holds.       *)
THEOREM CommitsFollowLifecycle == Spec => LifecycleSteps
  <1>1. LockInv /\ [Next]_vars => [L!Next]_rows
    <2> SUFFICES ASSUME LockInv, [Next]_vars, NEW j \in Job
                 PROVE  \/ Outline(rows'[j]) = Outline(rows[j])
                        \/ L!Step(Outline(rows[j]), Outline(rows'[j]))
      BY DEF L!Next
    <2>1. rows[j] \in Row
      BY DEF LockInv, TypeOK
    <2> QED
      BY <2>1, CommittedIsAhead, AgeParts DEF Ahead
  <1> QED
    BY <1>1, LocksCorrect, PTL DEF Spec, LifecycleSteps

(* The reaper commits the expiry of an attempt only if its lease is over   *)
(* when it does, although it chose the job in an earlier statement.        *)
THEOREM NothingExpiresEarly == Spec => NoEarlyExpiry
  <1> DEFINE Kept == \A j \in Job : \A n \in DOMAIN rows[j].attempts :
                       /\ rows[j].attempts[n].state \in Active
                       /\ rows'[j].attempts[n].state = "EXPIRED"
                       => rows[j].attempts[n].lease = 0
  <1>1. LockInv /\ [Next]_vars => Kept
    <2> SUFFICES ASSUME LockInv, [Next]_vars, NEW j \in Job,
                        NEW n \in DOMAIN rows[j].attempts,
                        rows[j].attempts[n].state \in Active,
                        rows'[j].attempts[n].state = "EXPIRED"
                 PROVE  rows[j].attempts[n].lease = 0
      OBVIOUS
    <2>1. rows[j] \in Row
      BY DEF LockInv, TypeOK
    <2>2. AgeRow(rows[j]).attempts[n].state = rows[j].attempts[n].state
      BY <2>1, AgeParts
    <2> QED
      BY <2>2, CommittedIsAhead DEF Ahead, Active
  <1> QED
    BY <1>1, LocksCorrect, PTL DEF Spec, NoEarlyExpiry

(* LeaseJob adds up the reservations of its worker before it has locked a  *)
(* job, and still no worker is ever over-committed: the row of the worker  *)
(* stays locked until the commit.                                          *)
THEOREM WorkersAreNeverOvercommitted == Spec => []CapacityRespected
  <1>1. Init => CapacityInv
    BY CapacityInit
  <1>2. LockInv /\ CapacityInv /\ [Next]_vars => CapacityInv'
    BY CapacityStep, ArithmeticHolds
  <1>3. CapacityInv => CapacityRespected
    BY DEF CapacityInv
  <1> QED
    BY <1>1, <1>2, <1>3, LocksCorrect, PTL DEF Spec

(* Transactions never wait in a circle for rows of workers and jobs: three *)
(* of them at most form a chain.  A worker's call locks its worker before  *)
(* its job (workers.go:91, :179), and LeaseJob and the reaper skip a job   *)
(* that is locked.                                                         *)
THEOREM TransactionsNeverDeadlock == Spec => []WaitsEnd
  <1>1. LockInv /\ WaitInv => WaitsEnd
    <2> SUFFICES ASSUME LockInv, WaitInv,
                        NEW t \in Tx, NEW u \in Tx, NEW v \in Tx, NEW x \in Tx,
                        WaitsFor(t, u), WaitsFor(u, v), WaitsFor(v, x)
                 PROVE  FALSE
      BY DEF WaitsEnd
    <2>1. ASSUME NEW p \in Tx, NEW q \in Tx, WaitsFor(p, q),
                 tx[p].pc = "job"
          PROVE  tx[q].pc \notin {"worker", "job"}
      BY <2>1 DEF LockInv, TxInv, Owns, Unlocked, WaitsFor
    <2>2. ASSUME NEW p \in Tx, NEW q \in Tx, WaitsFor(p, q),
                 tx[p].pc = "worker"
          PROVE  tx[q].pc # "worker"
      <3>1. tx[p].w \in Worker
        BY <2>2 DEF LockInv, TxInv, Places, Owns
      <3> QED
        BY <2>2, <3>1 DEF WaitInv, WaitsFor
    <2> QED
      BY <2>1, <2>2 DEF WaitsFor
  <1>2. Init => LockInv /\ WaitInv
    BY LockInit, TransactionsAssumption DEF Init, WaitInv
  <1>3. LockInv /\ WaitInv /\ [Next]_vars => LockInv' /\ WaitInv'
    BY LockStep, WaitStep, ArithmeticHolds
  <1> QED
    BY <1>1, <1>2, <1>3, PTL DEF Spec
=============================================================================

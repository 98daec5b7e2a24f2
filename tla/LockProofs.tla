----------------------------- MODULE LockProofs -----------------------------
(***************************************************************************)
(* The rows a transaction of internal/store reads, locks and has written   *)
(* are as it takes them to be, whatever the others do between its          *)
(* statements: the invariant, and that every step keeps it.                *)
(***************************************************************************)
EXTENDS Transactions, TLAPS

(* A row and its version under way: the committed row is one Lifecycle     *)
(* keeps, what is pending is at most one step of Lifecycle ahead, and that *)
(* step is no early expiry.                                                *)
Ahead(old, new) ==
  /\ Outline(new) = Outline(old) \/ L!Step(Outline(old), Outline(new))
  /\ \A n \in DOMAIN old.attempts :
       old.attempts[n].state \in Active /\ new.attempts[n].state = "EXPIRED"
         => old.attempts[n].lease = 0

RowsInv ==
  \A j \in Job : /\ L!RowInv(Outline(rows[j])) /\ rows[j].state # "ABSENT"
                 /\ Ahead(rows[j], pend[j])
                 /\ jlock[j] = None => pend[j] = rows[j]

(* The operations that come to a statement.                                *)
Places(x) ==
  /\ x.pc = "worker" => x.op \in AttemptOp \cup {"LeaseJob"}
  /\ x.pc \in {"used", "insert"} => x.op = "LeaseJob"
  /\ x.pc \in {"scan", "probe"} => x.op \in {"LeaseJob", "Reap"}
  /\ x.pc \in {"job", "write"} => x.op \in AttemptOp \cup ActionOp
  /\ x.pc = "check" => x.op \in AttemptOp
  /\ x.pc \in {"recheck", "expire"} => x.op = "Reap"

(* Which rows a transaction has locked, which of them it has not written   *)
(* yet, and what it has found in them.                                     *)
Unlocked(t) ==
  \/ tx[t].pc \in {"idle", "worker", "used", "scan", "job"}
  \/ tx[t].pc = "probe" /\ tx[t].op = "LeaseJob"

Fresh(t, j) == j \in Job /\ jlock[j] = t /\ pend[j] = rows[j]

Named(t) == tx[t].j \in Job /\ tx[t].n \in DOMAIN rows[tx[t].j].attempts

Owns(t) ==
  LET x == tx[t] IN
  /\ x.op \in AttemptOp \cup {"LeaseJob"} => x.w \in Worker
  /\ Unlocked(t) => \A j \in Job : jlock[j] # t
  /\ x.pc = "probe" => \A j \in Job : jlock[j] = t => Fresh(t, j)
  /\ x.pc = "job" => x.j \in Job
  /\ x.pc \in {"insert", "check", "write", "expire"} => Fresh(t, x.j)
  /\ x.pc \in {"recheck", "expire"} => \A i \in x.ids : Fresh(t, i)
  /\ x.pc = "expire" => x.j \notin x.ids

Found(t) ==
  LET x == tx[t]
      a == rows[x.j].attempts[x.n]
  IN /\ x.pc = "insert" => rows[x.j].state = "QUEUED"
     /\ x.pc \in {"worker", "job", "check", "write"} /\ x.op \in AttemptOp
          => Named(t)
     /\ x.pc = "write" /\ x.op \in AttemptOp =>
          /\ a.state \in Active
          /\ x.op \in {"CompleteAttempt", "FailAttempt"} => a.state = "RUNNING"
     /\ x.pc = "expire" => Named(t) /\ Expired(a)

TxInv(t) == Places(tx[t]) /\ Owns(t) /\ Found(t)

LockInv == TypeOK /\ RowsInv /\ \A t \in Tx : TxInv(t)

(* What the steps take for granted about numbers and sums of demands.      *)
(* These facts hold of every step; they are proved last, where the         *)
(* theorems about finite sets come in.                                     *)
Arithmetic ==
  /\ \A S \in SUBSET Nat : S # {} => \E i \in S : \A k \in S : i <= k
  /\ \A w : Reserved(w) \in Nat /\ Reserved(w)' \in Nat
  /\ \A w : Held(w)' \subseteq Held(w) => Reserved(w)' <= Reserved(w)
  /\ \A w : \A j \in Job : Held(w)' \subseteq Held(w) \cup {j} =>
       Reserved(w)' <= Reserved(w) + Need[j]

-----------------------------------------------------------------------------
(* Rows.                                                                   *)

LEMMA SameStates ==
  Active = L!Active /\ JobState = L!JobState /\ AttemptState = L!AttemptState
  BY DEF Active, JobState, AttemptState, L!Active, L!JobState, L!AttemptState

(* Moving the latest attempt changes no other one, and the steps of        *)
(* Lifecycle keep the invariant of a row.                                  *)
LEMMA MovedHistory ==
  ASSUME NEW old \in L!Row, NEW new \in L!Row, NEW to \in L!AttemptState,
         L!Moved(old, new, to), L!RowInv(old)
  PROVE  /\ Len(new.history) = Len(old.history)
         /\ Len(old.history) > 0
         /\ new.history[Len(new.history)] = to
         /\ \A i \in 1 .. Len(new.history) - 1 :
              new.history[i] \in {"FAILED", "EXPIRED"}
         /\ new.budget = old.budget
         /\ Len(new.history) <= new.budget
  <1> DEFINE h == old.history
             k == new.history
  <1>1. h \in Seq(L!AttemptState) /\ Len(h) \in Nat
    BY DEF L!Row
  <1>2. k = [h EXCEPT ![Len(h)] = to] /\ Len(h) > 0 /\ new.budget = old.budget
    BY DEF L!Moved
  <1>3. /\ \A i \in 1 .. Len(h) - 1 : h[i] \in {"FAILED", "EXPIRED"}
        /\ Len(h) <= old.budget
    BY DEF L!RowInv
  <1> HIDE DEF h, k
  <1>4. Len(k) = Len(h) /\ k[Len(h)] = to
    BY <1>1, <1>2
  <1>5. \A i \in 1 .. Len(h) - 1 : k[i] = h[i]
    BY <1>1, <1>2
  <1> QED
    BY <1>1, <1>2, <1>3, <1>4, <1>5 DEF h, k

LEMMA StepKeepsRow ==
  ASSUME NEW old \in L!Row, NEW new \in L!Row, L!RowInv(old), L!Step(old, new)
  PROVE  L!RowInv(new)
  <1> USE DEF L!Active, L!AttemptState
  <1>0. /\ old.history \in Seq(L!AttemptState)
        /\ new.history \in Seq(L!AttemptState)
        /\ old.budget \in Nat \ {0} /\ new.budget \in Nat \ {0}
        /\ Len(new.history) \in Nat
    BY DEF L!Row
  <1>1. CASE L!Submitted(old, new)
    BY <1>0, <1>1 DEF L!Submitted, L!RowInv
  <1>2. CASE L!Leased(old, new)
    BY <1>0, <1>2 DEF L!Leased, L!RowInv
  <1>3. CASE L!Started(old, new)
    BY <1>0, <1>3, MovedHistory DEF L!Started, L!RowInv
  <1>4. CASE L!Succeeded(old, new)
    BY <1>0, <1>4, MovedHistory DEF L!Succeeded, L!RowInv
  <1>5. CASE L!Lost(old, new)
    BY <1>0, <1>5, MovedHistory DEF L!Lost, L!RowInv
  <1>6. CASE L!Cancelled(old, new)
    BY <1>0, <1>6, MovedHistory DEF L!Cancelled, L!RowInv
  <1>7. CASE L!Retried(old, new)
    BY <1>0, <1>7 DEF L!Retried, L!RowInv
  <1> QED
    BY <1>1, <1>2, <1>3, <1>4, <1>5, <1>6, <1>7 DEF L!Step

LEMMA RowParts ==
  ASSUME NEW r \in Row
  PROVE  /\ r.state \in JobState /\ r.max_attempts \in Nat \ {0}
         /\ r.attempts \in Seq(Attempt) /\ Len(r.attempts) \in Nat
         /\ DOMAIN r.attempts = 1 .. Len(r.attempts)
         /\ \A n \in DOMAIN r.attempts : r.attempts[n] \in Attempt
  <1>1. /\ r.state \in JobState /\ r.max_attempts \in Nat \ {0}
        /\ r.attempts \in Seq(Attempt)
    BY DEF Row
  <1> QED
    BY <1>1

(* The outline of a row, field by field.                                   *)
LEMMA OutlineParts ==
  ASSUME NEW r \in Row
  PROVE  /\ Outline(r) \in L!Row
         /\ Outline(r).state = r.state
         /\ Outline(r).budget = r.max_attempts
         /\ Len(Outline(r).history) = Len(r.attempts)
         /\ DOMAIN Outline(r).history = DOMAIN r.attempts
         /\ \A n \in DOMAIN r.attempts :
              Outline(r).history[n] = r.attempts[n].state
  <1> DEFINE h == [n \in DOMAIN r.attempts |-> r.attempts[n].state]
  <1>1. h \in [1 .. Len(r.attempts) -> AttemptState]
    BY RowParts DEF Attempt
  <1>2. h \in Seq(AttemptState) /\ Len(h) = Len(r.attempts)
    <2>1. Len(r.attempts) \in Nat
      BY RowParts
    <2> HIDE DEF h
    <2> QED
      BY <1>1, <2>1
  <1>3. Outline(r) = [state |-> r.state, budget |-> r.max_attempts,
                      history |-> h]
    BY DEF Outline
  <1>4. \A n \in DOMAIN r.attempts : h[n] = r.attempts[n].state
    OBVIOUS
  <1>5. DOMAIN h = DOMAIN r.attempts
    OBVIOUS
  <1> HIDE DEF h
  <1> QED
    BY <1>2, <1>3, <1>4, <1>5, RowParts, SameStates DEF L!Row

(* The invariant of Lifecycle, said of a row.                              *)
LEMMA RowInvParts ==
  ASSUME NEW r \in Row, L!RowInv(Outline(r))
  PROVE  /\ \A n \in 1 .. Len(r.attempts) - 1 :
              r.attempts[n].state \in {"FAILED", "EXPIRED"}
         /\ r.state \in Active \cup {"SUCCEEDED"} =>
              /\ Len(r.attempts) > 0
              /\ r.attempts[Len(r.attempts)].state = r.state
         /\ /\ Len(r.attempts) > 0
            /\ r.attempts[Len(r.attempts)].state \in Active
            => r.state = r.attempts[Len(r.attempts)].state
         /\ Len(r.attempts) <= r.max_attempts
         /\ r.state = "QUEUED" => Len(r.attempts) < r.max_attempts
  <1> DEFINE h == Outline(r).history
             k == Len(r.attempts)
  <1>1. /\ Len(h) = k /\ k \in Nat /\ Outline(r).state = r.state
        /\ \A n \in 1 .. k : h[n] = r.attempts[n].state
        /\ Outline(r).budget = r.max_attempts
    BY RowParts, OutlineParts
  <1>2. /\ \A n \in 1 .. Len(h) - 1 : h[n] \in {"FAILED", "EXPIRED"}
        /\ r.state \in Active \cup {"SUCCEEDED"} =>
             Len(h) > 0 /\ h[Len(h)] = r.state
        /\ Len(h) > 0 /\ h[Len(h)] \in Active => r.state = h[Len(h)]
        /\ Len(h) <= r.max_attempts
        /\ r.state = "QUEUED" => Len(h) < r.max_attempts
    BY <1>1, SameStates DEF L!RowInv, h
  <1> HIDE DEF h, k
  <1>3. \A n \in 1 .. k - 1 : r.attempts[n].state \in {"FAILED", "EXPIRED"}
    BY <1>1, <1>2
  <1>4. k > 0 => h[k] = r.attempts[k].state
    BY <1>1
  <1> QED
    BY <1>1, <1>2, <1>3, <1>4 DEF k

(* An active attempt is the latest of its job, and the job is in its state. *)
LEMMA ActiveIsLatest ==
  ASSUME NEW r \in Row, L!RowInv(Outline(r)), NEW n \in DOMAIN r.attempts,
         r.attempts[n].state \in Active
  PROVE  n = Len(r.attempts) /\ r.state = r.attempts[n].state
  <1>1. n \in 1 .. Len(r.attempts) /\ Len(r.attempts) \in Nat
    BY RowParts
  <1>2. n = Len(r.attempts)
    BY <1>1, RowInvParts DEF Active
  <1> QED
    BY <1>1, <1>2, RowInvParts

(* Giving the active attempt a new state moves the row.                    *)
LEMMA MoveRow ==
  ASSUME NEW r \in Row, NEW s \in Row, L!RowInv(Outline(r)),
         NEW n \in DOMAIN r.attempts, r.attempts[n].state \in Active,
         NEW to \in AttemptState,
         s.max_attempts = r.max_attempts,
         DOMAIN s.attempts = DOMAIN r.attempts,
         \A i \in DOMAIN r.attempts : s.attempts[i].state =
           IF i = n THEN to ELSE r.attempts[i].state
  PROVE  /\ L!Moved(Outline(r), Outline(s), to)
         /\ Outline(r).state = r.attempts[n].state
         /\ Len(Outline(r).history) = n /\ Outline(r).budget = r.max_attempts
         /\ Outline(s).state = s.state
  <1> DEFINE h == Outline(r).history
             k == Outline(s).history
  <1>1. n = Len(r.attempts) /\ r.state = r.attempts[n].state /\ n > 0
    BY ActiveIsLatest, RowParts
  <1>2. h = [i \in DOMAIN r.attempts |-> r.attempts[i].state]
    BY DEF Outline
  <1>3. k = [i \in DOMAIN r.attempts |-> s.attempts[i].state]
    BY DEF Outline
  <1>4. k = [h EXCEPT ![n] = to]
    <2> HIDE DEF h, k
    <2> QED
      BY <1>2, <1>3
  <1>5. h[n] = r.attempts[n].state
    BY OutlineParts
  <1> QED
    BY <1>1, <1>4, <1>5, OutlineParts, SameStates DEF L!Moved

LEMMA AheadSelf == \A r : Ahead(r, r)
  BY DEF Ahead, Active

(* A row moves only forward: no attempt is ever taken away.                *)
LEMMA AheadGrows ==
  ASSUME NEW r \in Row, NEW s \in Row, L!RowInv(Outline(r)), Ahead(r, s)
  PROVE  /\ DOMAIN r.attempts \subseteq DOMAIN s.attempts
         /\ L!RowInv(Outline(s))
         /\ r.state # "ABSENT" => s.state # "ABSENT"
  <1> DEFINE o == Outline(r)
             p == Outline(s)
  <1>1. /\ o \in L!Row /\ p \in L!Row /\ L!RowInv(o)
        /\ p = o \/ L!Step(o, p)
    BY OutlineParts DEF Ahead
  <1>2. o.history \in Seq(AttemptState) /\ p.history \in Seq(AttemptState)
    BY <1>1, SameStates DEF L!Row
  <1>3. /\ DOMAIN o.history = DOMAIN r.attempts
        /\ DOMAIN p.history = DOMAIN s.attempts
    BY OutlineParts
  <1> HIDE DEF o, p
  <1>4. L!RowInv(p)
    BY <1>1, StepKeepsRow
  <1>5. Len(o.history) <= Len(p.history)
    <2>1. CASE p = o
      BY <1>2, <2>1
    <2>2. CASE L!Submitted(o, p)
      BY <1>1, <1>2, <2>2 DEF L!Submitted, L!RowInv
    <2>3. CASE L!Leased(o, p)
      BY <1>2, <2>3 DEF L!Leased
    <2>4. CASE \E to : L!Moved(o, p, to)
      BY <1>2, <2>4 DEF L!Moved
    <2>5. CASE p.history = o.history
      BY <1>2, <2>5
    <2> QED
      BY <1>1, <2>1, <2>2, <2>3, <2>4, <2>5
      DEF L!Step, L!Started, L!Succeeded, L!Lost, L!Cancelled, L!Retried
  <1>6. DOMAIN o.history \subseteq DOMAIN p.history
    BY <1>2, <1>5
  <1>7. o.state # "ABSENT" => p.state # "ABSENT"
    BY <1>1
    DEF L!Step, L!Submitted, L!Leased, L!Started, L!Succeeded, L!Lost,
        L!Cancelled, L!Retried
  <1> QED
    BY <1>3, <1>4, <1>6, <1>7, OutlineParts DEF o, p

-----------------------------------------------------------------------------
(* Steps of one transaction, seen by the others.                           *)

LEMMA LocalParts ==
  ASSUME NEW x \in Local
  PROVE  /\ x.w \in Worker \cup {None} /\ x.j \in Job \cup {0}
         /\ x.n \in Nat /\ x.free \in Int /\ x.ids \in SUBSET Job
  BY DEF Local

Only(t) == tx' \in [Tx -> Local] /\ \A u \in Tx \ {t} : tx'[u] = tx[u]

(* Goto changes where a transaction is and nothing else.                   *)
LEMMA GotoParts ==
  ASSUME TypeOK, NEW t \in Tx, NEW pc,
         pc \in {"used", "job", "write", "check", "commit"}, Goto(t, pc)
  PROVE  /\ Only(t) /\ tx'[t].pc = pc /\ tx'[t].op = tx[t].op
         /\ tx'[t].w = tx[t].w /\ tx'[t].j = tx[t].j /\ tx'[t].n = tx[t].n
         /\ tx'[t].free = tx[t].free /\ tx'[t].ids = tx[t].ids
  <1>1. tx[t] \in Local /\ tx \in [Tx -> Local]
    BY DEF TypeOK
  <1>2. [tx[t] EXCEPT !.pc = pc] \in Local
    BY <1>1 DEF Local
  <1>3. tx' = [tx EXCEPT ![t] = [tx[t] EXCEPT !.pc = pc]]
    BY DEF Goto
  <1>4. tx'[t] = [tx[t] EXCEPT !.pc = pc]
    BY <1>1, <1>3
  <1>5. Only(t)
    BY <1>1, <1>2, <1>3 DEF Only
  <1> QED
    BY <1>1, <1>4, <1>5 DEF Local

(* A transaction keeps what it knows as long as its own rows are left      *)
(* alone and no attempt is taken away.                                     *)
LEMMA OthersKeep ==
  ASSUME NEW u \in Tx, TxInv(u), tx'[u] = tx[u],
         \A j \in Job : /\ jlock'[j] = u <=> jlock[j] = u
                        /\ jlock[j] = u =>
                             rows'[j] = rows[j] /\ pend'[j] = pend[j]
                        /\ DOMAIN rows[j].attempts
                             \subseteq DOMAIN rows'[j].attempts
  PROVE  TxInv(u)'
  <1>1. Unlocked(u)' <=> Unlocked(u)
    BY DEF Unlocked
  <1>2. \A j : Fresh(u, j) => Fresh(u, j)' /\ rows'[j] = rows[j]
    BY DEF Fresh
  <1>3. Named(u) => Named(u)'
    BY DEF Named
  <1>4. Owns(u)'
    BY <1>1, <1>2 DEF TxInv, Owns
  <1>5. Found(u)'
    <2>1. tx[u].pc \in {"insert", "write", "expire"} =>
            rows'[tx[u].j] = rows[tx[u].j]
      BY <1>2 DEF TxInv, Owns
    <2> QED
      BY <1>3, <2>1 DEF TxInv, Found
  <1> QED
    BY <1>4, <1>5 DEF TxInv

(* A step that writes no row.                                              *)
LEMMA QuietKeeps ==
  ASSUME LockInv, NEW t \in Tx, Only(t), TxInv(t)', UNCHANGED <<rows, pend>>,
         jlock' \in [Job -> Tx \cup {None}],
         wlock' \in [Worker -> Tx \cup {None}],
         \A j \in Job : jlock'[j] = jlock[j]
                        \/ (jlock[j] = None /\ jlock'[j] = t)
  PROVE  LockInv'
  <1>1. TypeOK'
    BY DEF LockInv, TypeOK, Only
  <1>2. RowsInv'
    BY TransactionsAssumption DEF LockInv, RowsInv
  <1>3. ASSUME NEW u \in Tx \ {t} PROVE TxInv(u)'
    BY <1>3, OthersKeep, TransactionsAssumption DEF LockInv, Only
  <1> QED
    BY <1>1, <1>2, <1>3 DEF LockInv

(* A step that writes a row it has locked and not written yet.             *)
LEMMA WriteKeeps ==
  ASSUME LockInv, NEW t \in Tx, Only(t), TxInv(t)',
         UNCHANGED <<rows, jlock, wlock>>,
         NEW j \in Job, Fresh(t, j), NEW r \in Row, Ahead(rows[j], r),
         pend' = [pend EXCEPT ![j] = r]
  PROVE  LockInv'
  <1>1. TypeOK'
    BY DEF LockInv, TypeOK, Only
  <1>2. pend \in [Job -> Row]
    BY DEF LockInv, TypeOK
  <1>3. RowsInv'
    <2>1. ASSUME NEW i \in Job
          PROVE  /\ L!RowInv(Outline(rows[i])) /\ rows[i].state # "ABSENT"
                 /\ Ahead(rows[i], pend'[i])
                 /\ jlock[i] = None => pend'[i] = rows[i]
      BY <1>2, TransactionsAssumption DEF LockInv, RowsInv, Fresh
    <2> QED
      BY <2>1 DEF RowsInv
  <1>4. ASSUME NEW u \in Tx \ {t} PROVE TxInv(u)'
    <2>1. \A i \in Job : jlock[i] = u => pend'[i] = pend[i]
      BY <1>2 DEF Fresh
    <2> QED
      BY <2>1, OthersKeep DEF LockInv, Only
  <1> QED
    BY <1>1, <1>3, <1>4 DEF LockInv

(* The end of a transaction: its locks are given back, and what it has     *)
(* written is committed or forgotten.                                      *)
LEMMA EndKeeps ==
  ASSUME LockInv, NEW t \in Tx, Commit(t) \/ Rollback(t)
  PROVE  LockInv'
  <1>1. TypeOK /\ RowsInv /\ \A u \in Tx : TxInv(u)
    BY DEF LockInv
  <1>2. /\ jlock' = [j \in Job |-> IF jlock[j] = t THEN None ELSE jlock[j]]
        /\ wlock' = [w \in Worker |-> IF wlock[w] = t THEN None ELSE wlock[w]]
        /\ tx' = [tx EXCEPT ![t] = Idle]
    BY DEF Commit, Rollback, Free
  <1>3. ASSUME NEW j \in Job
        PROVE  /\ jlock[j] # t => rows'[j] = rows[j] /\ pend'[j] = pend[j]
               /\ jlock[j] = t => /\ pend'[j] = rows'[j]
                                  /\ rows'[j] \in {rows[j], pend[j]}
    BY DEF Commit, Rollback
  <1>4. rows \in [Job -> Row] /\ pend \in [Job -> Row]
    BY <1>1 DEF TypeOK
  <1>5. rows' \in [Job -> Row] /\ pend' \in [Job -> Row]
    BY <1>4 DEF Commit, Rollback
  <1>6. Idle \in Local
    BY DEF Idle, Local
  <1>7. Only(t) /\ tx'[t] = Idle
    BY <1>1, <1>2, <1>6 DEF TypeOK, Only
  <1>8. TypeOK'
    <2>1. /\ jlock' \in [Job -> Tx \cup {None}]
          /\ wlock' \in [Worker -> Tx \cup {None}]
      BY <1>1, <1>2 DEF TypeOK
    <2> QED
      BY <1>5, <1>7, <2>1 DEF TypeOK, Only
  <1>9. \A j \in Job : /\ DOMAIN rows[j].attempts
                             \subseteq DOMAIN rows'[j].attempts
                       /\ L!RowInv(Outline(rows'[j]))
                       /\ rows'[j].state # "ABSENT"
    BY <1>1, <1>3, <1>4, AheadGrows DEF RowsInv
  <1>10. RowsInv'
    <2>1. ASSUME NEW j \in Job, jlock[j] = t
          PROVE  Ahead(rows'[j], pend'[j])
      <3>1. pend'[j] = rows'[j]
        BY <1>3, <2>1
      <3> QED
        BY <3>1, AheadSelf
    <2>2. ASSUME NEW j \in Job, jlock[j] # t
          PROVE  /\ Ahead(rows'[j], pend'[j])
                 /\ jlock'[j] = None => pend'[j] = rows'[j]
      BY <1>1, <1>2, <1>3, <2>2 DEF RowsInv
    <2> QED
      BY <1>3, <1>9, <2>1, <2>2 DEF RowsInv
  <1>11. TxInv(t)'
    <2>1. \A j \in Job : jlock'[j] # t
      BY <1>2, TransactionsAssumption
    <2> QED
      BY <1>7, <2>1 DEF TxInv, Owns, Found, Idle, Places, Unlocked, AttemptOp
  <1>12. ASSUME NEW u \in Tx \ {t} PROVE TxInv(u)'
    <2>1. \A j \in Job : jlock'[j] = u <=> jlock[j] = u
      BY <1>2, TransactionsAssumption
    <2> QED
      BY <1>1, <1>3, <1>7, <1>9, <2>1, OthersKeep DEF Only
  <1> QED
    BY <1>8, <1>10, <1>11, <1>12 DEF LockInv

-----------------------------------------------------------------------------
(* The clock.                                                              *)

AgeRow(r) == [r EXCEPT !.attempts = [n \in DOMAIN @ |-> Aged(@[n])]]

LEMMA AgeParts ==
  ASSUME NEW r \in Row
  PROVE  /\ AgeRow(r) \in Row
         /\ AgeRow(r).state = r.state
         /\ DOMAIN AgeRow(r).attempts = DOMAIN r.attempts
         /\ \A n \in DOMAIN r.attempts :
              AgeRow(r).attempts[n] = Aged(r.attempts[n])
         /\ \A n \in DOMAIN r.attempts :
              /\ AgeRow(r).attempts[n].state = r.attempts[n].state
              /\ AgeRow(r).attempts[n].worker = r.attempts[n].worker
              /\ r.attempts[n].lease = 0 => AgeRow(r).attempts[n].lease = 0
         /\ Outline(AgeRow(r)) = Outline(r)
  <1> DEFINE b == [n \in DOMAIN r.attempts |-> Aged(r.attempts[n])]
  <1>1. \A n \in DOMAIN r.attempts :
          /\ Aged(r.attempts[n]) \in Attempt
          /\ Aged(r.attempts[n]).state = r.attempts[n].state
          /\ Aged(r.attempts[n]).worker = r.attempts[n].worker
          /\ r.attempts[n].lease = 0 => Aged(r.attempts[n]).lease = 0
    <2> SUFFICES ASSUME NEW a \in Attempt
                 PROVE  /\ Aged(a) \in Attempt /\ Aged(a).state = a.state
                        /\ Aged(a).worker = a.worker
                        /\ a.lease = 0 => Aged(a).lease = 0
      BY RowParts
    <2> DEFINE l == IF a.lease > 0 THEN a.lease - 1 ELSE 0
               d == IF a.deadline > 0 THEN a.deadline - 1 ELSE 0
    <2>1. l \in Nat /\ d \in Nat /\ (a.lease = 0 => l = 0)
      BY DEF Attempt
    <2>2. Aged(a) = [a EXCEPT !.lease = l, !.deadline = d]
      BY DEF Aged
    <2> HIDE DEF l, d
    <2> QED
      BY <2>1, <2>2 DEF Attempt
  <1>2. b \in [1 .. Len(r.attempts) -> Attempt]
    BY <1>1, RowParts
  <1>3. b \in Seq(Attempt)
    BY <1>2, RowParts
  <1>4. AgeRow(r) = [r EXCEPT !.attempts = b]
    BY DEF AgeRow
  <1>5. /\ DOMAIN b = DOMAIN r.attempts
        /\ \A n \in DOMAIN r.attempts : b[n] = Aged(r.attempts[n])
    OBVIOUS
  <1> HIDE DEF b
  <1>6. /\ AgeRow(r) \in Row /\ AgeRow(r).state = r.state
        /\ AgeRow(r).attempts = b /\ AgeRow(r).max_attempts = r.max_attempts
    BY <1>3, <1>4 DEF Row
  <1>7. Outline(AgeRow(r)) = Outline(r)
    <2>1. [n \in DOMAIN b |-> b[n].state]
            = [n \in DOMAIN r.attempts |-> r.attempts[n].state]
      BY <1>1, <1>5
    <2> QED
      BY <1>6, <2>1 DEF Outline
  <1> QED
    BY <1>1, <1>5, <1>6, <1>7

LEMMA TickKeeps == ASSUME LockInv, Tick PROVE LockInv'
  <1>1. TypeOK /\ RowsInv /\ \A u \in Tx : TxInv(u)
    BY DEF LockInv
  <1>2. /\ rows' = [j \in Job |-> AgeRow(rows[j])]
        /\ pend' = [j \in Job |-> AgeRow(pend[j])]
        /\ UNCHANGED <<jlock, wlock, tx>>
    BY DEF Tick, AgeRow
  <1>3. \A j \in Job : rows[j] \in Row /\ pend[j] \in Row
    BY <1>1 DEF TypeOK
  <1>4. \A j \in Job : rows'[j] = AgeRow(rows[j]) /\ pend'[j] = AgeRow(pend[j])
    BY <1>2
  <1>5. TypeOK'
    BY <1>1, <1>2, <1>3, AgeParts DEF TypeOK
  <1>6. RowsInv'
    <2> SUFFICES ASSUME NEW j \in Job
                 PROVE  /\ L!RowInv(Outline(rows'[j]))
                        /\ rows'[j].state # "ABSENT"
                        /\ Ahead(rows'[j], pend'[j])
                        /\ jlock'[j] = None => pend'[j] = rows'[j]
      BY DEF RowsInv
    <2>1. /\ L!RowInv(Outline(rows[j])) /\ Ahead(rows[j], pend[j])
          /\ jlock[j] = None => pend[j] = rows[j]
          /\ rows[j].state # "ABSENT"
      BY <1>1 DEF RowsInv
    <2>2. /\ Outline(rows'[j]) = Outline(rows[j])
          /\ rows'[j].state = rows[j].state
          /\ Outline(pend'[j]) = Outline(pend[j])
      BY <1>3, <1>4, AgeParts
    <2>3. DOMAIN rows[j].attempts \subseteq DOMAIN pend[j].attempts
      BY <1>3, <2>1, AheadGrows
    <2>4. ASSUME NEW n \in DOMAIN rows'[j].attempts,
                 rows'[j].attempts[n].state \in Active,
                 pend'[j].attempts[n].state = "EXPIRED"
          PROVE  rows'[j].attempts[n].lease = 0
      <3>1. n \in DOMAIN rows[j].attempts /\ n \in DOMAIN pend[j].attempts
        BY <1>3, <1>4, <2>3, <2>4, AgeParts
      <3>2. /\ rows[j].attempts[n].state \in Active
            /\ pend[j].attempts[n].state = "EXPIRED"
        BY <1>3, <1>4, <2>4, <3>1, AgeParts
      <3>3. rows[j].attempts[n].lease = 0
        BY <2>1, <3>1, <3>2 DEF Ahead
      <3> QED
        BY <1>3, <1>4, <3>1, <3>3, AgeParts
    <2> QED
      BY <1>2, <1>4, <2>1, <2>2, <2>4 DEF Ahead
  <1>7. ASSUME NEW u \in Tx PROVE TxInv(u)'
    <2>1. tx'[u] = tx[u] /\ Places(tx[u]) /\ Owns(u) /\ Found(u)
      BY <1>1, <1>2 DEF TxInv
    <2>2. /\ Unlocked(u)' <=> Unlocked(u)
          /\ \A j : Fresh(u, j) => Fresh(u, j)'
      BY <1>2, <1>4 DEF Unlocked, Fresh
    <2>3. Owns(u)'
      BY <1>2, <2>1, <2>2 DEF Owns
    <2>4. Named(u) =>
            /\ Named(u)'
            /\ rows'[tx[u].j].attempts[tx[u].n].state
                 = rows[tx[u].j].attempts[tx[u].n].state
            /\ Expired(rows[tx[u].j].attempts[tx[u].n]) =>
                 Expired(rows'[tx[u].j].attempts[tx[u].n])
      <3> SUFFICES ASSUME Named(u) PROVE
            /\ Named(u)'
            /\ rows'[tx[u].j].attempts[tx[u].n].state
                 = rows[tx[u].j].attempts[tx[u].n].state
            /\ Expired(rows[tx[u].j].attempts[tx[u].n]) =>
                 Expired(rows'[tx[u].j].attempts[tx[u].n])
        OBVIOUS
      <3>1. /\ tx[u].j \in Job /\ rows[tx[u].j] \in Row
            /\ tx[u].n \in DOMAIN rows[tx[u].j].attempts
            /\ rows'[tx[u].j] = AgeRow(rows[tx[u].j])
        BY <1>3, <1>4 DEF Named
      <3>2. \A r \in Row : \A n \in DOMAIN r.attempts :
              /\ n \in DOMAIN AgeRow(r).attempts
              /\ AgeRow(r).attempts[n].state = r.attempts[n].state
              /\ r.attempts[n].lease = 0 => AgeRow(r).attempts[n].lease = 0
        BY AgeParts
      <3> QED
        BY <2>1, <3>1, <3>2 DEF Named, Expired
    <2>5. tx[u].pc = "insert" => rows'[tx[u].j].state = rows[tx[u].j].state
      <3>1. tx[u].pc = "insert" => tx[u].j \in Job
        BY <2>1 DEF Owns, Fresh
      <3> QED
        BY <1>3, <1>4, <3>1, AgeParts
    <2>6. Found(u)'
      BY <2>1, <2>4, <2>5 DEF Found
    <2> QED
      BY <2>1, <2>3, <2>6 DEF TxInv
  <1> QED
    BY <1>5, <1>6, <1>7 DEF LockInv

-----------------------------------------------------------------------------
(* Steps that write no row.                                                *)

LEMMA PutParts ==
  ASSUME TypeOK, NEW t \in Tx, NEW y \in Local, tx' = [tx EXCEPT ![t] = y]
  PROVE  Only(t) /\ tx'[t] = y
  BY DEF TypeOK, Only

LEMMA IdleTyped == Idle \in Local
  BY DEF Idle, Local

LEMMA BeginKeeps ==
  ASSUME LockInv, NEW t \in Tx, Start(t) PROVE LockInv'
  <1>1. TypeOK /\ TxInv(t)
    BY DEF LockInv
  <1>2. ASSUME NEW y \in Local, Begin(t, y), Places(y),
               y.pc \in {"worker", "scan", "job"},
               y.op \in AttemptOp \cup {"LeaseJob"} => y.w \in Worker,
               y.pc = "job" => y.j \in Job,
               y.op \in AttemptOp => /\ y.j \in Job
                                     /\ y.n \in DOMAIN rows[y.j].attempts
        PROVE  LockInv'
    <2>1. /\ Only(t) /\ tx'[t] = y /\ tx[t] = Idle
          /\ UNCHANGED <<rows, pend, jlock, wlock>>
      BY <1>1, <1>2, PutParts DEF Begin
    <2>2. \A j \in Job : jlock[j] # t
      BY <1>1, <2>1 DEF TxInv, Owns, Unlocked, Idle
    <2>3. TxInv(t)'
      BY <1>2, <2>1, <2>2 DEF TxInv, Owns, Found, Named
    <2> QED
      BY <1>1, <2>1, <2>3, QuietKeeps DEF TypeOK
  <1>3. ASSUME NEW w \in Worker, BeginLease(t, w) PROVE LockInv'
    <2> DEFINE y == [Idle EXCEPT !.op = "LeaseJob", !.pc = "worker", !.w = w]
    <2>1. Begin(t, y)
      BY <1>3 DEF BeginLease
    <2>2. y \in Local /\ y.op = "LeaseJob" /\ y.pc = "worker" /\ y.w = w
      BY IdleTyped DEF Local
    <2> HIDE DEF y
    <2> QED
      BY <1>2, <2>1, <2>2 DEF Places, AttemptOp
  <1>4. ASSUME NEW j \in Job, NEW op \in AttemptOp,
               NEW n \in DOMAIN rows[j].attempts, BeginAttempt(t, op, j, n)
        PROVE  LockInv'
    <2> DEFINE w == rows[j].attempts[n].worker
               y == [Idle EXCEPT !.op = op, !.pc = "worker", !.w = w,
                                 !.j = j, !.n = n]
    <2>1. Begin(t, y)
      BY <1>4 DEF BeginAttempt
    <2>2. w \in Worker /\ n \in Nat
      <3>1. rows[j] \in Row
        BY <1>1 DEF TypeOK
      <3>2. rows[j].attempts[n] \in Attempt /\ n \in Nat
        BY <3>1, RowParts
      <3> QED
        BY <3>2 DEF Attempt
    <2> HIDE DEF w
    <2>3. /\ y \in Local /\ y.op = op /\ y.pc = "worker" /\ y.w = w
          /\ y.j = j /\ y.n = n
      BY <2>2, IdleTyped DEF Local
    <2> HIDE DEF y
    <2> QED
      BY <1>2, <2>1, <2>2, <2>3 DEF Places
  <1>5. ASSUME NEW j \in Job, NEW op \in ActionOp, BeginAction(t, op, j)
        PROVE  LockInv'
    <2> DEFINE y == [Idle EXCEPT !.op = op, !.pc = "job", !.j = j]
    <2>1. Begin(t, y)
      BY <1>5 DEF BeginAction
    <2>2. y \in Local /\ y.op = op /\ y.pc = "job" /\ y.j = j
      BY IdleTyped DEF Local
    <2> HIDE DEF y
    <2> QED
      BY <1>2, <2>1, <2>2 DEF Places, AttemptOp, ActionOp
  <1>6. ASSUME BeginReap(t) PROVE LockInv'
    <2> DEFINE y == [Idle EXCEPT !.op = "Reap", !.pc = "scan"]
    <2>1. Begin(t, y)
      BY <1>6 DEF BeginReap
    <2>2. y \in Local /\ y.op = "Reap" /\ y.pc = "scan"
      BY IdleTyped DEF Local
    <2> HIDE DEF y
    <2> QED
      BY <1>2, <2>1, <2>2 DEF Places, AttemptOp
  <1> QED
    BY <1>3, <1>4, <1>5, <1>6 DEF Start

LEMMA LockKeeps ==
  ASSUME LockInv, NEW t \in Tx, LockWorker(t) \/ LockJob(t) PROVE LockInv'
  <1>1. TypeOK /\ RowsInv /\ Places(tx[t]) /\ Owns(t) /\ Found(t)
    BY DEF LockInv, TxInv
  <1>2. CASE LockWorker(t)
    <2>1. /\ tx[t].pc = "worker" /\ tx[t].w \in Worker
          /\ wlock' = [wlock EXCEPT ![tx[t].w] = t]
          /\ UNCHANGED <<rows, pend, jlock>>
          /\ \A j \in Job : jlock[j] # t
      BY <1>1, <1>2 DEF LockWorker, Places, Owns, Unlocked
    <2>2. /\ Only(t) /\ tx'[t].op = tx[t].op /\ tx'[t].w = tx[t].w
          /\ tx'[t].j = tx[t].j /\ tx'[t].n = tx[t].n
          /\ tx'[t].pc = IF tx[t].op = "LeaseJob" THEN "used" ELSE "job"
      BY <1>1, <1>2, GotoParts DEF LockWorker
    <2>3. tx[t].op \in AttemptOp => Named(t)
      BY <1>1, <2>1 DEF Found
    <2>4. Places(tx'[t])
      BY <1>1, <2>1, <2>2 DEF Places, AttemptOp
    <2>5. Owns(t)' /\ Found(t)'
      BY <1>1, <2>1, <2>2, <2>3 DEF Owns, Found, Named, Places, AttemptOp
    <2>6. /\ wlock' \in [Worker -> Tx \cup {None}]
          /\ jlock' \in [Job -> Tx \cup {None}]
      BY <1>1, <2>1 DEF TypeOK
    <2> QED
      BY <2>1, <2>2, <2>4, <2>5, <2>6, QuietKeeps DEF TxInv
  <1>3. CASE LockJob(t)
    <2> DEFINE j == tx[t].j
    <2>1. /\ tx[t].pc = "job" /\ j \in Job /\ jlock[j] = None
          /\ jlock' = [jlock EXCEPT ![j] = t]
          /\ UNCHANGED <<rows, pend, wlock>>
          /\ \A i \in Job : jlock[i] # t
      BY <1>1, <1>3 DEF LockJob, Owns, Unlocked
    <2>2. /\ Only(t) /\ tx'[t].op = tx[t].op /\ tx'[t].w = tx[t].w
          /\ tx'[t].j = tx[t].j /\ tx'[t].n = tx[t].n
          /\ tx'[t].pc = IF tx[t].op \in ActionOp THEN "write" ELSE "check"
      BY <1>1, <1>3, GotoParts DEF LockJob
    <2>3. Places(tx'[t])
      BY <1>1, <2>1, <2>2 DEF Places
    <2>4. /\ jlock' \in [Job -> Tx \cup {None}] /\ jlock'[j] = t
          /\ wlock' \in [Worker -> Tx \cup {None}]
          /\ \A i \in Job \ {j} : jlock'[i] = jlock[i]
      BY <1>1, <2>1 DEF TypeOK
    <2>5. Fresh(t, j)'
      BY <1>1, <2>1, <2>2, <2>4 DEF RowsInv, Fresh
    <2>6. Owns(t)'
      BY <1>1, <2>2, <2>5 DEF Owns, Unlocked
    <2>7. Found(t)'
      BY <1>1, <2>1, <2>2 DEF Found, Named, ActionOp, AttemptOp
    <2> QED
      BY <2>1, <2>2, <2>3, <2>4, <2>6, <2>7, QuietKeeps DEF TxInv
  <1> QED
    BY <1>2, <1>3

(* A transaction that goes on without a row lock.                          *)
LEMMA UnlockedKeeps ==
  ASSUME LockInv, NEW t \in Tx, NEW y \in Local, tx' = [tx EXCEPT ![t] = y],
         UNCHANGED <<rows, pend, jlock, wlock>>,
         \A j \in Job : jlock[j] # t,
         y.op = tx[t].op, y.w = tx[t].w,
         \/ y.pc \in {"scan", "probe"} /\ y.op \in {"LeaseJob", "Reap"}
         \/ y.pc \in {"commit"}
  PROVE  LockInv'
  <1>1. TypeOK /\ Places(tx[t]) /\ Owns(t) /\ Found(t)
    BY DEF LockInv, TxInv
  <1>2. Only(t) /\ tx'[t] = y
    BY <1>1, PutParts
  <1>3. TxInv(t)'
    BY <1>1, <1>2 DEF TxInv, Places, Owns, Found, AttemptOp
  <1> QED
    BY <1>1, <1>2, <1>3, QuietKeeps DEF TypeOK

LEMMA LeaseReadsKeep ==
  ASSUME Arithmetic, LockInv, NEW t \in Tx,
         ReadUsed(t) \/ ScanQueued(t) \/ AnswerIdle(t) PROVE LockInv'
  <1>1. TypeOK /\ Places(tx[t]) /\ Owns(t) /\ tx[t] \in Local
    BY DEF LockInv, TxInv, TypeOK
  <1>2. /\ \A j \in Job : jlock[j] # t
        /\ tx[t].op = "LeaseJob" /\ tx[t].w \in Worker
        /\ UNCHANGED <<rows, pend, jlock, wlock>>
    BY <1>1 DEF ReadUsed, ScanQueued, AnswerIdle, Places, Owns, Unlocked
  <1>3. CASE ReadUsed(t)
    <2> DEFINE f == Capacity[tx[t].w] - Reserved(tx[t].w)
               y == [tx[t] EXCEPT !.free = f, !.pc = "scan"]
    <2>1. f \in Int
      BY <1>2, TransactionsAssumption DEF Arithmetic
    <2>2. tx' = [tx EXCEPT ![t] = y]
      BY <1>1, <1>3 DEF ReadUsed, TypeOK
    <2> HIDE DEF f
    <2>3. y \in Local /\ y.pc = "scan" /\ y.op = tx[t].op /\ y.w = tx[t].w
      BY <1>1, <2>1 DEF Local
    <2> HIDE DEF y
    <2> QED
      BY <1>2, <2>2, <2>3, UnlockedKeeps
  <1>4. CASE ScanQueued(t)
    <2> DEFINE S == {j \in Job : /\ rows[j].state = "QUEUED"
                                 /\ Need[j] <= tx[t].free}
               y == [tx[t] EXCEPT !.pc = "probe", !.ids = S]
    <2>1. tx' = [tx EXCEPT ![t] = y]
      BY <1>1, <1>4 DEF ScanQueued, TypeOK
    <2>2. S \subseteq Job
      OBVIOUS
    <2> HIDE DEF S
    <2>3. y \in Local /\ y.pc = "probe" /\ y.op = tx[t].op /\ y.w = tx[t].w
      BY <1>1, <2>2 DEF Local
    <2> HIDE DEF y
    <2> QED
      BY <1>2, <2>1, <2>3, UnlockedKeeps
  <1>5. CASE AnswerIdle(t)
    <2> DEFINE y == [tx[t] EXCEPT !.pc = "commit"]
    <2>1. tx' = [tx EXCEPT ![t] = y]
      BY <1>1, <1>5 DEF AnswerIdle, Goto, TypeOK
    <2>2. y \in Local /\ y.pc = "commit" /\ y.op = tx[t].op /\ y.w = tx[t].w
      BY <1>1 DEF Local
    <2> HIDE DEF y
    <2> QED
      BY <1>2, <2>1, <2>2, UnlockedKeeps
  <1> QED
    BY <1>3, <1>4, <1>5

(* A probe looks at one row and locks it, or passes on.                    *)
LEMMA ProbesOne ==
  ASSUME Arithmetic, LockInv, NEW t \in Tx, ProbeQueued(t)
  PROVE  \E j \in Job : /\ j \in tx[t].ids
           /\ \/ /\ jlock[j] = None /\ rows[j].state = "QUEUED"
                 /\ jlock' = [jlock EXCEPT ![j] = t]
                 /\ tx' = [tx EXCEPT ![t].pc = "insert", ![t].j = j,
                                     ![t].ids = {}]
              \/ tx' = [tx EXCEPT ![t].ids = @ \ {j}] /\ UNCHANGED jlock
  <1> DEFINE ids == tx[t].ids
             j == CHOOSE i \in ids : \A k \in ids : i <= k
  <1>1. ids \subseteq Job /\ ids \subseteq Nat /\ ids # {}
    <2>1. tx[t] \in Local
      BY DEF LockInv, TypeOK
    <2> QED
      BY <2>1, LocalParts, TransactionsAssumption DEF ProbeQueued
  <1>2. \E i \in ids : \A k \in ids : i <= k
    BY <1>1 DEF Arithmetic
  <1>3. j \in ids /\ j \in Job
    BY <1>1, <1>2
  <1>4. \/ /\ jlock[j] = None /\ rows[j].state = "QUEUED"
           /\ jlock' = [jlock EXCEPT ![j] = t]
           /\ tx' = [tx EXCEPT ![t].pc = "insert", ![t].j = j, ![t].ids = {}]
        \/ tx' = [tx EXCEPT ![t].ids = @ \ {j}] /\ UNCHANGED jlock
    BY DEF ProbeQueued
  <1> HIDE DEF j
  <1> QED
    BY <1>3, <1>4

LEMMA ProbeQueuedKeeps ==
  ASSUME Arithmetic, LockInv, NEW t \in Tx, ProbeQueued(t) PROVE LockInv'
  <1>1. /\ TypeOK /\ RowsInv /\ Places(tx[t]) /\ Owns(t)
        /\ tx[t] \in Local /\ tx \in [Tx -> Local]
    BY DEF LockInv, TxInv, TypeOK
  <1>2. /\ \A i \in Job : jlock[i] # t
        /\ tx[t].op = "LeaseJob" /\ tx[t].w \in Worker
        /\ UNCHANGED <<rows, pend, wlock>>
    BY <1>1 DEF ProbeQueued, Owns, Unlocked
  <1>3. PICK j \in Job : /\ j \in tx[t].ids
           /\ \/ /\ jlock[j] = None /\ rows[j].state = "QUEUED"
                 /\ jlock' = [jlock EXCEPT ![j] = t]
                 /\ tx' = [tx EXCEPT ![t].pc = "insert", ![t].j = j,
                                     ![t].ids = {}]
              \/ tx' = [tx EXCEPT ![t].ids = @ \ {j}] /\ UNCHANGED jlock
    BY ProbesOne
  <1>4. tx[t].pc = "probe"
    BY DEF ProbeQueued
  <1>5. CASE tx' = [tx EXCEPT ![t].ids = @ \ {j}] /\ UNCHANGED jlock
    <2> DEFINE y == [tx[t] EXCEPT !.ids = @ \ {j}]
    <2>1. tx' = [tx EXCEPT ![t] = y]
      BY <1>1, <1>5
    <2>2. y \in Local /\ y.pc = "probe" /\ y.op = tx[t].op /\ y.w = tx[t].w
      BY <1>1, <1>4 DEF Local
    <2> HIDE DEF y
    <2> QED
      BY <1>2, <1>5, <2>1, <2>2, UnlockedKeeps
  <1>6. CASE /\ jlock[j] = None /\ rows[j].state = "QUEUED"
             /\ jlock' = [jlock EXCEPT ![j] = t]
             /\ tx' = [tx EXCEPT ![t].pc = "insert", ![t].j = j, ![t].ids = {}]
    <2> DEFINE y == [tx[t] EXCEPT !.pc = "insert", !.j = j, !.ids = {}]
    <2>1. tx' = [tx EXCEPT ![t] = y]
      BY <1>1, <1>6
    <2>2. /\ y \in Local /\ y.pc = "insert" /\ y.op = tx[t].op
          /\ y.w = tx[t].w /\ y.j = j
      BY <1>1, <1>3 DEF Local
    <2> HIDE DEF y
    <2>3. Only(t) /\ tx'[t] = y
      BY <1>1, <2>1, <2>2, PutParts
    <2>4. /\ jlock' \in [Job -> Tx \cup {None}] /\ jlock'[j] = t
          /\ wlock' \in [Worker -> Tx \cup {None}]
          /\ \A i \in Job \ {j} : jlock'[i] = jlock[i]
      BY <1>1, <1>2, <1>3, <1>6 DEF TypeOK
    <2>5. Fresh(t, j)'
      BY <1>1, <1>2, <1>3, <1>6, <2>4 DEF RowsInv, Fresh
    <2>6. TxInv(t)'
      BY <1>2, <1>6, <2>2, <2>3, <2>5
      DEF TxInv, Places, Owns, Found, Unlocked, AttemptOp
    <2> QED
      BY <1>2, <1>6, <2>3, <2>4, <2>6, QuietKeeps
  <1> QED
    BY <1>3, <1>5, <1>6

LEMMA CheckKeeps ==
  ASSUME LockInv, NEW t \in Tx, Check(t) PROVE LockInv'
  <1>1. TypeOK /\ RowsInv /\ Places(tx[t]) /\ Owns(t) /\ Found(t)
    BY DEF LockInv, TxInv
  <1>2. /\ tx[t].pc = "check" /\ tx[t].op \in AttemptOp /\ Fresh(t, tx[t].j)
        /\ Named(t) /\ Fenced(t) /\ UNCHANGED <<rows, pend, jlock, wlock>>
    BY <1>1 DEF Check, Places, Owns, Found
  <1>3. /\ Only(t) /\ tx'[t].op = tx[t].op /\ tx'[t].w = tx[t].w
        /\ tx'[t].j = tx[t].j /\ tx'[t].n = tx[t].n /\ tx'[t].pc = "write"
    BY <1>1, GotoParts DEF Check
  <1>4. Fresh(t, tx[t].j)' /\ Named(t)'
    BY <1>2, <1>3 DEF Fresh, Named
  <1>5. Places(tx'[t]) /\ Owns(t)'
    BY <1>1, <1>2, <1>3, <1>4 DEF Places, Owns, Unlocked, AttemptOp
  <1>6. Found(t)'
    BY <1>2, <1>3, <1>4 DEF Found, Fenced, Fresh
  <1> QED
    BY <1>1, <1>2, <1>3, <1>5, <1>6, QuietKeeps DEF TxInv, TypeOK

LEMMA ReapReadsKeep ==
  ASSUME LockInv, NEW t \in Tx,
         \/ ScanExpired(t) \/ ProbeExpired(t) \/ Collected(t)
         \/ Recheck(t) \/ Reaped(t)
  PROVE  LockInv'
  <1>1. /\ TypeOK /\ RowsInv /\ Places(tx[t]) /\ Owns(t)
        /\ tx[t] \in Local /\ tx \in [Tx -> Local]
        /\ jlock \in [Job -> Tx \cup {None}]
        /\ wlock \in [Worker -> Tx \cup {None}]
    BY DEF LockInv, TxInv, TypeOK
  <1>2. tx[t].op = "Reap" /\ UNCHANGED <<rows, pend, wlock>>
    BY <1>1
    DEF ScanExpired, ProbeExpired, Collected, Recheck, Reaped, Places
  <1>3. tx[t].ids \subseteq Job
    BY <1>1, LocalParts
  <1>4. CASE ScanExpired(t)
    <2> DEFINE S == {j \in Job : /\ rows[j].state \in Active
                                 /\ \E n \in DOMAIN rows[j].attempts :
                                      Expired(rows[j].attempts[n])}
               y == [tx[t] EXCEPT !.pc = "probe", !.ids = S]
    <2>1. tx' = [tx EXCEPT ![t] = y] /\ UNCHANGED jlock
      BY <1>1, <1>4 DEF ScanExpired
    <2>2. S \subseteq Job
      OBVIOUS
    <2> HIDE DEF S
    <2>3. y \in Local /\ y.pc = "probe" /\ y.op = tx[t].op /\ y.w = tx[t].w
      BY <1>1, <2>2 DEF Local
    <2>4. \A j \in Job : jlock[j] # t
      BY <1>1, <1>4 DEF ScanExpired, Owns, Unlocked
    <2> HIDE DEF y
    <2> QED
      BY <1>2, <2>1, <2>3, <2>4, UnlockedKeeps
  <1>5. CASE ProbeExpired(t)
    <2>1. PICK j \in tx[t].ids :
            /\ tx' = [tx EXCEPT ![t].ids = @ \ {j}]
            /\ jlock' = IF jlock[j] = None /\ rows[j].state \in Active
                        THEN [jlock EXCEPT ![j] = t] ELSE jlock
      BY <1>5 DEF ProbeExpired
    <2> DEFINE y == [tx[t] EXCEPT !.ids = @ \ {j}]
    <2>2. tx' = [tx EXCEPT ![t] = y]
      BY <1>1, <2>1
    <2>3. y \in Local /\ y.pc = "probe" /\ y.op = "Reap"
      BY <1>1, <1>2, <1>5 DEF Local, ProbeExpired
    <2> HIDE DEF y
    <2>4. Only(t) /\ tx'[t] = y
      BY <1>1, <2>2, <2>3, PutParts
    <2>5. /\ jlock' \in [Job -> Tx \cup {None}]
          /\ \A i \in Job : jlock'[i] = jlock[i]
                            \/ (jlock[i] = None /\ jlock'[i] = t)
      BY <1>1, <1>3, <2>1
    <2>6. ASSUME NEW i \in Job, jlock'[i] = t PROVE Fresh(t, i)'
      BY <1>1, <1>2, <1>5, <2>5, <2>6 DEF ProbeExpired, Owns, Fresh, RowsInv
    <2>7. TxInv(t)'
      BY <2>3, <2>4, <2>6
      DEF TxInv, Places, Owns, Found, Unlocked, AttemptOp
    <2> QED
      BY <1>1, <1>2, <2>4, <2>5, <2>7, QuietKeeps
  <1>6. CASE Collected(t)
    <2> DEFINE S == Locked(t)
               y == [tx[t] EXCEPT !.pc = "recheck", !.ids = S]
    <2>1. tx' = [tx EXCEPT ![t] = y] /\ UNCHANGED jlock
      BY <1>1, <1>6 DEF Collected
    <2>2. S \subseteq Job /\ \A i \in S : jlock[i] = t
      BY DEF Locked
    <2>3. \A i \in S : pend[i] = rows[i]
      BY <1>1, <1>6, <2>2 DEF Collected, Owns, Fresh
    <2> HIDE DEF S
    <2>4. y \in Local /\ y.pc = "recheck" /\ y.op = "Reap" /\ y.ids = S
      BY <1>1, <1>2, <2>2 DEF Local
    <2> HIDE DEF y
    <2>5. Only(t) /\ tx'[t] = y
      BY <1>1, <2>1, <2>4, PutParts
    <2>6. \A i \in tx'[t].ids : Fresh(t, i)'
      BY <1>2, <2>1, <2>2, <2>3, <2>4, <2>5 DEF Fresh
    <2>7. TxInv(t)'
      BY <2>4, <2>5, <2>6
      DEF TxInv, Places, Owns, Found, Unlocked, AttemptOp
    <2> QED
      BY <1>1, <1>2, <2>1, <2>5, <2>7, QuietKeeps
  <1>7. CASE Recheck(t)
    <2>1. PICK j \in tx[t].ids :
            \/ \E n \in DOMAIN pend[j].attempts :
                 /\ Expired(pend[j].attempts[n])
                 /\ tx' = [tx EXCEPT ![t].ids = @ \ {j}, ![t].pc = "expire",
                                     ![t].j = j, ![t].n = n]
            \/ tx' = [tx EXCEPT ![t].ids = @ \ {j}]
      BY <1>7 DEF Recheck
    <2>2. tx[t].pc = "recheck" /\ UNCHANGED jlock
      BY <1>7 DEF Recheck
    <2>3. \A i \in tx[t].ids : Fresh(t, i) /\ Fresh(t, i)'
      BY <1>1, <1>2, <2>2 DEF Owns, Fresh
    <2>4. CASE tx' = [tx EXCEPT ![t].ids = @ \ {j}]
      <3> DEFINE y == [tx[t] EXCEPT !.ids = @ \ {j}]
      <3>1. tx' = [tx EXCEPT ![t] = y]
        BY <1>1, <2>4
      <3>2. /\ y \in Local /\ y.pc = "recheck" /\ y.op = "Reap"
            /\ y.ids = tx[t].ids \ {j}
        BY <1>1, <1>2, <2>2 DEF Local
      <3> HIDE DEF y
      <3>3. Only(t) /\ tx'[t] = y
        BY <1>1, <3>1, <3>2, PutParts
      <3>4. TxInv(t)'
        BY <2>3, <3>2, <3>3
        DEF TxInv, Places, Owns, Found, Unlocked, AttemptOp
      <3> QED
        BY <1>1, <1>2, <2>2, <3>3, <3>4, QuietKeeps
    <2>5. ASSUME NEW n \in DOMAIN pend[j].attempts,
                 Expired(pend[j].attempts[n]),
                 tx' = [tx EXCEPT ![t].ids = @ \ {j}, ![t].pc = "expire",
                                  ![t].j = j, ![t].n = n]
          PROVE  LockInv'
      <3> DEFINE y == [tx[t] EXCEPT !.ids = @ \ {j}, !.pc = "expire",
                                    !.j = j, !.n = n]
      <3>1. tx' = [tx EXCEPT ![t] = y]
        BY <1>1, <2>5
      <3>2. j \in Job /\ n \in Nat /\ pend[j] = rows[j]
        <4>1. j \in Job /\ pend[j] = rows[j] /\ pend[j] \in Row
          BY <1>1, <2>3 DEF Fresh, TypeOK
        <4> QED
          BY <4>1, <2>5, RowParts
      <3>3. /\ y \in Local /\ y.pc = "expire" /\ y.op = "Reap"
            /\ y.ids = tx[t].ids \ {j} /\ y.j = j /\ y.n = n
        BY <1>1, <1>2, <3>2 DEF Local
      <3> HIDE DEF y
      <3>4. Only(t) /\ tx'[t] = y
        BY <1>1, <3>1, <3>3, PutParts
      <3>5. Owns(t)'
        BY <2>3, <3>2, <3>3, <3>4 DEF Owns, Unlocked, AttemptOp
      <3>6. Found(t)'
        BY <1>2, <2>5, <3>2, <3>3, <3>4 DEF Found, Named, AttemptOp
      <3>7. TxInv(t)'
        BY <3>3, <3>4, <3>5, <3>6 DEF TxInv, Places
      <3> QED
        BY <1>1, <1>2, <2>2, <3>4, <3>7, QuietKeeps
    <2> QED
      BY <2>1, <2>4, <2>5
  <1>8. CASE Reaped(t)
    <2>1. Only(t) /\ tx'[t].pc = "commit" /\ tx'[t].op = "Reap"
      BY <1>1, <1>2, <1>8, GotoParts DEF Reaped
    <2>2. TxInv(t)' /\ UNCHANGED jlock
      BY <1>8, <2>1
      DEF Reaped, TxInv, Places, Owns, Found, Unlocked, AttemptOp
    <2> QED
      BY <1>1, <1>2, <2>1, <2>2, QuietKeeps
  <1> QED
    BY <1>4, <1>5, <1>6, <1>7, <1>8

-----------------------------------------------------------------------------
(* Steps that write a row.                                                 *)

(* A transaction that comes to its commit needs to know nothing more.      *)
LEMMA ToCommit ==
  ASSUME LockInv, NEW t \in Tx, Goto(t, "commit")
  PROVE  Only(t) /\ TxInv(t)'
  <1>1. TypeOK /\ Owns(t)
    BY DEF LockInv, TxInv
  <1>2. /\ Only(t) /\ tx'[t].pc = "commit" /\ tx'[t].op = tx[t].op
        /\ tx'[t].w = tx[t].w
    BY <1>1, GotoParts
  <1> QED
    BY <1>1, <1>2 DEF TxInv, Places, Owns, Found, Unlocked

(* A new attempt is leased.                                                *)
LEMMA LeaseRow ==
  ASSUME NEW r \in Row, L!RowInv(Outline(r)), r.state = "QUEUED",
         NEW b \in Attempt, b.state = "LEASED"
  PROVE  LET s == [r EXCEPT !.state = "LEASED", !.attempts = Append(@, b)]
         IN  s \in Row /\ Ahead(r, s) /\ s.attempts = Append(r.attempts, b)
  <1> DEFINE c == Append(r.attempts, b)
             s == [r EXCEPT !.state = "LEASED", !.attempts = c]
             o == Outline(r)
             p == Outline(s)
  <1>1. /\ c \in Seq(Attempt) /\ Len(c) = Len(r.attempts) + 1
        /\ c[Len(r.attempts) + 1] = b
        /\ \A n \in DOMAIN r.attempts : c[n] = r.attempts[n]
        /\ DOMAIN c = 1 .. Len(r.attempts) + 1
    BY RowParts
  <1> HIDE DEF c
  <1>2. /\ s \in Row /\ s.state = "LEASED" /\ s.attempts = c
        /\ s.max_attempts = r.max_attempts
    BY <1>1, RowParts DEF Row, JobState, Active
  <1> HIDE DEF s
  <1>3. /\ o \in L!Row /\ p \in L!Row /\ Len(o.history) = Len(r.attempts)
        /\ Len(p.history) = Len(r.attempts) + 1 /\ p.state = "LEASED"
        /\ o.budget = r.max_attempts /\ p.budget = r.max_attempts
        /\ o.state = "QUEUED"
    BY <1>1, <1>2, OutlineParts
  <1>4. o.history \in Seq(AttemptState) /\ p.history \in Seq(AttemptState)
    BY <1>3, SameStates DEF L!Row
  <1>5. /\ \A n \in DOMAIN r.attempts : p.history[n] = o.history[n]
        /\ p.history[Len(r.attempts) + 1] = "LEASED"
    <2>1. \A n \in 1 .. Len(r.attempts) + 1 : p.history[n] = c[n].state
      BY <1>1, <1>2, OutlineParts
    <2>2. \A n \in DOMAIN r.attempts : o.history[n] = r.attempts[n].state
      BY OutlineParts
    <2>3. Len(r.attempts) \in Nat /\ DOMAIN r.attempts = 1 .. Len(r.attempts)
      BY RowParts
    <2> HIDE DEF o, p
    <2> QED
      BY <1>1, <2>1, <2>2, <2>3
  <1>6. p.history = Append(o.history, "LEASED")
    <2> DEFINE h == o.history
               k == p.history
               m == Len(r.attempts)
    <2>1. /\ h \in Seq(AttemptState) /\ k \in Seq(AttemptState) /\ m \in Nat
          /\ Len(h) = m /\ Len(k) = m + 1 /\ k[m + 1] = "LEASED"
          /\ \A n \in 1 .. m : k[n] = h[n]
      BY <1>3, <1>4, <1>5, RowParts
    <2> HIDE DEF h, k, m
    <2>2. /\ Append(h, "LEASED") \in Seq(AttemptState)
          /\ Len(Append(h, "LEASED")) = m + 1
          /\ \A n \in 1 .. m + 1 : Append(h, "LEASED")[n] = k[n]
      BY <2>1 DEF AttemptState, Active
    <2>3. k = Append(h, "LEASED")
      BY <2>1, <2>2
    <2> QED
      BY <2>3 DEF h, k
  <1>7. Len(o.history) < o.budget
    BY <1>3, RowInvParts
  <1>8. L!Step(o, p)
    BY <1>3, <1>6, <1>7 DEF L!Step, L!Leased
  <1>9. Ahead(r, s)
    BY <1>1, <1>2, <1>8 DEF Ahead, Active
  <1> QED
    BY <1>2, <1>9 DEF s, c

LEMMA InsertKeeps ==
  ASSUME LockInv, NEW t \in Tx, Insert(t) PROVE LockInv'
  <1> DEFINE j == tx[t].j
             b == [state |-> "LEASED", worker |-> tx[t].w,
                   lease |-> least(LeaseSeconds, Timeout[j]),
                   deadline |-> Timeout[j]]
             s == [rows[j] EXCEPT !.state = "LEASED",
                                  !.attempts = Append(@, b)]
  <1>1. TypeOK /\ RowsInv /\ Places(tx[t]) /\ Owns(t) /\ Found(t)
    BY DEF LockInv, TxInv
  <1>2. /\ Fresh(t, j) /\ j \in Job /\ rows[j].state = "QUEUED"
        /\ tx[t].w \in Worker
    BY <1>1 DEF Insert, Places, Owns, Found, Fresh
  <1>3. rows[j] \in Row /\ L!RowInv(Outline(rows[j])) /\ pend[j] = rows[j]
    BY <1>1, <1>2 DEF TypeOK, RowsInv, Fresh
  <1>4. b \in Attempt /\ b.state = "LEASED"
    <2>1. least(LeaseSeconds, Timeout[j]) \in Nat /\ Timeout[j] \in Nat
      BY <1>2, TransactionsAssumption DEF least
    <2> QED
      BY <1>2, <2>1 DEF Attempt, AttemptState, Active
  <1>5. pend' = [pend EXCEPT ![j] = s]
    BY <1>1, <1>2, <1>3 DEF Insert, TypeOK
  <1>6. UNCHANGED <<rows, jlock, wlock>> /\ Goto(t, "commit")
    BY DEF Insert
  <1> HIDE DEF b
  <1>7. s \in Row /\ Ahead(rows[j], s)
    BY <1>2, <1>3, <1>4, LeaseRow
  <1>8. Only(t) /\ TxInv(t)'
    BY <1>6, ToCommit
  <1> HIDE DEF s
  <1> QED
    BY <1>2, <1>5, <1>6, <1>7, <1>8, WriteKeeps

(* One attempt of a row is given a new state.                              *)
With(r, n, jobState, state) ==
  [r EXCEPT !.state = jobState, !.attempts[n] = In(@, state)]

LEMMA InParts ==
  ASSUME NEW a \in Attempt, NEW st \in AttemptState
  PROVE  In(a, st) \in Attempt /\ In(a, st).state = st
         /\ In(a, st).worker = a.worker
  <1> DEFINE l == IF st \in Active THEN a.lease ELSE 0
             d == IF st \in Active THEN a.deadline ELSE 0
  <1>1. l \in Nat /\ d \in Nat
    BY DEF Attempt
  <1>2. In(a, st) = [a EXCEPT !.state = st, !.lease = l, !.deadline = d]
    BY DEF In
  <1> HIDE DEF l, d
  <1> QED
    BY <1>1, <1>2 DEF Attempt

LEMMA WithParts ==
  ASSUME NEW r \in Row, NEW n \in DOMAIN r.attempts,
         NEW js \in JobState, NEW st \in AttemptState
  PROVE  /\ With(r, n, js, st) \in Row /\ With(r, n, js, st).state = js
         /\ With(r, n, js, st).max_attempts = r.max_attempts
         /\ DOMAIN With(r, n, js, st).attempts = DOMAIN r.attempts
         /\ \A i \in DOMAIN r.attempts :
              /\ With(r, n, js, st).attempts[i].state =
                   IF i = n THEN st ELSE r.attempts[i].state
              /\ With(r, n, js, st).attempts[i].worker = r.attempts[i].worker
  <1> DEFINE b == In(r.attempts[n], st)
             c == [r.attempts EXCEPT ![n] = b]
  <1>1. r.attempts[n] \in Attempt
    BY RowParts
  <1>2. b \in Attempt /\ b.state = st /\ b.worker = r.attempts[n].worker
    BY <1>1, InParts
  <1>3. With(r, n, js, st) = [r EXCEPT !.state = js, !.attempts = c]
    BY DEF With
  <1> HIDE DEF b
  <1>4. /\ c \in Seq(Attempt) /\ DOMAIN c = DOMAIN r.attempts
        /\ c[n] = b /\ \A i \in DOMAIN r.attempts \ {n} : c[i] = r.attempts[i]
    BY <1>2, RowParts
  <1> HIDE DEF c
  <1>5. /\ With(r, n, js, st) \in Row /\ With(r, n, js, st).state = js
        /\ With(r, n, js, st).max_attempts = r.max_attempts
        /\ With(r, n, js, st).attempts = c
    BY <1>3, <1>4, RowParts DEF Row
  <1> QED
    BY <1>2, <1>4, <1>5

(* The life cycle allows it when the attempt is active and the two states  *)
(* go together.                                                            *)
LEMMA WithAhead ==
  ASSUME NEW r \in Row, L!RowInv(Outline(r)), NEW n \in DOMAIN r.attempts,
         r.attempts[n].state \in Active,
         NEW js \in JobState, NEW st \in AttemptState,
         \/ js = "RUNNING" /\ st = "RUNNING"
         \/ /\ js = "SUCCEEDED" /\ st = "SUCCEEDED"
            /\ r.attempts[n].state = "RUNNING"
         \/ /\ js = RetryState(n, r.max_attempts) /\ st = "FAILED"
            /\ r.attempts[n].state = "RUNNING"
         \/ /\ js = RetryState(n, r.max_attempts) /\ st = "EXPIRED"
            /\ r.attempts[n].lease = 0
  PROVE  Ahead(r, With(r, n, js, st))
  <1> DEFINE s == With(r, n, js, st)
             o == Outline(r)
             p == Outline(s)
  <1>1. /\ s \in Row /\ s.state = js /\ s.max_attempts = r.max_attempts
        /\ DOMAIN s.attempts = DOMAIN r.attempts
        /\ \A i \in DOMAIN r.attempts :
             s.attempts[i].state = IF i = n THEN st ELSE r.attempts[i].state
    BY WithParts
  <1> HIDE DEF s
  <1>2. /\ L!Moved(o, p, st) /\ o.state = r.attempts[n].state
        /\ Len(o.history) = n /\ o.budget = r.max_attempts /\ p.state = js
    BY <1>1, MoveRow
  <1>3. \A i \in DOMAIN r.attempts :
          r.attempts[i].state \in Active /\ s.attempts[i].state = "EXPIRED"
            => r.attempts[i].lease = 0
    BY <1>1 DEF Active
  <1> HIDE DEF o, p
  <1>4. L!Step(o, p)
    <2>1. CASE js = "RUNNING" /\ st = "RUNNING"
      BY <1>2, <2>1 DEF L!Step, L!Started
    <2>2. CASE /\ js = "SUCCEEDED" /\ st = "SUCCEEDED"
               /\ r.attempts[n].state = "RUNNING"
      BY <1>2, <2>2 DEF L!Step, L!Succeeded
    <2>3. CASE /\ js = RetryState(n, r.max_attempts)
               /\ \/ st = "FAILED" /\ r.attempts[n].state = "RUNNING"
                  \/ st = "EXPIRED"
      BY <1>2, <2>3 DEF L!Step, L!Lost, RetryState
    <2> QED
      BY <2>1, <2>2, <2>3
  <1> QED
    BY <1>3, <1>4 DEF Ahead, o, p, s

(* A write that gives no job more attempts that hold resources.            *)
Thins == \A j \in Job : \A w : Holds(pend'[j], w) => Holds(pend[j], w)

LEMMA FewerHolds ==
  ASSUME NEW r, NEW s, DOMAIN s.attempts = DOMAIN r.attempts,
         \A n \in DOMAIN r.attempts :
           /\ s.attempts[n].worker = r.attempts[n].worker
           /\ s.attempts[n].state \in Active => r.attempts[n].state \in Active
  PROVE  \A w : Holds(s, w) => Holds(r, w)
  BY DEF Holds

LEMMA WithHolds ==
  ASSUME NEW r \in Row, NEW n \in DOMAIN r.attempts,
         NEW js \in JobState, NEW st \in AttemptState,
         r.attempts[n].state \in Active
  PROVE  \A w : Holds(With(r, n, js, st), w) => Holds(r, w)
  <1> DEFINE s == With(r, n, js, st)
  <1>1. /\ DOMAIN s.attempts = DOMAIN r.attempts
        /\ \A i \in DOMAIN r.attempts :
             /\ s.attempts[i].state = IF i = n THEN st ELSE r.attempts[i].state
             /\ s.attempts[i].worker = r.attempts[i].worker
    BY WithParts
  <1> HIDE DEF s
  <1>2. \A w : Holds(s, w) => Holds(r, w)
    BY <1>1, FewerHolds
  <1> QED
    BY <1>2 DEF s

LEMMA WriteThins ==
  ASSUME LockInv, NEW j \in Job, NEW r, pend' = [pend EXCEPT ![j] = r],
         \A w : Holds(r, w) => Holds(pend[j], w)
  PROVE  Thins
  <1>1. pend \in [Job -> Row]
    BY DEF LockInv, TypeOK
  <1>2. \A i \in Job : pend'[i] = IF i = j THEN r ELSE pend[i]
    BY <1>1
  <1> QED
    BY <1>2 DEF Thins

LEMMA ResultKeeps ==
  ASSUME LockInv, NEW t \in Tx, WriteStart(t) \/ WriteResult(t)
  PROVE  LockInv' /\ Thins
  <1> DEFINE j == tx[t].j
             n == tx[t].n
             r == rows[j]
  <1>1. TypeOK /\ RowsInv /\ Places(tx[t]) /\ Owns(t) /\ Found(t)
    BY DEF LockInv, TxInv
  <1>2. tx[t].pc = "write" /\ tx[t].op \in AttemptOp
    BY DEF WriteStart, WriteResult, AttemptOp
  <1>3. /\ Fresh(t, j) /\ j \in Job /\ n \in DOMAIN r.attempts
        /\ r.attempts[n].state \in Active
        /\ tx[t].op \in {"CompleteAttempt", "FailAttempt"} =>
             r.attempts[n].state = "RUNNING"
    BY <1>1, <1>2 DEF Owns, Found, Fresh, Named
  <1>4. r \in Row /\ L!RowInv(Outline(r)) /\ pend[j] = r
    BY <1>1, <1>3 DEF TypeOK, RowsInv, Fresh
  <1>5. ASSUME NEW js \in JobState, NEW st \in AttemptState, Set(t, js, st),
               Ahead(r, With(r, n, js, st))
        PROVE  LockInv' /\ Thins
    <2>1. pend' = [pend EXCEPT ![j] = With(r, n, js, st)]
      BY <1>1, <1>3, <1>4, <1>5 DEF Set, With, TypeOK
    <2>2. UNCHANGED <<rows, jlock, wlock>> /\ Goto(t, "commit")
      BY <1>5 DEF Set
    <2>3. Only(t) /\ TxInv(t)'
      BY <2>2, ToCommit
    <2>4. With(r, n, js, st) \in Row
      BY <1>3, <1>4, WithParts
    <2>5. LockInv'
      BY <1>3, <1>5, <2>1, <2>2, <2>3, <2>4, WriteKeeps
    <2>6. \A w : Holds(With(r, n, js, st), w) => Holds(r, w)
      BY <1>3, <1>4, WithHolds
    <2> QED
      BY <1>3, <1>4, <2>1, <2>5, <2>6, WriteThins
  <1> HIDE DEF j, n, r
  <1>6. CASE WriteStart(t)
    <2>1. CASE Set(t, "RUNNING", "RUNNING")
      <3>1. "RUNNING" \in JobState /\ "RUNNING" \in AttemptState
        BY DEF JobState, AttemptState, Active
      <3>2. Ahead(r, With(r, n, "RUNNING", "RUNNING"))
        BY <1>3, <1>4, <3>1, WithAhead
      <3> QED
        BY <1>5, <2>1, <3>1, <3>2
    <2>2. CASE Goto(t, "commit") /\ UNCHANGED <<rows, pend, jlock, wlock>>
      <3>1. Only(t) /\ TxInv(t)'
        BY <2>2, ToCommit
      <3> QED
        BY <1>1, <2>2, <3>1, QuietKeeps DEF TypeOK, Thins
    <2> QED
      BY <1>6, <2>1, <2>2 DEF WriteStart
  <1>7. CASE WriteResult(t)
    <2>1. CASE /\ tx[t].op = "CompleteAttempt"
               /\ Set(t, "SUCCEEDED", "SUCCEEDED")
      <3>1. "SUCCEEDED" \in JobState /\ "SUCCEEDED" \in AttemptState
        BY DEF JobState, AttemptState
      <3>2. Ahead(r, With(r, n, "SUCCEEDED", "SUCCEEDED"))
        BY <1>3, <1>4, <2>1, <3>1, WithAhead
      <3> QED
        BY <1>5, <2>1, <3>1, <3>2
    <2>2. CASE /\ tx[t].op = "FailAttempt"
               /\ Set(t, RetryState(n, r.max_attempts), "FAILED")
      <3> DEFINE js == RetryState(n, r.max_attempts)
      <3>1. js \in JobState /\ "FAILED" \in AttemptState
        BY DEF JobState, AttemptState, RetryState
      <3>2. Ahead(r, With(r, n, js, "FAILED"))
        BY <1>3, <1>4, <2>2, <3>1, WithAhead
      <3> QED
        BY <1>5, <2>2, <3>1, <3>2
    <2> QED
      BY <1>4, <1>7, <2>1, <2>2 DEF WriteResult, j, n, r
  <1> QED
    BY <1>6, <1>7

LEMMA HeartbeatKeeps ==
  ASSUME LockInv, NEW t \in Tx, WriteHeartbeat(t)
  PROVE  LockInv' /\ Thins
  <1> DEFINE j == tx[t].j
             n == tx[t].n
             r == rows[j]
             l == least(r.attempts[n].deadline, LeaseSeconds)
             b == [r.attempts[n] EXCEPT !.lease = l]
             c == [r.attempts EXCEPT ![n] = b]
             s == [r EXCEPT !.attempts = c]
  <1>1. TypeOK /\ RowsInv /\ Places(tx[t]) /\ Owns(t) /\ Found(t)
    BY DEF LockInv, TxInv
  <1>2. Fresh(t, j) /\ j \in Job /\ n \in DOMAIN r.attempts
    BY <1>1 DEF WriteHeartbeat, AttemptOp, Owns, Found, Fresh, Named
  <1>3. r \in Row /\ pend[j] = r /\ r.attempts[n] \in Attempt
    BY <1>1, <1>2, RowParts DEF TypeOK, Fresh
  <1>4. pend' = [pend EXCEPT ![j] = s]
    BY <1>1, <1>2, <1>3 DEF WriteHeartbeat, TypeOK
  <1>5. UNCHANGED <<rows, jlock, wlock>> /\ Goto(t, "commit")
    BY DEF WriteHeartbeat
  <1>6. l \in Nat
    BY <1>3, TransactionsAssumption DEF least, Attempt
  <1> HIDE DEF l
  <1>7. /\ b \in Attempt /\ b.state = r.attempts[n].state
        /\ b.worker = r.attempts[n].worker
    BY <1>3, <1>6 DEF Attempt
  <1> HIDE DEF b, j, n, r
  <1>8. /\ c \in Seq(Attempt) /\ DOMAIN c = DOMAIN r.attempts
        /\ \A i \in DOMAIN r.attempts : 
             /\ c[i].state = r.attempts[i].state
             /\ c[i].worker = r.attempts[i].worker
    BY <1>2, <1>3, <1>7, RowParts
  <1> HIDE DEF c
  <1>9. /\ s \in Row /\ s.state = r.state /\ s.attempts = c
        /\ s.max_attempts = r.max_attempts
    BY <1>3, <1>8 DEF Row
  <1> HIDE DEF s
  <1>10. Ahead(r, s)
    BY <1>8, <1>9 DEF Ahead, Outline, Active
  <1>11. Only(t) /\ TxInv(t)'
    BY <1>5, ToCommit
  <1>12. LockInv'
    BY <1>2, <1>4, <1>5, <1>9, <1>10, <1>11, WriteKeeps DEF r
  <1>13. \A w : Holds(s, w) => Holds(r, w)
    BY <1>8, <1>9, FewerHolds
  <1> QED
    BY <1>2, <1>3, <1>4, <1>12, <1>13, WriteThins

LEMMA ActionKeeps ==
  ASSUME LockInv, NEW t \in Tx, WriteCancel(t) \/ WriteRetry(t)
  PROVE  LockInv' /\ Thins
  <1> DEFINE j == tx[t].j
             r == rows[j]
  <1>1. TypeOK /\ RowsInv /\ Owns(t)
    BY DEF LockInv, TxInv
  <1>2. /\ Fresh(t, j) /\ j \in Job /\ UNCHANGED <<rows, jlock, wlock>>
        /\ Goto(t, "commit") /\ CanAct(t)
    BY <1>1 DEF WriteCancel, WriteRetry, Owns, Fresh
  <1>3. /\ r \in Row /\ L!RowInv(Outline(r)) /\ pend[j] = r
        /\ r.state # "ABSENT"
    BY <1>1, <1>2 DEF TypeOK, RowsInv, Fresh
  <1>4. Only(t) /\ TxInv(t)'
    BY <1>2, ToCommit
  <1>5. CASE WriteCancel(t)
    <2> DEFINE c == [n \in DOMAIN r.attempts |->
                       IF r.attempts[n].state \in Active
                       THEN In(r.attempts[n], "CANCELLED")
                       ELSE r.attempts[n]]
               s == [r EXCEPT !.state = "CANCELLED", !.attempts = c]
    <2>1. pend' = [pend EXCEPT ![j] = s]
      BY <1>1, <1>2, <1>3, <1>5 DEF WriteCancel, TypeOK
    <2>2. r.state \notin {"SUCCEEDED", "FAILED"}
      BY <1>2, <1>3, <1>5 DEF WriteCancel, CanAct
    <2> HIDE DEF r
    <2>3. /\ DOMAIN c = DOMAIN r.attempts
          /\ \A n \in DOMAIN r.attempts :
               /\ c[n] \in Attempt
               /\ c[n].state = IF r.attempts[n].state \in Active
                               THEN "CANCELLED" ELSE r.attempts[n].state
               /\ c[n].worker = r.attempts[n].worker
      <3>1. \A n \in DOMAIN r.attempts : r.attempts[n] \in Attempt
        BY <1>3, RowParts
      <3>2. "CANCELLED" \in AttemptState
        BY DEF AttemptState
      <3> QED
        BY <3>1, <3>2, InParts
    <2> HIDE DEF c
    <2>4. c \in Seq(Attempt)
      <3>1. DOMAIN c = 1 .. Len(r.attempts) /\ Len(r.attempts) \in Nat
        BY <1>3, <2>3, RowParts
      <3>2. c \in [1 .. Len(r.attempts) -> Attempt]
        BY <2>3, <3>1 DEF c
      <3> QED
        BY <3>1, <3>2
    <2>5. /\ s \in Row /\ s.state = "CANCELLED" /\ s.attempts = c
          /\ s.max_attempts = r.max_attempts
      BY <1>3, <2>4 DEF Row, JobState
    <2> HIDE DEF s
    <2>6. Outline(s) = Outline(r) \/ L!Step(Outline(r), Outline(s))
      <3>1. CASE \E n \in DOMAIN r.attempts : r.attempts[n].state \in Active
        <4>1. PICK n \in DOMAIN r.attempts : r.attempts[n].state \in Active
          BY <3>1
        <4>2. \A i \in DOMAIN r.attempts \ {n} :
                r.attempts[i].state \notin Active
          BY <1>3, <4>1, ActiveIsLatest
        <4>3. "CANCELLED" \in AttemptState
          BY DEF AttemptState
        <4>4. /\ L!Moved(Outline(r), Outline(s), "CANCELLED")
              /\ Outline(s).state = "CANCELLED"
          BY <1>3, <2>3, <2>5, <4>1, <4>2, <4>3, MoveRow
        <4> QED
          BY <4>4 DEF L!Step, L!Cancelled
      <3>2. CASE \A n \in DOMAIN r.attempts : r.attempts[n].state \notin Active
        <4>1. Outline(s).history = Outline(r).history
          BY <2>3, <2>5, <3>2 DEF Outline
        <4>2. r.state \notin Active
          BY <1>3, <3>2, RowInvParts, RowParts
        <4>3. r.state \in {"QUEUED", "CANCELLED"}
          BY <1>3, <2>2, <4>2, RowParts DEF JobState
        <4>4. /\ Outline(s).state = "CANCELLED" /\ Outline(r).state = r.state
              /\ Outline(s).budget = Outline(r).budget
          BY <1>3, <2>5, OutlineParts
        <4>5. CASE r.state = "QUEUED"
          BY <4>1, <4>4, <4>5 DEF L!Step, L!Cancelled
        <4>6. CASE r.state = "CANCELLED"
          BY <2>5, <4>1, <4>6 DEF Outline
        <4> QED
          BY <4>3, <4>5, <4>6
      <3> QED
        BY <3>1, <3>2
    <2>7. Ahead(r, s)
      BY <2>3, <2>5, <2>6 DEF Ahead, Active
    <2>8. LockInv'
      BY <1>2, <1>4, <2>1, <2>5, <2>7, WriteKeeps DEF r
    <2>9. \A w : Holds(s, w) => Holds(r, w)
      BY <2>3, <2>5, FewerHolds DEF Active
    <2> QED
      BY <1>2, <1>3, <2>1, <2>8, <2>9, WriteThins
  <1>6. CASE WriteRetry(t)
    <2> DEFINE m == r.max_attempts + 1
               s == [r EXCEPT !.state = "QUEUED", !.max_attempts = m]
    <2>1. pend' = [pend EXCEPT ![j] = s]
      BY <1>1, <1>2, <1>3, <1>6 DEF WriteRetry, TypeOK
    <2>2. r.state = "FAILED"
      BY <1>2, <1>3, <1>6 DEF WriteRetry, CanAct
    <2> HIDE DEF r
    <2>3. m \in Nat \ {0}
      BY <1>3, RowParts
    <2> HIDE DEF m
    <2>4. /\ s \in Row /\ s.state = "QUEUED" /\ s.attempts = r.attempts
          /\ s.max_attempts = m
      BY <1>3, <2>3 DEF Row, JobState
    <2> HIDE DEF s
    <2>5. /\ Outline(s).history = Outline(r).history
          /\ Outline(s).budget = Outline(r).budget + 1
          /\ Outline(s).state = "QUEUED" /\ Outline(r).state = "FAILED"
      BY <2>2, <2>4 DEF Outline, m
    <2>6. Ahead(r, s)
      BY <2>4, <2>5 DEF Ahead, Active, L!Step, L!Retried
    <2>7. LockInv'
      BY <1>2, <1>4, <2>1, <2>4, <2>6, WriteKeeps DEF r
    <2>8. \A w : Holds(s, w) => Holds(r, w)
      BY <2>4, FewerHolds
    <2> QED
      BY <1>2, <1>3, <2>1, <2>7, <2>8, WriteThins
  <1> QED
    BY <1>5, <1>6

LEMMA ExpireKeeps ==
  ASSUME LockInv, NEW t \in Tx, Expire(t) PROVE LockInv' /\ Thins
  <1> DEFINE j == tx[t].j
             n == tx[t].n
             r == rows[j]
             js == RetryState(n, r.max_attempts)
             y == [tx[t] EXCEPT !.pc = "recheck", !.j = 0, !.n = 0]
  <1>1. /\ TypeOK /\ RowsInv /\ Places(tx[t]) /\ Owns(t) /\ Found(t)
        /\ tx[t] \in Local /\ tx[t].pc = "expire" /\ tx[t].op = "Reap"
    BY DEF LockInv, TxInv, Expire, TypeOK, Places
  <1>2. /\ Fresh(t, j) /\ j \in Job /\ n \in DOMAIN r.attempts
        /\ r.attempts[n].state \in Active /\ r.attempts[n].lease = 0
        /\ j \notin tx[t].ids /\ \A i \in tx[t].ids : Fresh(t, i)
    BY <1>1 DEF Owns, Found, Fresh, Named, Expired
  <1>3. r \in Row /\ L!RowInv(Outline(r)) /\ pend[j] = r
    BY <1>1, <1>2 DEF TypeOK, RowsInv, Fresh
  <1>4. /\ pend' = [pend EXCEPT ![j] = With(r, n, js, "EXPIRED")]
        /\ UNCHANGED <<rows, jlock, wlock>>
    <2>1. /\ pend' = [pend EXCEPT
               ![j].state = RetryState(n, pend[j].max_attempts),
               ![j].attempts[n] = In(@, "EXPIRED")]
          /\ UNCHANGED <<rows, jlock, wlock>>
      BY DEF Expire
    <2>2. pend \in [Job -> Row] /\ j \in Job
      BY <1>1, <1>2 DEF TypeOK
    <2> HIDE DEF j, n, r
    <2> QED
      BY <1>3, <2>1, <2>2 DEF With
  <1>5. tx' = [tx EXCEPT ![t] = y]
    BY <1>1 DEF Expire, TypeOK
  <1>6. /\ y \in Local /\ y.pc = "recheck" /\ y.op = "Reap"
        /\ y.ids = tx[t].ids
    BY <1>1 DEF Local
  <1> HIDE DEF y
  <1>7. Only(t) /\ tx'[t] = y
    BY <1>1, <1>5, <1>6, PutParts
  <1>8. \A i \in tx[t].ids : Fresh(t, i)'
    BY <1>1, <1>2, <1>4 DEF Fresh, TypeOK
  <1>9. TxInv(t)'
    BY <1>6, <1>7, <1>8 DEF TxInv, Places, Owns, Found, Unlocked, AttemptOp
  <1> HIDE DEF j, n, r
  <1>10. js \in JobState /\ "EXPIRED" \in AttemptState
    BY DEF JobState, AttemptState, RetryState
  <1>11. /\ With(r, n, js, "EXPIRED") \in Row
         /\ Ahead(r, With(r, n, js, "EXPIRED"))
    BY <1>2, <1>3, <1>10, WithParts, WithAhead
  <1>12. LockInv'
    BY <1>2, <1>4, <1>7, <1>9, <1>11, WriteKeeps DEF r
  <1>13. \A w : Holds(With(r, n, js, "EXPIRED"), w) => Holds(r, w)
    BY <1>2, <1>3, <1>10, WithHolds
  <1> QED
    BY <1>2, <1>3, <1>4, <1>12, <1>13, WriteThins

-----------------------------------------------------------------------------
LEMMA LockInit == Init => LockInv
  <1> SUFFICES ASSUME Init PROVE LockInv
    OBVIOUS
  <1>1. \A j \in Job : /\ rows[j] \in Row /\ rows[j].state = "QUEUED"
                       /\ rows[j].attempts = <<>>
    <2> SUFFICES ASSUME NEW j \in Job
                 PROVE  /\ rows[j] \in Row /\ rows[j].state = "QUEUED"
                        /\ rows[j].attempts = <<>>
      OBVIOUS
    <2> DEFINE y == [state |-> "QUEUED", max_attempts |-> MaxAttempts[j],
                     attempts |-> <<>>]
    <2>1. rows[j] = y
      BY DEF Init
    <2>2. MaxAttempts[j] \in Nat \ {0} /\ "QUEUED" \in JobState
      BY TransactionsAssumption DEF JobState
    <2>3. y \in Row
      BY <2>2 DEF Row
    <2>4. y.state = "QUEUED" /\ y.attempts = <<>>
      OBVIOUS
    <2> HIDE DEF y
    <2> QED
      BY <2>1, <2>3, <2>4
  <1>2. TypeOK
    BY <1>1, IdleTyped DEF Init, TypeOK
  <1>3. RowsInv
    <2> SUFFICES ASSUME NEW j \in Job PROVE L!RowInv(Outline(rows[j]))
      BY <1>1, AheadSelf DEF RowsInv, Init
    <2>1. /\ Outline(rows[j]).state = "QUEUED"
          /\ Len(Outline(rows[j]).history) = 0
          /\ Outline(rows[j]).budget \in Nat \ {0}
      BY <1>1, OutlineParts, RowParts
    <2>2. \A i \in 1 .. 0 - 1 : FALSE
      OBVIOUS
    <2> QED
      BY <2>1, <2>2 DEF L!RowInv, L!Active
  <1>4. \A t \in Tx : TxInv(t)
    <2> SUFFICES ASSUME NEW t \in Tx PROVE TxInv(t)
      OBVIOUS
    <2>1. tx[t].op = "none" /\ tx[t].pc = "idle"
      BY DEF Init, Idle
    <2>2. \A j \in Job : jlock[j] # t
      BY TransactionsAssumption DEF Init
    <2> QED
      BY <2>1, <2>2 DEF TxInv, Places, Owns, Found, Unlocked, AttemptOp
  <1> QED
    BY <1>2, <1>3, <1>4 DEF LockInv

LEMMA LockStep == ASSUME Arithmetic, LockInv, [Next]_vars PROVE LockInv'
  <1>1. CASE UNCHANGED vars
    <2>1. UNCHANGED <<rows, pend, jlock, wlock, tx>>
      BY <1>1 DEF vars
    <2>2. TypeOK' /\ RowsInv'
      BY <2>1 DEF LockInv, TypeOK, RowsInv
    <2>3. ASSUME NEW t \in Tx PROVE TxInv(t)'
      <3>1. /\ Unlocked(t)' <=> Unlocked(t)
            /\ Named(t)' <=> Named(t)
            /\ \A j : Fresh(t, j)' <=> Fresh(t, j)
        BY <2>1 DEF Unlocked, Named, Fresh
      <3>2. Owns(t)' /\ Found(t)'
        BY <2>1, <3>1 DEF LockInv, TxInv, Owns, Found
      <3> QED
        BY <2>1, <3>2 DEF LockInv, TxInv
    <2> QED
      BY <2>2, <2>3 DEF LockInv
  <1>2. CASE Tick
    BY <1>2, TickKeeps
  <1>3. ASSUME NEW t \in Tx, Start(t) \/ Statement(t) \/ Rollback(t)
        PROVE  LockInv'
    <2>1. CASE Start(t)
      BY <2>1, BeginKeeps
    <2>2. CASE \/ LockWorker(t) \/ LockJob(t) \/ ReadUsed(t) \/ ScanQueued(t)
               \/ ProbeQueued(t) \/ AnswerIdle(t)
      BY <2>2, LockKeeps, LeaseReadsKeep, ProbeQueuedKeeps
    <2>3. CASE \/ Check(t) \/ ScanExpired(t) \/ ProbeExpired(t)
               \/ Collected(t) \/ Recheck(t) \/ Reaped(t)
      BY <2>3, CheckKeeps, ReapReadsKeep
    <2>4. CASE \/ Insert(t) \/ WriteHeartbeat(t) \/ WriteStart(t)
               \/ WriteResult(t) \/ WriteCancel(t) \/ WriteRetry(t)
               \/ Expire(t)
      BY <2>4, InsertKeeps, HeartbeatKeeps, ResultKeeps, ActionKeeps,
         ExpireKeeps
    <2>5. CASE Commit(t) \/ Refused(t) \/ Rollback(t)
      BY <2>5, EndKeeps DEF Refused
    <2> QED
      BY <1>3, <2>1, <2>2, <2>3, <2>4, <2>5 DEF Statement
  <1> QED
    BY <1>1, <1>2, <1>3 DEF Next

(* What a transaction commits was at most one step of Lifecycle ahead of   *)
(* what was committed before.                                              *)
LEMMA CommittedIsAhead ==
  ASSUME LockInv, [Next]_vars, NEW j \in Job
  PROVE  \/ rows'[j] = rows[j] \/ rows'[j] = AgeRow(rows[j])
         \/ rows'[j] = pend[j] /\ Ahead(rows[j], pend[j])
  <1>1. Ahead(rows[j], pend[j])
    BY DEF LockInv, RowsInv
  <1>2. CASE Tick
    BY <1>2 DEF Tick, AgeRow
  <1>3. ASSUME NEW t \in Tx, Commit(t) PROVE rows'[j] \in {rows[j], pend[j]}
    BY <1>3 DEF Commit
  <1>4. ASSUME NEW t \in Tx, ~ Commit(t),
               Start(t) \/ Statement(t) \/ Rollback(t)
        PROVE  rows' = rows
    <2>1. CASE Start(t)
      BY <2>1
      DEF Start, BeginLease, BeginAttempt, BeginAction, BeginReap, Begin
    <2>2. CASE Statement(t) \/ Rollback(t)
      BY <1>4, <2>2
      DEF Statement, LockWorker, LockJob, ReadUsed, ScanQueued, ProbeQueued,
          AnswerIdle, Insert, Check, WriteHeartbeat, WriteStart, WriteResult,
          Set, WriteCancel, WriteRetry, ScanExpired, ProbeExpired, Collected,
          Recheck, Expire, Reaped, Refused, Rollback
    <2> QED
      BY <1>4, <2>1, <2>2
  <1>5. CASE UNCHANGED vars
    BY <1>5 DEF vars
  <1> QED
    BY <1>1, <1>2, <1>3, <1>4, <1>5 DEF Next
=============================================================================

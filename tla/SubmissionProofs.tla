-------------------------- MODULE SubmissionProofs --------------------------
(***************************************************************************)
(* For any number of callers, any batches and any keys: the order in which *)
(* Submit takes its advisory locks lets no cycle of waiting transactions   *)
(* close, a batch is there as a whole or not at all, and whoever asks      *)
(* about a key is told of its one row.                                     *)
(***************************************************************************)
EXTENDS Submission, TLAPS

(* The part of the type invariant the argument needs.                      *)
LockTypes ==
  /\ pc \in [Caller -> {"idle", "lock", "insert", "commit", "ok", "invalid",
                        "conflict", "error"}]
  /\ keys \in [Caller -> Seq(Key)]
  /\ held \in [Caller -> SUBSET Nat]

(* What a transaction holds comes before all that it will still lock; the  *)
(* keys to come are sorted.                                                *)
HeldBefore ==
  \A c \in Caller : pc[c] = "lock" =>
    /\ Ascending(keys[c])
    /\ \A h \in held[c], i \in DOMAIN keys[c] : h <= Hash[keys[c][i]]

IdleHoldsNothing == \A c \in Caller : pc[c] = "idle" => held[c] = {}

(* No lock is held twice.                                                  *)
Exclusive ==
  \A c, d \in Caller : c # d => held[c] \cap held[d] = {}

LockInv == LockTypes /\ HeldBefore /\ IdleHoldsNothing /\ Exclusive

(* The initial state: nobody holds anything.                               *)
LEMMA LockInit == Init => LockInv
  BY DEF Init, LockInv, LockTypes, HeldBefore, IdleHoldsNothing, Exclusive

(* A step that takes no lock, touches only one caller and leaves it with   *)
(* what it had or with nothing preserves the invariant.                    *)
LEMMA Released ==
  ASSUME LockInv, NEW c \in Caller,
         NEW answer \in {"ok", "conflict", "error"}, EndTransaction(c, answer)
  PROVE  LockInv'
  <1>1. LockTypes'
    BY DEF LockInv, LockTypes, EndTransaction
  <1>2. HeldBefore'
    BY DEF LockInv, LockTypes, HeldBefore, EndTransaction, Ascending
  <1>3. IdleHoldsNothing'
    BY DEF LockInv, LockTypes, IdleHoldsNothing, EndTransaction
  <1>4. Exclusive'
    BY DEF LockInv, LockTypes, Exclusive, EndTransaction
  <1> QED
    BY <1>1, <1>2, <1>3, <1>4 DEF LockInv

(* Begin: the keys are sorted and nothing is held yet.                     *)
LEMMA BeginKeeps ==
  ASSUME LockInv, NEW c \in Caller, Begin(c)
  PROVE  LockInv'
  <1>1. PICK b \in Batches :
          \/ /\ pc' = [pc EXCEPT ![c] = "lock"]
             /\ \E t \in [1 .. Len(b) -> Key] :
                  /\ SortedKeys(KeysOf(b), t)
                  /\ keys' = [keys EXCEPT ![c] = t]
          \/ pc' = [pc EXCEPT ![c] = "invalid"] /\ UNCHANGED keys
    BY DEF Begin
  <1>2. pc[c] = "idle" /\ held' = held
    BY DEF Begin
  <1>3. held[c] = {}
    BY <1>2 DEF LockInv, IdleHoldsNothing
  <1>4. Exclusive'
    BY <1>2 DEF LockInv, Exclusive
  <1>5. CASE pc' = [pc EXCEPT ![c] = "invalid"] /\ UNCHANGED keys
    BY <1>2, <1>4, <1>5
    DEF LockInv, LockTypes, HeldBefore, IdleHoldsNothing
  <1>6. CASE /\ pc' = [pc EXCEPT ![c] = "lock"]
             /\ \E t \in [1 .. Len(b) -> Key] :
                  /\ SortedKeys(KeysOf(b), t)
                  /\ keys' = [keys EXCEPT ![c] = t]
    <2>1. PICK t \in [1 .. Len(b) -> Key] :
            SortedKeys(KeysOf(b), t) /\ keys' = [keys EXCEPT ![c] = t]
      BY <1>6
    <2>2. Len(b) \in Nat
      BY SubmissionAssumption
    <2>3. t \in Seq(Key)
      BY <2>2
    <2>4. Ascending(t)
      BY <2>1 DEF SortedKeys
    <2>5. LockTypes'
      BY <1>2, <1>6, <2>1, <2>3 DEF LockInv, LockTypes
    <2>6. HeldBefore'
      BY <1>2, <1>3, <1>6, <2>1, <2>3, <2>4 DEF LockInv, LockTypes, HeldBefore
    <2>7. IdleHoldsNothing'
      BY <1>2, <1>6 DEF LockInv, LockTypes, IdleHoldsNothing
    <2> QED
      BY <1>4, <2>5, <2>6, <2>7 DEF LockInv
  <1> QED
    BY <1>1, <1>5, <1>6

(* Lock: the lock taken is free, and not after those still to come.        *)
LEMMA LockKeeps ==
  ASSUME LockInv, NEW c \in Caller, Lock(c)
  PROVE  LockInv'
  <1> DEFINE s == keys[c]
             lock == Hash[Head(s)]
  <1>1. s \in Seq(Key) /\ s # <<>>
    BY DEF LockInv, LockTypes, Lock
  <1>2. /\ Head(s) \in Key /\ Head(s) = s[1]
        /\ Tail(s) \in Seq(Key) /\ Len(s) \in Nat
        /\ DOMAIN s = 1 .. Len(s) /\ DOMAIN Tail(s) = 1 .. Len(s) - 1
        /\ \A i \in DOMAIN Tail(s) : Tail(s)[i] = s[i + 1] /\ s[i + 1] \in Key
    BY <1>1
  <1>3. lock \in Nat
    BY <1>2, SubmissionAssumption
  <1>4. /\ pc' = pc /\ pc[c] = "lock"
        /\ held' = [held EXCEPT ![c] = held[c] \cup {lock}]
        /\ keys' = [keys EXCEPT ![c] = Tail(s)]
        /\ \A d \in Caller \ {c} : lock \notin held[d]
    BY DEF Lock, Free
  <1>5. LockTypes'
    BY <1>2, <1>3, <1>4 DEF LockInv, LockTypes
  <1>6. Ascending(s) /\ \A h \in held[c], i \in DOMAIN s : h <= Hash[s[i]]
    BY <1>4 DEF LockInv, HeldBefore
  <1>7. Ascending(Tail(s))
    <2> SUFFICES ASSUME NEW i \in DOMAIN Tail(s), NEW k \in DOMAIN Tail(s),
                        i < k
                 PROVE  Tail(s)[i] <= Tail(s)[k]
      BY DEF Ascending
    <2>1. i + 1 \in DOMAIN s /\ k + 1 \in DOMAIN s /\ i + 1 < k + 1
      BY <1>2
    <2>2. s[i + 1] <= s[k + 1]
      BY <1>6, <2>1 DEF Ascending
    <2> QED
      BY <1>2, <2>2
  <1>8. \A i \in DOMAIN Tail(s) : lock <= Hash[Tail(s)[i]]
    <2> SUFFICES ASSUME NEW i \in DOMAIN Tail(s)
                 PROVE  lock <= Hash[s[i + 1]]
      BY <1>2
    <2>1. i + 1 \in DOMAIN s /\ 1 \in DOMAIN s /\ 1 < i + 1
      BY <1>2
    <2>2. s[1] <= s[i + 1]
      BY <1>6, <2>1 DEF Ascending
    <2> QED
      BY <1>2, <2>2, SubmissionAssumption
  <1>9. \A h \in held[c], i \in DOMAIN Tail(s) : h <= Hash[Tail(s)[i]]
    <2> SUFFICES ASSUME NEW h \in held[c], NEW i \in DOMAIN Tail(s)
                 PROVE  h <= Hash[Tail(s)[i]]
      OBVIOUS
    <2>1. i + 1 \in DOMAIN s
      BY <1>2
    <2>2. h <= Hash[s[i + 1]]
      BY <1>6, <2>1
    <2> QED
      BY <1>2, <2>2
  <1>10. HeldBefore'
    <2> SUFFICES ASSUME NEW d \in Caller, pc'[d] = "lock"
                 PROVE  /\ Ascending(keys'[d])
                        /\ \A h \in held'[d], i \in DOMAIN keys'[d] :
                             h <= Hash[keys'[d][i]]
      BY DEF HeldBefore
    <2>1. CASE d = c
      <3>1. keys'[d] = Tail(s) /\ held'[d] = held[c] \cup {lock}
        BY <1>4, <2>1 DEF LockInv, LockTypes
      <3> QED
        BY <1>7, <1>8, <1>9, <3>1
    <2>2. CASE d # c
      <3>1. keys'[d] = keys[d] /\ held'[d] = held[d] /\ pc[d] = "lock"
        BY <1>4, <2>2 DEF LockInv, LockTypes
      <3> QED
        BY <3>1 DEF LockInv, HeldBefore
    <2> QED
      BY <2>1, <2>2
  <1>11. IdleHoldsNothing'
    BY <1>4 DEF LockInv, LockTypes, IdleHoldsNothing
  <1>12. Exclusive'
    BY <1>4 DEF LockInv, LockTypes, Exclusive
  <1> QED
    BY <1>5, <1>10, <1>11, <1>12 DEF LockInv

(* Every step of Submit preserves the invariant.                           *)
LEMMA LockStep == LockInv /\ [Next]_vars => LockInv'
  <1> SUFFICES ASSUME LockInv, [Next]_vars PROVE LockInv'
    OBVIOUS
  <1>1. CASE UNCHANGED vars
    BY <1>1
    DEF vars, LockInv, LockTypes, HeldBefore, IdleHoldsNothing, Exclusive
  <1>2. ASSUME NEW c \in Caller, Step(c) \/ Rollback(c) PROVE LockInv'
    <2>1. CASE Begin(c)
      BY <2>1, BeginKeeps
    <2>2. CASE Lock(c)
      BY <2>2, LockKeeps
    <2>3. CASE Locked(c) \/ Inserted(c)
      <3>1. keys' = keys /\ held' = held
        BY <2>3 DEF Locked, Inserted
      <3>2. \E p \in {"insert", "commit"} : pc' = [pc EXCEPT ![c] = p]
        BY <2>3 DEF Locked, Inserted
      <3> QED
        BY <3>1, <3>2
        DEF LockInv, LockTypes, HeldBefore, IdleHoldsNothing, Exclusive
    <2>4. CASE Insert(c)
      <3>1. Conflict(c) \/ UNCHANGED <<pc, held, keys>>
        BY <2>4 DEF Insert
      <3>2. CASE Conflict(c)
        BY <3>2, Released DEF Conflict
      <3>3. CASE UNCHANGED <<pc, held, keys>>
        BY <3>3
        DEF LockInv, LockTypes, HeldBefore, IdleHoldsNothing, Exclusive
      <3> QED
        BY <3>1, <3>2, <3>3
    <2>5. CASE Commit(c)
      <3>1. EndTransaction(c, "ok") \/ EndTransaction(c, "error")
        BY <2>5 DEF Commit
      <3> QED
        BY <3>1, Released
    <2>6. CASE Rollback(c)
      BY <2>6, Released DEF Rollback
    <2> QED
      BY <1>2, <2>1, <2>2, <2>3, <2>4, <2>5, <2>6 DEF Step
  <1> QED
    BY <1>1, <1>2 DEF Next

(* The invariant orders the waiting transactions.                          *)
LEMMA LockOrder == LockInv => WaitsAscend
  <1> SUFFICES ASSUME LockInv, NEW c \in Caller, NEW d \in Caller,
                      NEW e \in Caller, Waits(c, d), Waits(d, e)
               PROVE  Hash[Head(keys[c])] < Hash[Head(keys[d])]
    BY DEF WaitsAscend
  <1>1. /\ keys[c] \in Seq(Key) /\ keys[c] # <<>>
        /\ keys[d] \in Seq(Key) /\ keys[d] # <<>>
    BY DEF LockInv, LockTypes, Waits
  <1>2. /\ Head(keys[c]) \in Key /\ Head(keys[d]) \in Key
        /\ Head(keys[d]) = keys[d][1] /\ 1 \in DOMAIN keys[d]
    BY <1>1
  <1>3. Hash[Head(keys[c])] \in Nat /\ Hash[Head(keys[d])] \in Nat
    BY <1>2, SubmissionAssumption
  <1>4. Hash[Head(keys[c])] \in held[d] /\ Hash[Head(keys[d])] \in held[e]
    BY DEF Waits
  <1>5. Hash[Head(keys[c])] <= Hash[Head(keys[d])]
    BY <1>2, <1>4 DEF LockInv, HeldBefore, Waits
  <1>6. Hash[Head(keys[c])] # Hash[Head(keys[d])]
    BY <1>4 DEF LockInv, Exclusive, Waits
  <1> QED
    BY <1>3, <1>5, <1>6

(* However many batches are submitted at a time and whatever keys they     *)
(* share, transactions of Submit wait for each other in the order of the   *)
(* locks only, so no deadlock of crossed keys arises.                      *)
THEOREM NoCrossedLocks == Spec => []WaitsAscend
  <1>1. Init => LockInv
    BY LockInit
  <1>2. LockInv /\ [Next]_vars => LockInv'
    BY LockStep
  <1>3. LockInv => WaitsAscend
    BY LockOrder
  <1> QED
    BY <1>1, <1>2, <1>3, PTL DEF Spec

-----------------------------------------------------------------------------
(* The types the second argument needs.                                    *)
BatchTypes ==
  /\ pc \in [Caller -> {"idle", "lock", "insert", "commit", "ok", "invalid",
                        "conflict", "error"}]
  /\ batch \in [Caller -> Seq([key : Key, def : Def])]
  /\ at \in [Caller -> Nat]
  /\ own \in [Caller -> SUBSET Row]
  /\ jobs \subseteq Row

(* rows has a row for each of the first n jobs of the list.                *)
Has(rows, list, n) ==
  \A i \in 1 .. n : \E r \in rows : r.key = list[i].key /\ r.def = list[i].def

(* What one call has done so far.                                          *)
CallInv(c) ==
  /\ \A r \in own[c] : r.by = c
  /\ pc[c] \in {"insert", "commit"} =>
       /\ at[c] <= Len(batch[c])
       /\ Has(jobs \cup own[c], batch[c], at[c])
  /\ pc[c] = "commit" => at[c] = Len(batch[c])
  /\ pc[c] \in {"idle", "lock"} => at[c] = 0
  /\ pc[c] \notin {"insert", "commit"} => own[c] = {}

(* A row was made by a call that is over and whose batch is there.         *)
RowInv(r) ==
  pc[r.by] \in {"ok", "error"} /\ Has(jobs, batch[r.by], Len(batch[r.by]))

BatchInv ==
  /\ BatchTypes
  /\ \A c \in Caller : CallInv(c)
  /\ \A r \in jobs : RowInv(r)

(* More rows have what fewer rows have.                                    *)
LEMMA HasMore ==
  ASSUME NEW R, NEW S, R \subseteq S, NEW list, NEW n, Has(R, list, n)
  PROVE  Has(S, list, n)
  BY DEF Has

(* The call that makes a step moves on alone: the others keep their claims *)
(* as long as no row disappears, and so do the rows as long as the call    *)
(* was not over.                                                           *)
LEMMA OthersKeep ==
  ASSUME BatchInv, NEW c \in Caller, jobs \subseteq jobs',
         pc[c] \notin {"ok", "error"},
         \A d \in Caller \ {c} : /\ pc'[d] = pc[d] /\ batch'[d] = batch[d]
                                 /\ at'[d] = at[d] /\ own'[d] = own[d]
  PROVE  /\ \A d \in Caller \ {c} : CallInv(d)'
         /\ \A r \in jobs : RowInv(r)'
  <1>1. ASSUME NEW d \in Caller \ {c} PROVE CallInv(d)'
    <2>1. CallInv(d) /\ jobs \cup own[d] \subseteq jobs' \cup own'[d]
      BY DEF BatchInv
    <2>2. Has(jobs \cup own[d], batch[d], at[d])
            => Has(jobs' \cup own'[d], batch[d], at[d])
      BY <2>1, HasMore
    <2> QED
      BY <2>1, <2>2 DEF CallInv
  <1>2. ASSUME NEW r \in jobs PROVE RowInv(r)'
    <2>1. RowInv(r) /\ r.by \in Caller
      BY DEF BatchInv, BatchTypes, Row
    <2>2. r.by \in Caller \ {c}
      BY <2>1 DEF RowInv
    <2>3. Has(jobs', batch[r.by], Len(batch[r.by]))
      BY <2>1, HasMore DEF RowInv
    <2> QED
      BY <2>1, <2>2, <2>3 DEF RowInv
  <1> QED
    BY <1>1, <1>2

(* A transaction that ends without a commit leaves no trace.               *)
LEMMA AbortKeeps ==
  ASSUME BatchInv, NEW c \in Caller, pc[c] \in {"lock", "insert", "commit"},
         NEW answer \in {"conflict", "error"}, EndTransaction(c, answer),
         UNCHANGED <<jobs, batch, at>>
  PROVE  BatchInv'
  <1>1. BatchTypes
    BY DEF BatchInv
  <1>2. BatchTypes' /\ pc'[c] = answer /\ own'[c] = {}
    BY <1>1 DEF BatchTypes, EndTransaction
  <1>3. \A d \in Caller \ {c} : /\ pc'[d] = pc[d] /\ batch'[d] = batch[d]
                                /\ at'[d] = at[d] /\ own'[d] = own[d]
    BY <1>1 DEF BatchTypes, EndTransaction
  <1>4. CallInv(c)'
    BY <1>2 DEF CallInv
  <1> QED
    BY <1>2, <1>3, <1>4, OthersKeep DEF BatchInv

(* The commit publishes the rows of a batch that is complete.              *)
LEMMA CommitKeeps ==
  ASSUME BatchInv, NEW c \in Caller, Commit(c) PROVE BatchInv'
  <1>1. BatchTypes /\ CallInv(c)
    BY DEF BatchInv
  <1>2. PICK answer \in {"ok", "error"} :
          /\ pc' = [pc EXCEPT ![c] = answer]
          /\ own' = [own EXCEPT ![c] = {}]
          /\ jobs' = jobs \cup own[c] /\ batch' = batch /\ at' = at
          /\ pc[c] = "commit"
    BY DEF Commit, EndTransaction
  <1>3. BatchTypes' /\ pc'[c] = answer /\ own'[c] = {}
    BY <1>1, <1>2 DEF BatchTypes
  <1>4. \A d \in Caller \ {c} : /\ pc'[d] = pc[d] /\ batch'[d] = batch[d]
                                /\ at'[d] = at[d] /\ own'[d] = own[d]
    BY <1>1, <1>2 DEF BatchTypes
  <1>5. CallInv(c)'
    BY <1>3 DEF CallInv
  <1>6. (\A d \in Caller \ {c} : CallInv(d)') /\ \A r \in jobs : RowInv(r)'
    BY <1>2, <1>4, OthersKeep
  <1>7. ASSUME NEW r \in own[c] PROVE RowInv(r)'
    <2>1. r.by = c /\ Has(jobs', batch'[c], Len(batch'[c]))
      BY <1>1, <1>2 DEF CallInv
    <2> QED
      BY <1>3, <2>1 DEF RowInv
  <1> QED
    BY <1>2, <1>3, <1>5, <1>6, <1>7 DEF BatchInv

(* The members of a sequence.                                              *)
LEMMA MemberOf ==
  ASSUME NEW S, NEW s \in Seq(S), NEW i \in 1 .. Len(s) PROVE s[i] \in S
  OBVIOUS

(* The call has a row for one more job, its own or one it found.           *)
LEMMA InsertKeeps ==
  ASSUME BatchInv, NEW c \in Caller, Insert(c) PROVE BatchInv'
  <1> DEFINE n == at[c] + 1
             job == batch[c][n]
             new == [key |-> job.key, def |-> job.def, by |-> c, place |-> n]
  <1>1. BatchTypes /\ CallInv(c) /\ pc[c] = "insert" /\ at[c] < Len(batch[c])
    BY DEF BatchInv, Insert
  <1>2. /\ at[c] \in Nat /\ Len(batch[c]) \in Nat /\ n \in 1 .. Len(batch[c])
        /\ job \in [key : Key, def : Def] /\ n \in Nat
    <2>1. batch[c] \in Seq([key : Key, def : Def]) /\ at[c] \in Nat
      BY <1>1 DEF BatchTypes
    <2>2. Len(batch[c]) \in Nat /\ n \in 1 .. Len(batch[c])
      BY <1>1, <2>1
    <2>3. job \in [key : Key, def : Def]
      BY <2>1, <2>2, MemberOf
    <2> HIDE DEF job
    <2> QED
      BY <2>1, <2>2, <2>3
  <1>3. CASE Conflict(c) /\ UNCHANGED <<jobs, batch, at>>
    BY <1>1, <1>3, AbortKeeps DEF Conflict
  <1>4. CASE /\ at' = [at EXCEPT ![c] = n] /\ UNCHANGED <<jobs, pc, batch>>
             /\ \E R \in SUBSET {new} : own' = [own EXCEPT ![c] = @ \cup R]
             /\ \E r \in jobs \cup own'[c] : r.key = job.key /\ r.def = job.def
    <2>1. PICK R \in SUBSET {new} : own' = [own EXCEPT ![c] = own[c] \cup R]
      BY <1>4
    <2>2. new \in Row /\ new.by = c
      BY <1>2 DEF Row
    <2>3. own'[c] = own[c] \cup R /\ own' \in [Caller -> SUBSET Row]
      BY <1>1, <2>1, <2>2 DEF BatchTypes
    <2>4. BatchTypes' /\ at'[c] = n /\ pc'[c] = "insert"
      <3> HIDE DEF n
      <3> QED
        BY <1>1, <1>2, <1>4, <2>3 DEF BatchTypes
    <2>5. \A d \in Caller \ {c} : /\ pc'[d] = pc[d] /\ batch'[d] = batch[d]
                                  /\ at'[d] = at[d] /\ own'[d] = own[d]
      BY <1>1, <1>4, <2>1 DEF BatchTypes
    <2>6. (\A d \in Caller \ {c} : CallInv(d)') /\ \A r \in jobs : RowInv(r)'
      BY <1>1, <1>4, <2>5, OthersKeep
    <2>7. Has(jobs \cup own'[c], batch[c], at[c])
      BY <1>1, <2>3, HasMore DEF CallInv
    <2>8. Has(jobs \cup own'[c], batch[c], n)
      BY <1>2, <1>4, <2>7 DEF Has
    <2>9. CallInv(c)'
      BY <1>1, <1>2, <1>4, <2>2, <2>3, <2>4, <2>8, SMTT(40) DEF CallInv
    <2> QED
      BY <1>4, <2>4, <2>6, <2>9 DEF BatchInv
  <1>5. CASE /\ own' = [own EXCEPT ![c] = @ \cup {new}]
             /\ at' = [at EXCEPT ![c] = n] /\ UNCHANGED <<jobs, pc, batch>>
    <2>1. new \in own'[c] /\ new.key = job.key /\ new.def = job.def
      BY <1>1, <1>5 DEF BatchTypes
    <2> QED
      BY <1>4, <1>5, <2>1
  <1>6. CASE /\ \E r \in Visible(c, job.key) : Same(r, job)
             /\ at' = [at EXCEPT ![c] = n]
             /\ UNCHANGED <<jobs, pc, batch, own>>
    <2>1. own' = [own EXCEPT ![c] = @ \cup {}]
      BY <1>1, <1>6 DEF BatchTypes
    <2>2. \E r \in jobs \cup own'[c] : r.key = job.key /\ r.def = job.def
      BY <1>6 DEF Visible, Same
    <2>3. \E R \in SUBSET {new} : own' = [own EXCEPT ![c] = @ \cup R]
      BY <2>1
    <2> QED
      BY <1>4, <1>6, <2>2, <2>3
  <1> QED
    BY <1>3, <1>5, <1>6 DEF Insert, Conflict

(* Every step of Submit preserves the invariant.                           *)
LEMMA BatchStep == BatchInv /\ [Next]_vars => BatchInv'
  <1> SUFFICES ASSUME BatchInv, [Next]_vars PROVE BatchInv'
    OBVIOUS
  <1>1. CASE UNCHANGED vars
    BY <1>1 DEF vars, BatchInv, BatchTypes, CallInv, RowInv
  <1>2. ASSUME NEW c \in Caller, Step(c) \/ Rollback(c) PROVE BatchInv'
    <2> USE DEF BatchTypes
    <2>1. BatchTypes /\ CallInv(c)
      BY DEF BatchInv
    <2>2. CASE Begin(c)
      <3>1. PICK b \in Batches, p \in {"lock", "invalid"} :
              /\ batch' = [batch EXCEPT ![c] = b]
              /\ pc' = [pc EXCEPT ![c] = p]
              /\ pc[c] = "idle" /\ UNCHANGED <<jobs, at, own>>
        BY <2>2 DEF Begin
      <3>2. b \in Seq([key : Key, def : Def])
        BY SubmissionAssumption
      <3>3. BatchTypes' /\ pc'[c] = p
        BY <2>1, <3>1, <3>2
      <3>4. CallInv(c)'
        BY <2>1, <3>1, <3>3 DEF CallInv
      <3>5. \A d \in Caller \ {c} : /\ pc'[d] = pc[d] /\ batch'[d] = batch[d]
                                    /\ at'[d] = at[d] /\ own'[d] = own[d]
        BY <2>1, <3>1
      <3> QED
        BY <3>1, <3>3, <3>4, <3>5, OthersKeep DEF BatchInv
    <2>3. CASE Lock(c)
      BY <2>3 DEF Lock, BatchInv, CallInv, RowInv
    <2>4. CASE Locked(c) \/ Inserted(c)
      <3>1. PICK p \in {"insert", "commit"} :
              /\ pc' = [pc EXCEPT ![c] = p]
              /\ UNCHANGED <<jobs, batch, at, own>>
              /\ \/ pc[c] = "lock" /\ p = "insert"
                 \/ pc[c] = "insert" /\ p = "commit" /\ at[c] = Len(batch[c])
        BY <2>4 DEF Locked, Inserted
      <3>2. BatchTypes' /\ pc'[c] = p
        BY <2>1, <3>1
      <3>3. Len(batch[c]) \in Nat
        BY <2>1
      <3>4. CallInv(c)'
        <4>1. CASE pc[c] = "lock" /\ p = "insert"
          <5>1. at[c] = 0 /\ own[c] = {} /\ Has(jobs \cup own[c], batch[c], 0)
            BY <2>1, <4>1 DEF CallInv, Has
          <5> QED
            BY <3>1, <3>2, <3>3, <4>1, <5>1 DEF CallInv
        <4>2. CASE pc[c] = "insert" /\ p = "commit" /\ at[c] = Len(batch[c])
          BY <2>1, <3>1, <3>2, <3>3, <4>2 DEF CallInv
        <4> QED
          BY <3>1, <4>1, <4>2
      <3>5. \A d \in Caller \ {c} : /\ pc'[d] = pc[d] /\ batch'[d] = batch[d]
                                    /\ at'[d] = at[d] /\ own'[d] = own[d]
        BY <2>1, <3>1
      <3> QED
        BY <3>1, <3>2, <3>4, <3>5, OthersKeep DEF BatchInv
    <2>5. CASE Insert(c)
      BY <2>5, InsertKeeps
    <2>6. CASE Commit(c)
      BY <2>6, CommitKeeps
    <2>7. CASE Rollback(c)
      BY <2>7, AbortKeeps DEF Rollback
    <2> QED
      BY <1>2, <2>2, <2>3, <2>4, <2>5, <2>6, <2>7 DEF Step
  <1> QED
    BY <1>1, <1>2 DEF Next

(* Whatever batches are submitted at a time, refused, failed or repeated,  *)
(* the rows of a batch are committed together: a caller of Submit that     *)
(* finds one job of its batch finds all of them.                           *)
THEOREM BatchIsAtomic == Spec => []AllOrNothing
  <1>1. Init => BatchInv
    BY DEF Init, BatchInv, BatchTypes, CallInv
  <1>2. BatchInv /\ [Next]_vars => BatchInv'
    BY BatchStep
  <1>3. BatchInv => AllOrNothing
    <2> SUFFICES ASSUME BatchInv, NEW r \in jobs, NEW i \in DOMAIN batch[r.by]
                 PROVE  \E s \in jobs : /\ s.key = batch[r.by][i].key
                                        /\ s.def = batch[r.by][i].def
      BY DEF AllOrNothing
    <2>1. RowInv(r) /\ batch[r.by] \in Seq([key : Key, def : Def])
      BY DEF BatchInv, BatchTypes, Row
    <2>2. i \in 1 .. Len(batch[r.by])
      BY <2>1
    <2> QED
      BY <2>1, <2>2 DEF RowInv, Has
  <1> QED
    BY <1>1, <1>2, <1>3, PTL DEF Spec

-----------------------------------------------------------------------------
(* What is answered.                                                       *)

(* answer tells of the first n jobs of the list, by rows that are there.   *)
Told(rows, list, answer, n) ==
  /\ Len(answer) = n
  /\ \A i \in 1 .. n : /\ answer[i] \in rows
                       /\ answer[i].key = list[i].key
                       /\ answer[i].def = list[i].def

ToldInv(c) ==
  /\ pc[c] \in {"idle", "lock", "insert", "commit"} =>
       Told(jobs \cup own[c], batch[c], out[c], at[c])
  /\ pc[c] = "ok" => Told(jobs, batch[c], out[c], Len(batch[c]))

(* A key has one row, committed or under way.                              *)
OneRow ==
  /\ \A r, s \in jobs : r.key = s.key => r = s
  /\ \A c \in Caller : \A r \in own[c], s \in jobs \cup own[c] :
       r.key = s.key => r = s
  /\ \A c, d \in Caller : \A r \in own[c], s \in own[d] :
       r.key = s.key => c = d

AnswerInv ==
  /\ out \in [Caller -> Seq(Row)]
  /\ \A c \in Caller : ToldInv(c)
  /\ OneRow
  /\ events = {<<r.by, r.key>> : r \in jobs}

(* A call that makes a step leaves the others their answers.               *)
LEMMA AnswersStay ==
  ASSUME AnswerInv, NEW c \in Caller, jobs \subseteq jobs',
         \A d \in Caller \ {c} :
           /\ pc'[d] = pc[d] /\ batch'[d] = batch[d] /\ at'[d] = at[d]
           /\ own'[d] = own[d] /\ out'[d] = out[d]
  PROVE  \A d \in Caller \ {c} : ToldInv(d)'
  <1>1. \A R, S, list, answer, n :
          R \subseteq S /\ Told(R, list, answer, n) => Told(S, list, answer, n)
    BY DEF Told
  <1>2. ASSUME NEW d \in Caller \ {c} PROVE ToldInv(d)'
    <2>1. ToldInv(d) /\ jobs \cup own[d] \subseteq jobs' \cup own'[d]
      BY DEF AnswerInv
    <2>2. /\ Told(jobs \cup own[d], batch[d], out[d], at[d])
               => Told(jobs' \cup own'[d], batch[d], out[d], at[d])
          /\ Told(jobs, batch[d], out[d], Len(batch[d]))
               => Told(jobs', batch[d], out[d], Len(batch[d]))
      BY <1>1, <2>1
    <2> QED
      BY <2>1, <2>2 DEF ToldInv
  <1> QED
    BY <1>2

(* A step that makes no row.                                               *)
LEMMA NoRowKeeps ==
  ASSUME BatchInv, AnswerInv, NEW c \in Caller, ToldInv(c)',
         UNCHANGED <<jobs, events>>, out' \in [Caller -> Seq(Row)],
         own'[c] \subseteq own[c],
         \A d \in Caller \ {c} :
           /\ pc'[d] = pc[d] /\ batch'[d] = batch[d] /\ at'[d] = at[d]
           /\ own'[d] = own[d] /\ out'[d] = out[d]
  PROVE  AnswerInv'
  <1>1. \A d \in Caller \ {c} : ToldInv(d)'
    BY AnswersStay
  <1>2. \A d \in Caller : own'[d] \subseteq own[d]
    OBVIOUS
  <1>3. OneRow'
    BY <1>2 DEF AnswerInv, OneRow
  <1> QED
    BY <1>1, <1>3 DEF AnswerInv

(* The rows of one transaction become visible, with their events.          *)
LEMMA CommitAnswers ==
  ASSUME BatchInv, AnswerInv, NEW c \in Caller, Commit(c) PROVE AnswerInv'
  <1>1. BatchTypes /\ CallInv(c) /\ ToldInv(c) /\ OneRow
    BY DEF BatchInv, AnswerInv
  <1>2. PICK answer \in {"ok", "error"} :
          /\ pc' = [pc EXCEPT ![c] = answer]
          /\ own' = [own EXCEPT ![c] = {}]
          /\ jobs' = jobs \cup own[c] /\ UNCHANGED <<batch, at, out>>
          /\ events' = events \cup {<<c, r.key>> : r \in own[c]}
          /\ pc[c] = "commit"
    BY DEF Commit, EndTransaction
  <1>3. /\ pc'[c] = answer /\ own'[c] = {}
        /\ \A d \in Caller \ {c} :
             /\ pc'[d] = pc[d] /\ batch'[d] = batch[d] /\ at'[d] = at[d]
             /\ own'[d] = own[d] /\ out'[d] = out[d]
    BY <1>1, <1>2 DEF BatchTypes
  <1>4. \A d \in Caller \ {c} : ToldInv(d)'
    BY <1>2, <1>3, AnswersStay
  <1>5. ToldInv(c)'
    BY <1>1, <1>2, <1>3 DEF ToldInv, CallInv
  <1>6. OneRow'
    <2>1. ASSUME NEW r \in jobs', NEW s \in jobs', r.key = s.key PROVE r = s
      BY <1>1, <1>2, <2>1 DEF OneRow
    <2>2. ASSUME NEW d \in Caller, NEW r \in own'[d],
                 NEW s \in jobs' \cup own'[d], r.key = s.key
          PROVE  r = s
      <3>1. d # c /\ r \in own[d] /\ s \in jobs \cup own[c] \cup own[d]
        BY <1>2, <1>3, <2>2
      <3> QED
        BY <1>1, <2>2, <3>1 DEF OneRow
    <2>3. ASSUME NEW d \in Caller, NEW e \in Caller, NEW r \in own'[d],
                 NEW s \in own'[e], r.key = s.key
          PROVE  d = e
      <3>1. r \in own[d] /\ s \in own[e]
        BY <1>3, <2>3
      <3> QED
        BY <1>1, <2>3, <3>1 DEF OneRow
    <2> QED
      BY <2>1, <2>2, <2>3 DEF OneRow
  <1>7. events' = {<<r.by, r.key>> : r \in jobs'}
    <2>1. {<<c, r.key>> : r \in own[c]} = {<<r.by, r.key>> : r \in own[c]}
      BY <1>1 DEF CallInv
    <2>2. events = {<<r.by, r.key>> : r \in jobs}
      BY DEF AnswerInv
    <2> QED
      BY <1>2, <2>1, <2>2
  <1>8. out' \in [Caller -> Seq(Row)]
    BY <1>2 DEF AnswerInv
  <1> QED
    BY <1>4, <1>5, <1>6, <1>7, <1>8 DEF AnswerInv

(* One more row is in the answer of a call.                                *)
LEMMA ToldOneMore ==
  ASSUME NEW rows, NEW list, NEW answer \in Seq(Row), NEW n \in Nat,
         Told(rows, list, answer, n), NEW S, rows \subseteq S,
         NEW r \in Row, r \in S,
         r.key = list[n + 1].key, r.def = list[n + 1].def
  PROVE  Told(S, list, Append(answer, r), n + 1)
  <1>1. /\ Len(Append(answer, r)) = n + 1 /\ Append(answer, r)[n + 1] = r
        /\ \A i \in 1 .. n : Append(answer, r)[i] = answer[i]
    BY DEF Told
  <1>2. ASSUME NEW i \in 1 .. n + 1
        PROVE  /\ Append(answer, r)[i] \in S
               /\ Append(answer, r)[i].key = list[i].key
               /\ Append(answer, r)[i].def = list[i].def
    <2>1. CASE i = n + 1
      BY <1>1, <2>1
    <2>2. CASE i \in 1 .. n
      BY <1>1, <2>2 DEF Told
    <2>3. i = n + 1 \/ i \in 1 .. n
      OBVIOUS
    <2> QED
      BY <2>1, <2>2, <2>3
  <1> QED
    BY <1>1, <1>2 DEF Told

(* A job that is inserted is the first of its key: the row is committed    *)
(* nowhere and no other transaction has it under way.                      *)
LEMMA InsertAnswers ==
  ASSUME BatchInv, AnswerInv, NEW c \in Caller, Insert(c) PROVE AnswerInv'
  <1> DEFINE n == at[c] + 1
             job == batch[c][n]
             new == [key |-> job.key, def |-> job.def, by |-> c, place |-> n]
  <1>1. /\ BatchTypes /\ ToldInv(c) /\ OneRow
        /\ out \in [Caller -> Seq(Row)] /\ out[c] \in Seq(Row)
        /\ pc[c] = "insert" /\ at[c] < Len(batch[c])
        /\ UNCHANGED <<events, batch>>
        /\ \A d \in Caller \ {c} : \A r \in own[d] : r.key # job.key
    BY DEF BatchInv, AnswerInv, Insert
  <1>2. at[c] \in Nat /\ n \in Nat /\ job \in [key : Key, def : Def]
    <2>1. batch[c] \in Seq([key : Key, def : Def]) /\ at[c] \in Nat
      BY <1>1 DEF BatchTypes
    <2>2. n \in 1 .. Len(batch[c])
      BY <1>1, <2>1
    <2>3. job \in [key : Key, def : Def]
      BY <2>1, <2>2, MemberOf
    <2> HIDE DEF job
    <2> QED
      BY <2>1, <2>3
  <1>3. Told(jobs \cup own[c], batch[c], out[c], at[c])
    BY <1>1 DEF ToldInv
  <1>4. CASE Conflict(c) /\ UNCHANGED <<out, at>>
    <2>1. /\ pc' = [pc EXCEPT ![c] = "conflict"]
          /\ own' = [own EXCEPT ![c] = {}] /\ UNCHANGED <<jobs, out, at>>
      BY <1>4 DEF Conflict, EndTransaction
    <2>2. /\ pc'[c] = "conflict" /\ own'[c] = {}
          /\ \A d \in Caller \ {c} :
               /\ pc'[d] = pc[d] /\ batch'[d] = batch[d] /\ at'[d] = at[d]
               /\ own'[d] = own[d] /\ out'[d] = out[d]
      BY <1>1, <2>1 DEF BatchTypes
    <2>3. ToldInv(c)'
      BY <2>2 DEF ToldInv
    <2> QED
      BY <1>1, <2>1, <2>2, <2>3, NoRowKeeps
  <1>5. ASSUME NEW r \in Visible(c, job.key), Same(r, job),
               out' = [out EXCEPT ![c] = Append(@, r)],
               at' = [at EXCEPT ![c] = n], UNCHANGED <<jobs, pc, own>>
        PROVE  AnswerInv'
    <2>1. /\ r \in jobs \cup own[c] /\ r \in Row
          /\ r.key = job.key /\ r.def = job.def
      BY <1>1, <1>5 DEF Visible, Same, BatchTypes
    <2>2. Told(jobs \cup own[c], batch[c], Append(out[c], r), n)
      BY <1>1, <1>2, <1>3, <2>1, ToldOneMore
    <2> HIDE DEF n, job
    <2>3. /\ out'[c] = Append(out[c], r) /\ at'[c] = n /\ own'[c] = own[c]
          /\ out' \in [Caller -> Seq(Row)]
          /\ \A d \in Caller \ {c} :
               /\ pc'[d] = pc[d] /\ batch'[d] = batch[d] /\ at'[d] = at[d]
               /\ own'[d] = own[d] /\ out'[d] = out[d]
      BY <1>1, <1>2, <1>5, <2>1 DEF BatchTypes
    <2>4. ToldInv(c)'
      BY <1>1, <1>5, <2>2, <2>3 DEF ToldInv
    <2> QED
      BY <1>1, <1>5, <2>3, <2>4, NoRowKeeps
  <1>6. ASSUME Visible(c, job.key) = {},
               own' = [own EXCEPT ![c] = @ \cup {new}],
               out' = [out EXCEPT ![c] = Append(@, new)],
               at' = [at EXCEPT ![c] = n], UNCHANGED <<jobs, pc>>
        PROVE  AnswerInv'
    <2>1. /\ new \in Row /\ new.key = job.key /\ new.def = job.def
      BY <1>2 DEF Row
    <2>2. own'[c] = own[c] \cup {new}
      BY <1>1, <1>6 DEF BatchTypes
    <2>3. \A s \in jobs \cup own[c] : s.key # new.key
      BY <1>6, <2>1 DEF Visible
    <2>4. \A d \in Caller \ {c} : \A s \in own[d] : s.key # new.key
      BY <1>1, <2>1
    <2> HIDE DEF new
    <2>5. Told(jobs \cup own'[c], batch[c], Append(out[c], new), n)
      <3> DEFINE S == jobs \cup own'[c]
      <3>1. jobs \cup own[c] \subseteq S /\ new \in S
        BY <2>2
      <3> HIDE DEF S
      <3>2. Told(S, batch[c], Append(out[c], new), n)
        BY <1>1, <1>2, <1>3, <2>1, <3>1, ToldOneMore
      <3> QED
        BY <3>2 DEF S
    <2> HIDE DEF n, job
    <2>6. /\ out'[c] = Append(out[c], new) /\ at'[c] = n
          /\ out' \in [Caller -> Seq(Row)]
          /\ \A d \in Caller \ {c} :
               /\ pc'[d] = pc[d] /\ batch'[d] = batch[d] /\ at'[d] = at[d]
               /\ own'[d] = own[d] /\ out'[d] = out[d]
      BY <1>1, <1>2, <1>6, <2>1 DEF BatchTypes
    <2>7. ToldInv(c)'
      BY <1>1, <1>6, <2>5, <2>6 DEF ToldInv
    <2>8. \A d \in Caller \ {c} : ToldInv(d)'
      BY <1>6, <2>6, AnswersStay
    <2>9. OneRow'
      <3>1. ASSUME NEW d \in Caller, NEW r \in own'[d],
                   NEW s \in jobs' \cup own'[d], r.key = s.key
            PROVE  r = s
        BY <1>1, <1>6, <2>2, <2>3, <2>6, <3>1 DEF OneRow
      <3>2. ASSUME NEW d \in Caller, NEW e \in Caller, NEW r \in own'[d],
                   NEW s \in own'[e], r.key = s.key
            PROVE  d = e
        <4>1. CASE d = c /\ e # c
          <5>1. s \in own[e] /\ (r = new \/ r \in own[c])
            BY <2>2, <2>6, <3>2, <4>1
          <5> QED
            BY <1>1, <2>4, <3>2, <4>1, <5>1 DEF OneRow
        <4>2. CASE d # c /\ e = c
          <5>1. r \in own[d] /\ (s = new \/ s \in own[c])
            BY <2>2, <2>6, <3>2, <4>2
          <5> QED
            BY <1>1, <2>4, <3>2, <4>2, <5>1 DEF OneRow
        <4>3. CASE d # c /\ e # c
          <5>1. r \in own[d] /\ s \in own[e]
            BY <2>6, <3>2, <4>3
          <5> QED
            BY <1>1, <3>2, <5>1 DEF OneRow
        <4> QED
          BY <4>1, <4>2, <4>3
      <3> QED
        BY <1>1, <1>6, <3>1, <3>2 DEF OneRow
    <2> QED
      BY <1>1, <1>6, <2>6, <2>7, <2>8, <2>9 DEF AnswerInv
  <1> QED
    BY <1>4, <1>5, <1>6 DEF Insert, Conflict

(* Every step of Submit preserves the invariant.                           *)
LEMMA AnswerStep ==
  ASSUME BatchInv, AnswerInv, [Next]_vars PROVE AnswerInv'
  <1>1. CASE UNCHANGED vars
    <2>1. UNCHANGED <<jobs, events, pc, batch, at, own, out>>
      BY <1>1 DEF vars
    <2>2. \A c \in Caller : ToldInv(c) => ToldInv(c)'
      BY <2>1 DEF ToldInv
    <2>3. OneRow => OneRow'
      BY <2>1 DEF OneRow
    <2> QED
      BY <2>1, <2>2, <2>3 DEF AnswerInv
  <1>2. ASSUME NEW c \in Caller, Step(c) \/ Rollback(c) PROVE AnswerInv'
    <2>1. /\ BatchTypes /\ CallInv(c) /\ ToldInv(c)
          /\ out \in [Caller -> Seq(Row)]
      BY DEF BatchInv, AnswerInv
    <2>2. ASSUME NEW p, pc' = [pc EXCEPT ![c] = p],
                 UNCHANGED <<jobs, events, at, out>>,
                 \A d \in Caller \ {c} : /\ batch'[d] = batch[d]
                                         /\ own'[d] = own[d],
                 own'[c] \subseteq own[c], ToldInv(c)'
          PROVE  AnswerInv'
      <3>1. \A d \in Caller \ {c} : pc'[d] = pc[d]
        BY <2>1, <2>2 DEF BatchTypes
      <3> QED
        BY <2>1, <2>2, <3>1, NoRowKeeps
    <2>3. CASE Begin(c)
      <3>1. PICK b \in Batches, p \in {"lock", "invalid"} :
              /\ batch' = [batch EXCEPT ![c] = b]
              /\ pc' = [pc EXCEPT ![c] = p] /\ pc[c] = "idle"
              /\ UNCHANGED <<jobs, events, at, own, out>>
        BY <2>3 DEF Begin
      <3>2. pc'[c] = p /\ \A d \in Caller \ {c} : batch'[d] = batch[d]
        BY <2>1, <3>1 DEF BatchTypes
      <3>3. ToldInv(c)'
        BY <2>1, <3>1, <3>2 DEF ToldInv, CallInv, Told
      <3> QED
        BY <2>2, <3>1, <3>2, <3>3
    <2>4. CASE Lock(c)
      <3>1. UNCHANGED <<jobs, events, pc, batch, at, own, out>>
        BY <2>4 DEF Lock
      <3>2. ToldInv(c)'
        BY <2>1, <3>1 DEF ToldInv
      <3> QED
        BY <2>1, <3>1, <3>2, NoRowKeeps
    <2>5. CASE Locked(c) \/ Inserted(c)
      <3>1. PICK p \in {"insert", "commit"} :
              /\ pc' = [pc EXCEPT ![c] = p] /\ pc[c] \in {"lock", "insert"}
              /\ UNCHANGED <<jobs, events, batch, at, own, out>>
        BY <2>5 DEF Locked, Inserted
      <3>2. pc'[c] = p
        BY <2>1, <3>1 DEF BatchTypes
      <3>3. ToldInv(c)'
        BY <2>1, <3>1, <3>2 DEF ToldInv
      <3> QED
        BY <2>2, <3>1, <3>3
    <2>6. CASE Insert(c)
      BY <2>6, InsertAnswers
    <2>7. CASE Commit(c)
      BY <2>7, CommitAnswers
    <2>8. CASE Rollback(c)
      <3>1. /\ pc' = [pc EXCEPT ![c] = "error"]
            /\ own' = [own EXCEPT ![c] = {}]
            /\ UNCHANGED <<jobs, events, batch, at, out>>
        BY <2>8 DEF Rollback, EndTransaction
      <3>2. /\ pc'[c] = "error" /\ own'[c] = {}
            /\ \A d \in Caller \ {c} : own'[d] = own[d]
        BY <2>1, <3>1 DEF BatchTypes
      <3>3. ToldInv(c)'
        BY <3>2 DEF ToldInv
      <3> QED
        BY <2>2, <3>1, <3>2, <3>3
    <2> QED
      BY <1>2, <2>3, <2>4, <2>5, <2>6, <2>7, <2>8 DEF Step
  <1> QED
    BY <1>1, <1>2 DEF Next

(* Whoever Submit answers is told of the one row of each of its keys, in   *)
(* the definition it asked for, and each row has one SUBMITTED event,      *)
(* however many batches share the keys and however often they are          *)
(* submitted again.                                                        *)
THEOREM SubmitIsIdempotent == Spec => []AnswersAgree
  <1>1. Init => BatchInv /\ AnswerInv
    BY DEF Init, BatchInv, BatchTypes, CallInv, AnswerInv, ToldInv, Told,
           OneRow
  <1>2. BatchInv /\ AnswerInv /\ [Next]_vars => BatchInv' /\ AnswerInv'
    BY BatchStep, AnswerStep
  <1>3. BatchInv /\ AnswerInv => AnswersAgree
    <2> SUFFICES ASSUME BatchInv, AnswerInv PROVE AnswersAgree
      OBVIOUS
    <2>1. ASSUME NEW c \in Caller, pc[c] = "ok"
          PROVE  /\ Len(out[c]) = Len(batch[c])
                 /\ \A i \in DOMAIN batch[c] :
                      /\ out[c][i] \in jobs
                      /\ out[c][i].key = batch[c][i].key
                      /\ out[c][i].def = batch[c][i].def
      <3>1. Told(jobs, batch[c], out[c], Len(batch[c]))
        BY <2>1 DEF AnswerInv, ToldInv
      <3>2. DOMAIN batch[c] = 1 .. Len(batch[c])
        BY DEF BatchInv, BatchTypes
      <3> QED
        BY <3>1, <3>2 DEF Told
    <2> QED
      BY <2>1 DEF AnswersAgree, AnswerInv, OneRow
  <1> QED
    BY <1>1, <1>2, <1>3, PTL DEF Spec
=============================================================================

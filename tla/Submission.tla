----------------------------- MODULE Submission -----------------------------
(***************************************************************************)
(* Store.Submit statement by statement: batches of jobs are submitted      *)
(* concurrently, with keys in common, by clients that do not learn the     *)
(* outcome and submit again.  Every statement of a transaction is a step;  *)
(* the statements see what is committed and what the transaction itself    *)
(* did.  Keys are numbers in the order of sort.Strings.                    *)
(***************************************************************************)
EXTENDS Integers, Sequences, FiniteSets

CONSTANTS
  Caller,   \* calls of Submit
  Key,      \* idempotency keys
  Def,      \* the rest of a definition
  Batches,  \* batches that are submitted: sequences of [key, def]
  MaxJobs,  \* most jobs of a batch (1000)
  Hash,     \* hashtextextended, on the keys
  MaxErrors \* bound on errors of the database or the connection

(* Only whether two hashes are equal matters, so they may be numbered.     *)
(* That they can be numbered in the order of the keys is true of every     *)
(* hash without collisions among the keys in use.                          *)
ASSUME SubmissionAssumption ==
  /\ Key \subseteq Nat /\ MaxJobs \in Nat /\ MaxErrors \in Nat
  /\ Batches \subseteq Seq([key : Key, def : Def])
  /\ Hash \in [Key -> Nat]
  /\ \A a, b \in Key : a <= b => Hash[a] <= Hash[b]

VARIABLES
  jobs,    \* the committed rows
  events,  \* committed SUBMITTED events, by call and key
  pc,      \* pc[c]: where the call is
  batch,   \* batch[c]: the jobs it was given
  keys,    \* keys[c]: the sorted keys not locked yet
  held,    \* held[c]: advisory locks it holds
  at,      \* at[c]: jobs of the batch that are inserted or found
  own,     \* own[c]: rows it inserted and has not committed
  out,     \* out[c]: the rows of its answer
  errors

vars == <<jobs, events, pc, batch, keys, held, at, own, out, errors>>

(* The id of a row is the call that made it and its place in the batch.    *)
Row == [key : Key, def : Def, by : Caller, place : Nat]

TypeOK ==
  /\ jobs \subseteq Row
  /\ events \subseteq (Caller \X Key)
  /\ pc \in [Caller -> {"idle", "lock", "insert", "commit", "ok", "invalid",
                        "conflict", "error"}]
  /\ batch \in [Caller -> Seq([key : Key, def : Def])]
  /\ keys \in [Caller -> Seq(Key)]
  /\ held \in [Caller -> SUBSET Nat]
  /\ at \in [Caller -> Nat]
  /\ own \in [Caller -> SUBSET Row]
  /\ out \in [Caller -> Seq(Row)]
  /\ errors \in 0 .. MaxErrors

Init ==
  /\ jobs = {} /\ events = {}
  /\ pc = [c \in Caller |-> "idle"]
  /\ batch = [c \in Caller |-> <<>>] /\ keys = [c \in Caller |-> <<>>]
  /\ held = [c \in Caller |-> {}] /\ at = [c \in Caller |-> 0]
  /\ own = [c \in Caller |-> {}] /\ out = [c \in Caller |-> <<>>]
  /\ errors = 0

-----------------------------------------------------------------------------
KeysOf(jobList) == [i \in DOMAIN jobList |-> jobList[i].key]

Ascending(s) == \A i, k \in DOMAIN s : i < k => s[i] <= s[k]

Rearranged(s, t) ==
  /\ DOMAIN s = DOMAIN t
  /\ \A k \in Key : Cardinality({i \in DOMAIN s : s[i] = k})
                      = Cardinality({i \in DOMAIN t : t[i] = k})

(* Mutant: the keys are locked in the order of the batch.                  *)
SameKeys(s, t) == t = s

SortedKeys(s, t) == Rearranged(s, t) /\ Ascending(t)

(* The checks before the transaction, and its beginning.                   *)
Begin(c) ==
  /\ pc[c] = "idle"
  /\ \E b \in Batches :
       /\ batch' = [batch EXCEPT ![c] = b]
       /\ \/ /\ Len(b) \in 1 .. MaxJobs
             /\ pc' = [pc EXCEPT ![c] = "lock"]
             /\ \E t \in [1 .. Len(b) -> Key] :
                  /\ SortedKeys(KeysOf(b), t)
                  /\ keys' = [keys EXCEPT ![c] = t]
          \/ /\ Len(b) \notin 1 .. MaxJobs
             /\ pc' = [pc EXCEPT ![c] = "invalid"]
             /\ UNCHANGED keys
  /\ UNCHANGED <<jobs, events, held, at, own, out, errors>>

Free(c, lock) == \A d \in Caller \ {c} : lock \notin held[d]

(* pg_advisory_xact_lock waits while another transaction holds the lock.   *)
Lock(c) ==
  /\ pc[c] = "lock" /\ keys[c] # <<>>
  /\ Free(c, Hash[Head(keys[c])])
  /\ held' = [held EXCEPT ![c] = @ \cup {Hash[Head(keys[c])]}]
  /\ keys' = [keys EXCEPT ![c] = Tail(@)]
  /\ UNCHANGED <<jobs, events, pc, batch, at, own, out, errors>>

Locked(c) ==
  /\ pc[c] = "lock" /\ keys[c] = <<>>
  /\ pc' = [pc EXCEPT ![c] = "insert"]
  /\ UNCHANGED <<jobs, events, batch, keys, held, at, own, out, errors>>

(* The transaction ends: its locks are free.                               *)
EndTransaction(c, answer) ==
  /\ pc' = [pc EXCEPT ![c] = answer]
  /\ held' = [held EXCEPT ![c] = {}]
  /\ own' = [own EXCEPT ![c] = {}]
  /\ keys' = [keys EXCEPT ![c] = <<>>]

Visible(c, key) == {r \in jobs \cup own[c] : r.key = key}

(* Mutant: what was inserted before a conflict is committed.               *)
ConflictCommits(c) ==
  /\ jobs' = jobs \cup own[c]
  /\ EndTransaction(c, "conflict")

Conflict(c) == EndTransaction(c, "conflict") /\ UNCHANGED jobs

(* Mutant: a row found is not compared.                                    *)
SameWhatever(row, job) == TRUE

Same(row, job) == row.def = job.def

(* One job: the insertion (it would wait for another transaction that      *)
(* inserted the key), the row, and its comparison.                         *)
Insert(c) ==
  LET job == batch[c][at[c] + 1]
      new == [key |-> job.key, def |-> job.def, by |-> c, place |-> at[c] + 1]
      found == Visible(c, job.key)
  IN /\ pc[c] = "insert" /\ at[c] < Len(batch[c])
     /\ \A d \in Caller \ {c} : \A r \in own[d] : r.key # job.key
     /\ \/ /\ found = {}
           /\ own' = [own EXCEPT ![c] = @ \cup {new}]
           /\ out' = [out EXCEPT ![c] = Append(@, new)]
           /\ at' = [at EXCEPT ![c] = @ + 1]
           /\ UNCHANGED <<jobs, pc, held, keys>>
        \/ \E r \in found :
             IF Same(r, job)
             THEN /\ out' = [out EXCEPT ![c] = Append(@, r)]
                  /\ at' = [at EXCEPT ![c] = @ + 1]
                  /\ UNCHANGED <<jobs, pc, held, own, keys>>
             ELSE Conflict(c) /\ UNCHANGED <<out, at>>
     /\ UNCHANGED <<events, batch, errors>>

Inserted(c) ==
  /\ pc[c] = "insert" /\ at[c] = Len(batch[c])
  /\ pc' = [pc EXCEPT ![c] = "commit"]
  /\ UNCHANGED <<jobs, events, batch, keys, held, at, own, out, errors>>

(* An event was written with every new row.  The connection may be lost    *)
(* once the transaction is committed: then the call fails all the same.    *)
Commit(c) ==
  /\ pc[c] = "commit"
  /\ jobs' = jobs \cup own[c]
  /\ events' = events \cup {<<c, r.key>> : r \in own[c]}
  /\ \/ EndTransaction(c, "ok") /\ UNCHANGED errors
     \/ /\ errors < MaxErrors /\ errors' = errors + 1
        /\ EndTransaction(c, "error")
  /\ UNCHANGED <<batch, at, out>>

(* A statement fails or the request is cancelled: the deferred Rollback.   *)
Rollback(c) ==
  /\ pc[c] \in {"lock", "insert", "commit"} /\ errors < MaxErrors
  /\ errors' = errors + 1
  /\ EndTransaction(c, "error")
  /\ UNCHANGED <<jobs, events, batch, at, out>>

-----------------------------------------------------------------------------
Step(c) ==
  Begin(c) \/ Lock(c) \/ Locked(c) \/ Insert(c) \/ Inserted(c) \/ Commit(c)

Next == \E c \in Caller : Step(c) \/ Rollback(c)

Spec == Init /\ [][Next]_vars

(* Statements that can run are run; the database fails when it likes.      *)
Fairness == \A c \in Caller : WF_vars(Step(c))

LiveSpec == Spec /\ Fairness

-----------------------------------------------------------------------------
(* Properties.                                                             *)

Done(c) == pc[c] \in {"ok", "invalid", "conflict", "error"}

(* Whoever is answered about a key is told of the same row, in the         *)
(* definition it asked for, and no key has two rows or two events: a       *)
(* client that submits again learns its jobs and makes no new ones.        *)
AnswersAgree ==
  /\ \A c \in Caller : pc[c] = "ok" =>
       /\ Len(out[c]) = Len(batch[c])
       /\ \A i \in DOMAIN batch[c] :
            /\ out[c][i] \in jobs
            /\ out[c][i].key = batch[c][i].key
            /\ out[c][i].def = batch[c][i].def
  /\ \A r, s \in jobs : r.key = s.key => r = s
  /\ events = {<<r.by, r.key>> : r \in jobs}

(* A batch is committed as a whole or not at all: if a row was made by a   *)
(* call, there is a row for every job of its batch, in its definition,     *)
(* even if the caller was told of an error.                                *)
AllOrNothing ==
  \A r \in jobs : \A i \in DOMAIN batch[r.by] :
    \E s \in jobs : /\ s.key = batch[r.by][i].key
                    /\ s.def = batch[r.by][i].def

(* c waits for a lock that d holds.                                        *)
Waits(c, d) ==
  /\ pc[c] = "lock" /\ keys[c] # <<>> /\ c # d
  /\ Hash[Head(keys[c])] \in held[d]

(* Transactions wait in the order of the locks: whoever holds what another *)
(* waits for waits, if at all, for a later lock.  So no cycle of waiting   *)
(* transactions can close, however the batches overlap.                    *)
WaitsAscend ==
  \A c, d, e \in Caller : Waits(c, d) /\ Waits(d, e) =>
    Hash[Head(keys[c])] < Hash[Head(keys[d])]

(* Every submission is answered although no call is made to fail.          *)
SubmissionEnds == \A c \in Caller : pc[c] = "lock" ~> Done(c)
=============================================================================

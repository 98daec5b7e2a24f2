--------------------------- MODULE HistoryProofs ---------------------------
(***************************************************************************)
(* Theorems about what JobStore keeps of the past: the artifacts, the      *)
(* checkpoints handed to attempts, the deadlines, the events, the workers  *)
(* that were released and the capacity of the others.  All of them follow  *)
(* from one account of what a transaction does to the rows of a job.       *)
(***************************************************************************)
EXTENDS JobStoreProofs

(* What may become of an attempt: its worker and its checkpoint stay, it   *)
(* does not become active again, and its lease does not pass its deadline. *)
Evolved(a, b) ==
  /\ b.worker = a.worker /\ b.checkpoint = a.checkpoint
  /\ b.state \in Active => a.state \in Active
  /\ a.lease <= a.deadline => b.lease <= b.deadline

Evolves(j) ==
  /\ DOMAIN attempts'[j] = DOMAIN attempts[j]
  /\ \A n \in DOMAIN attempts[j] : Evolved(attempts[j][n], attempts'[j][n])

(* The latest attempt records artifacts, perhaps none.                     *)
Records(j) ==
  \E new \in Seq(ArtifactRow) :
    /\ artifacts'[j] = artifacts[j] \o new
    /\ \A k \in DOMAIN new : new[k].attempt = Len(attempts[j])

(* An attempt is added, and the other jobs are left alone.                 *)
Extends(j) ==
  /\ artifacts'[j] = artifacts[j]
  /\ \A i \in Job \ {j} : attempts'[i] = attempts[i]
  /\ \E w \in Worker, c \in 0 .. Len(artifacts[j]) :
       /\ workers[w].state = "ACTIVE" /\ Fits(j, w)
       /\ LatestCheckpoint(j, c)
       /\ attempts'[j] = Append(attempts[j],
            [state |-> "LEASED", worker |-> w,
             lease |-> least(LeaseSeconds, Timeout[j]),
             deadline |-> Timeout[j], checkpoint |-> c])

-----------------------------------------------------------------------------
(* The ways an attempt row is written.                                     *)
LEMMA EvolvedSame == ASSUME NEW a PROVE Evolved(a, a)
  BY DEF Evolved

LEMMA EvolvedState ==
  ASSUME NEW a \in Attempt, NEW st, st \in Active => a.state \in Active
  PROVE  Evolved(a, [a EXCEPT !.state = st])
  BY DEF Evolved, Attempt

LEMMA EvolvedLease ==
  ASSUME NEW a \in Attempt, NEW t \in Nat, t <= a.deadline
  PROVE  Evolved(a, [a EXCEPT !.lease = t])
  BY DEF Evolved, Attempt

LEMMA EvolvedAged == ASSUME NEW a \in Attempt PROVE Evolved(a, Aged(a))
  <1> DEFINE t == IF a.lease > 0 THEN a.lease - 1 ELSE 0
             d == IF a.deadline > 0 THEN a.deadline - 1 ELSE 0
  <1>1. a.lease <= a.deadline => t <= d
    BY DEF Attempt
  <1>2. Aged(a) = [a EXCEPT !.lease = t, !.deadline = d]
    BY DEF Aged
  <1> HIDE DEF t, d
  <1> QED
    BY <1>1, <1>2 DEF Evolved, Attempt

(* Rows that stay as they are.                                             *)
LEMMA NothingEvolves ==
  ASSUME NEW j \in Job, attempts'[j] = attempts[j] PROVE Evolves(j)
  BY EvolvedSame DEF Evolves

LEMMA NothingRecorded ==
  ASSUME TypeOK, NEW j \in Job, artifacts'[j] = artifacts[j] PROVE Records(j)
  <1>1. artifacts[j] \in Seq(ArtifactRow)
    BY DEF TypeOK
  <1>2. PICK new \in Seq(ArtifactRow) :
          Len(new) = 0 /\ artifacts[j] \o new = artifacts[j]
    <2>1. /\ <<>> \in Seq(ArtifactRow) /\ Len(<<>>) = 0
          /\ artifacts[j] \o <<>> = artifacts[j]
      BY <1>1
    <2> QED
      BY <2>1, Zenon
  <1>3. DOMAIN new = {}
    BY <1>2
  <1> QED
    BY <1>2, <1>3, Zenon DEF Records

(* One attempt of job i is written.                                        *)
LEMMA OneEvolves ==
  ASSUME TypeOK, NEW i \in Job, NEW n \in DOMAIN attempts[i], NEW b,
         attempts' = [attempts EXCEPT ![i][n] = b],
         Evolved(attempts[i][n], b), NEW j \in Job
  PROVE  Evolves(j)
  <1>1. attempts \in [Job -> Seq(Attempt)]
    BY DEF TypeOK
  <1>2. CASE j # i
    BY <1>1, <1>2, NothingEvolves
  <1>3. CASE j = i
    <2>1. attempts'[j] = [attempts[j] EXCEPT ![n] = b]
      BY <1>1, <1>3
    <2> QED
      BY <1>3, <2>1, EvolvedSame DEF Evolves
  <1> QED
    BY <1>2, <1>3

(* A fenced attempt records artifacts.                                     *)
LEMMA ReportRecords ==
  ASSUME IInv, NEW i \in Job, NEW n \in DOMAIN attempts[i],
         attempts[i][n].state \in Active, NEW u \in Upload,
         RecordArtifacts(i, n, u), NEW j \in Job
  PROVE  Records(j)
  <1>1. TypeOK
    BY DEF IInv
  <1>2. PICK new \in Seq(ArtifactRow) :
          /\ artifacts' = [artifacts EXCEPT ![i] = @ \o new]
          /\ \A k \in DOMAIN new : new[k].attempt = n
    BY <1>1, RecordArtifactsAppends, Zenon
  <1>3. n = Len(attempts[i])
    BY ActiveIsLatest
  <1>4. CASE j = i
    BY <1>1, <1>2, <1>3, <1>4, Zenon DEF Records, TypeOK
  <1>5. CASE j # i
    BY <1>1, <1>2, <1>5, NothingRecorded DEF TypeOK
  <1> QED
    BY <1>4, <1>5

(* What a transaction does to the rows of a job.                           *)
LEMMA History ==
  ASSUME IInv, [Next]_vars, NEW j \in Job
  PROVE  (Evolves(j) /\ Records(j)) \/ Extends(j)
  <1>1. TypeOK /\ attempts \in [Job -> Seq(Attempt)]
    BY DEF IInv, TypeOK
  <1>2. \A i \in Job : \A n \in DOMAIN attempts[i] : attempts[i][n] \in Attempt
    BY <1>1
  <1>3. ASSUME NEW batch \in SUBSET Job, Submit(batch)
        PROVE  Evolves(j) /\ Records(j)
    BY <1>1, <1>3, NothingEvolves, NothingRecorded DEF Submit
  <1>4. ASSUME NEW i \in Job, Cancel(i) PROVE Evolves(j) /\ Records(j)
    <2>1. Records(j)
      BY <1>1, <1>4, NothingRecorded DEF Cancel
    <2>2. CASE j # i
      BY <1>1, <1>4, <2>1, <2>2, NothingEvolves DEF Cancel
    <2>3. CASE j = i
      <3>1. DOMAIN attempts'[j] = DOMAIN attempts[j]
        BY <1>1, <1>4, <2>3 DEF Cancel
      <3>2. ASSUME NEW n \in DOMAIN attempts[j]
            PROVE  Evolved(attempts[j][n], attempts'[j][n])
        <4>1. Evolved(attempts[j][n],
                      [attempts[j][n] EXCEPT !.state = "CANCELLED"])
          BY <1>2, EvolvedState, Zenon DEF Active
        <4>2. attempts'[j][n] \in
                {attempts[j][n], [attempts[j][n] EXCEPT !.state = "CANCELLED"]}
          BY <1>1, <1>4, <2>3 DEF Cancel
        <4> QED
          BY <4>1, <4>2, EvolvedSame
      <3> QED
        BY <2>1, <3>1, <3>2 DEF Evolves
    <2> QED
      BY <2>2, <2>3
  <1>5. ASSUME NEW i \in Job, Retry(i) PROVE Evolves(j) /\ Records(j)
    BY <1>1, <1>5, NothingEvolves, NothingRecorded DEF Retry
  <1>6. ASSUME NEW w \in Worker, NEW s \in Session,
               RegisterWorker(w, s) \/ ReleaseWorker(w, s)
        PROVE  Evolves(j) /\ Records(j)
    BY <1>1, <1>6, NothingEvolves, NothingRecorded
    DEF RegisterWorker, ReleaseWorker
  <1>7. ASSUME NEW w \in Worker, NEW s \in Session, LeaseJob(w, s)
        PROVE  (Evolves(j) /\ Records(j)) \/ Extends(j)
    <2>1. PICK i \in Job : \E c \in 0 .. Len(artifacts[i]) :
            /\ LatestCheckpoint(i, c) /\ Fits(i, w)
            /\ attempts' = [attempts EXCEPT ![i] = Append(@,
                 [state |-> "LEASED", worker |-> w,
                  lease |-> least(LeaseSeconds, Timeout[i]),
                  deadline |-> Timeout[i], checkpoint |-> c])]
      BY <1>7, Zenon DEF LeaseJob
    <2>2. workers[w].state = "ACTIVE" /\ artifacts'[j] = artifacts[j]
      BY <1>7 DEF LeaseJob
    <2>3. CASE j # i
      BY <1>1, <2>1, <2>2, <2>3, NothingEvolves, NothingRecorded
    <2>4. CASE j = i
      BY <1>1, <2>1, <2>2, <2>4 DEF Extends
    <2> QED
      BY <2>3, <2>4
  <1>8. ASSUME NEW w \in Worker, NEW s \in Session, NEW i \in Job,
               NEW n \in DOMAIN attempts[i], Heartbeat(w, s, i, n)
        PROVE  Evolves(j) /\ Records(j)
    <2> DEFINE t == Renewed(attempts[i][n])
    <2>1. t \in Nat /\ t <= attempts[i][n].deadline
      <3>1. attempts[i][n].deadline \in Nat
        BY <1>2 DEF Attempt
      <3> QED
        BY <3>1, JobAssumption DEF Renewed, least
    <2>2. attempts' = [attempts EXCEPT ![i][n] =
                         [attempts[i][n] EXCEPT !.lease = t]]
      BY <1>1, <1>8 DEF Heartbeat
    <2> HIDE DEF t
    <2>3. Evolved(attempts[i][n], [attempts[i][n] EXCEPT !.lease = t])
      BY <1>2, <2>1, EvolvedLease
    <2>4. Evolves(j)
      BY <1>1, <2>2, <2>3, OneEvolves, Zenon
    <2> QED
      BY <1>1, <1>8, <2>4, NothingRecorded DEF Heartbeat
  <1>9. ASSUME NEW i \in Job, NEW n \in DOMAIN attempts[i],
               attempts[i][n].state \in Active,
               NEW st, attempts' = [attempts EXCEPT ![i][n].state = st]
        PROVE  Evolves(j)
    <2>1. attempts' = [attempts EXCEPT ![i][n] =
                         [attempts[i][n] EXCEPT !.state = st]]
      BY <1>1, <1>9
    <2>2. Evolved(attempts[i][n], [attempts[i][n] EXCEPT !.state = st])
      BY <1>2, <1>9, EvolvedState
    <2> QED
      BY <1>1, <2>1, <2>2, OneEvolves, Zenon
  <1>10. ASSUME NEW w \in Worker, NEW s \in Session, NEW i \in Job,
                NEW n \in DOMAIN attempts[i], StartAttempt(w, s, i, n)
         PROVE  Evolves(j) /\ Records(j)
    <2>1. Evolves(j)
      BY <1>9, <1>10, Zenon DEF StartAttempt, Fenced
    <2> QED
      BY <1>1, <1>10, <2>1, NothingRecorded DEF StartAttempt
  <1>11. ASSUME NEW w \in Worker, NEW s \in Session, NEW i \in Job,
                NEW n \in DOMAIN attempts[i], NEW u \in Upload,
                \/ ReportProgress(w, s, i, n, u)
                \/ CompleteAttempt(w, s, i, n, u)
                \/ FailAttempt(w, s, i, n, u)
         PROVE  Evolves(j) /\ Records(j)
    <2>1. attempts[i][n].state \in Active /\ RecordArtifacts(i, n, u)
      BY <1>11 DEF ReportProgress, CompleteAttempt, FailAttempt, Fenced
    <2>2. Records(j)
      BY <2>1, ReportRecords
    <2>3. CASE ReportProgress(w, s, i, n, u)
      BY <2>2, <2>3, NothingEvolves DEF ReportProgress
    <2>4. CASE CompleteAttempt(w, s, i, n, u)
      BY <1>9, <2>1, <2>2, <2>4, Zenon DEF CompleteAttempt
    <2>5. CASE FailAttempt(w, s, i, n, u)
      BY <1>9, <2>1, <2>2, <2>5, Zenon DEF FailAttempt
    <2> QED
      BY <1>11, <2>3, <2>4, <2>5
  <1>12. ASSUME NEW batch \in SUBSET Job, Reap(batch)
         PROVE  Evolves(j) /\ Records(j)
    <2>1. Records(j)
      BY <1>1, <1>12, NothingRecorded DEF Reap
    <2>2. CASE j \notin batch
      BY <1>1, <1>12, <2>1, <2>2, NothingEvolves DEF Reap
    <2>3. CASE j \in batch
      <3> DEFINE n == ExpiredAttempt(j)
      <3>1. n \in DOMAIN attempts[j] /\ attempts[j][n].state \in Active
        BY <1>12, <2>3 DEF Reap, Reapable, ExpiredAttempt, Expired
      <3>2. attempts'[j] = [attempts[j] EXCEPT ![n].state = "EXPIRED"]
        BY <1>12, <2>3 DEF Reap
      <3> HIDE DEF n
      <3>3. Evolved(attempts[j][n], [attempts[j][n] EXCEPT !.state = "EXPIRED"])
        BY <1>2, <3>1, EvolvedState
      <3>4. Evolves(j)
        BY <1>1, <3>1, <3>2, <3>3, EvolvedSame DEF Evolves
      <3> QED
        BY <2>1, <3>4
    <2> QED
      BY <2>2, <2>3
  <1>13. ASSUME Tick PROVE Evolves(j) /\ Records(j)
    <2>1. attempts'[j] = [n \in DOMAIN attempts[j] |-> Aged(attempts[j][n])]
      BY <1>13 DEF Tick
    <2>2. Evolves(j)
      BY <1>2, <2>1, EvolvedAged DEF Evolves
    <2> QED
      BY <1>1, <1>13, <2>2, NothingRecorded DEF Tick
  <1>14. CASE UNCHANGED vars
    BY <1>1, <1>14, NothingEvolves, NothingRecorded DEF vars
  <1> QED
    BY <1>3, <1>4, <1>5, <1>6, <1>7, <1>8, <1>10, <1>11, <1>12, <1>13, <1>14
    DEF Next

-----------------------------------------------------------------------------
(* Artifacts and checkpoints.  The invariant adds that no row names an     *)
(* attempt still to come and no attempt a row still to come.               *)
HistoryInv(j) ==
  /\ \A i \in DOMAIN artifacts[j] :
       artifacts[j][i].attempt <= Len(attempts[j])
  /\ \A i, k \in DOMAIN artifacts[j] :
       i <= k => artifacts[j][i].attempt <= artifacts[j][k].attempt
  /\ \A n \in DOMAIN attempts[j] :
       LET c == attempts[j][n].checkpoint IN
       /\ c <= Len(artifacts[j])
       /\ c > 0 => artifacts[j][c].attempt < n
       /\ \A i \in DOMAIN artifacts[j] :
            i > c /\ artifacts[j][i].artifact.kind = "checkpoint" =>
              artifacts[j][i].attempt >= n

(* The rows of a job, typed.                                               *)
LEMMA RowTypes ==
  ASSUME TypeOK, NEW j \in Job
  PROVE  /\ attempts[j] \in Seq(Attempt) /\ Len(attempts[j]) \in Nat
         /\ DOMAIN attempts[j] = 1 .. Len(attempts[j])
         /\ \A n \in DOMAIN attempts[j] : attempts[j][n].checkpoint \in Nat
         /\ artifacts[j] \in Seq(ArtifactRow) /\ Len(artifacts[j]) \in Nat
         /\ DOMAIN artifacts[j] = 1 .. Len(artifacts[j])
         /\ \A i \in DOMAIN artifacts[j] : artifacts[j][i].attempt \in Nat
  <1>1. attempts[j] \in Seq(Attempt) /\ artifacts[j] \in Seq(ArtifactRow)
    BY DEF TypeOK
  <1>2. \A n \in DOMAIN attempts[j] : attempts[j][n] \in Attempt
    BY <1>1
  <1>3. \A i \in DOMAIN artifacts[j] : artifacts[j][i] \in ArtifactRow
    BY <1>1
  <1> QED
    BY <1>1, <1>2, <1>3 DEF Attempt, ArtifactRow

LEMMA RecordsKeep ==
  ASSUME TypeOK, TypeOK', NEW j \in Job, HistoryInv(j), Evolves(j),
         Records(j)
  PROVE  HistoryInv(j)'
  <1> DEFINE A == artifacts[j]
             B == artifacts'[j]
             N == Len(attempts[j])
  <1>1. /\ attempts[j] \in Seq(Attempt) /\ N \in Nat
        /\ DOMAIN attempts[j] = 1 .. N
        /\ \A n \in 1 .. N : attempts[j][n].checkpoint \in Nat
        /\ A \in Seq(ArtifactRow) /\ Len(A) \in Nat
        /\ DOMAIN A = 1 .. Len(A)
        /\ \A i \in 1 .. Len(A) : A[i].attempt \in Nat
    BY RowTypes
  <1>2. PICK new \in Seq(ArtifactRow) :
          B = A \o new /\ \A k \in DOMAIN new : new[k].attempt = N
    BY DEF Records
  <1>3. /\ Len(B) = Len(A) + Len(new) /\ Len(new) \in Nat
        /\ DOMAIN B = 1 .. Len(B)
        /\ \A i \in 1 .. Len(A) : B[i] = A[i]
        /\ \A i \in 1 .. Len(B) : i > Len(A) => B[i].attempt = N
    <2>1. /\ Len(new) \in Nat /\ DOMAIN new = 1 .. Len(new)
          /\ Len(B) = Len(A) + Len(new) /\ DOMAIN B = 1 .. Len(B)
          /\ \A i \in 1 .. Len(A) : B[i] = A[i]
      BY <1>1, <1>2
    <2>2. \A i \in 1 .. Len(B) :
            i > Len(A) => B[i] = new[i - Len(A)] /\ i - Len(A) \in DOMAIN new
      BY <1>1, <1>2, <2>1
    <2> QED
      BY <1>2, <2>1, <2>2, Zenon
  <1>4. /\ DOMAIN attempts'[j] = 1 .. N
        /\ \A n \in 1 .. N :
             attempts'[j][n].checkpoint = attempts[j][n].checkpoint
    BY <1>1, Zenon DEF Evolves, Evolved
  <1>5. Len(attempts'[j]) = N
    <2>1. attempts'[j] \in Seq(Attempt)
      BY DEF TypeOK
    <2>2. Len(attempts'[j]) \in Nat /\ 1 .. Len(attempts'[j]) = 1 .. N
      BY <1>4, <2>1
    <2> QED
      BY <1>1, <2>2
  <1>6. /\ \A i \in 1 .. Len(A) : A[i].attempt <= N
        /\ \A i, k \in 1 .. Len(A) : i <= k => A[i].attempt <= A[k].attempt
        /\ \A n \in 1 .. N :
             /\ attempts[j][n].checkpoint <= Len(A)
             /\ attempts[j][n].checkpoint > 0 =>
                  A[attempts[j][n].checkpoint].attempt < n
             /\ \A i \in 1 .. Len(A) :
                  i > attempts[j][n].checkpoint
                  /\ A[i].artifact.kind = "checkpoint" => A[i].attempt >= n
    BY <1>1, Zenon DEF HistoryInv
  <1> HIDE DEF A, B, N
  <1>7. \A i \in 1 .. Len(B) :
          \/ i \in 1 .. Len(A) /\ B[i] = A[i]
          \/ i \notin 1 .. Len(A) /\ i > Len(A) /\ B[i].attempt = N
    BY <1>1, <1>3
  <1>8. \A i \in 1 .. Len(B) : B[i].attempt \in Nat /\ B[i].attempt <= N
    BY <1>1, <1>6, <1>7
  <1>9. ASSUME NEW i \in 1 .. Len(B), NEW k \in 1 .. Len(B), i <= k
        PROVE  B[i].attempt <= B[k].attempt
    <2>1. CASE k \in 1 .. Len(A)
      <3>1. i \in 1 .. Len(A)
        BY <1>1, <1>9, <2>1, <1>3
      <3> QED
        BY <1>6, <1>7, <1>9, <2>1, <3>1
    <2>2. CASE k \notin 1 .. Len(A)
      BY <1>7, <1>8, <2>2
    <2> QED
      BY <2>1, <2>2
  <1>10. ASSUME NEW n \in 1 .. N
         PROVE  /\ attempts[j][n].checkpoint <= Len(B)
                /\ attempts[j][n].checkpoint > 0 =>
                     B[attempts[j][n].checkpoint].attempt < n
                /\ \A i \in 1 .. Len(B) :
                     i > attempts[j][n].checkpoint
                     /\ B[i].artifact.kind = "checkpoint" => B[i].attempt >= n
    <2> DEFINE c == attempts[j][n].checkpoint
    <2>1. /\ c \in Nat /\ c <= Len(A)
          /\ c > 0 => A[c].attempt < n
          /\ \A i \in 1 .. Len(A) :
               i > c /\ A[i].artifact.kind = "checkpoint" => A[i].attempt >= n
      BY <1>1, <1>6
    <2> HIDE DEF c
    <2>2. c <= Len(B)
      BY <1>1, <1>3, <2>1
    <2>3. ASSUME c > 0 PROVE B[c].attempt < n
      <3>1. c \in 1 .. Len(A) /\ c \in 1 .. Len(B)
        BY <1>1, <2>1, <2>2, <2>3
      <3>2. B[c] = A[c]
        BY <1>7, <3>1
      <3> QED
        BY <2>1, <2>3, <3>2
    <2>4. ASSUME NEW i \in 1 .. Len(B), i > c,
                 B[i].artifact.kind = "checkpoint"
          PROVE  B[i].attempt >= n
      <3>1. CASE i \in 1 .. Len(A)
        BY <1>7, <2>1, <2>4, <3>1
      <3>2. CASE i \notin 1 .. Len(A)
        <4>1. B[i].attempt = N
          BY <1>7, <3>2
        <4> QED
          BY <1>1, <4>1
      <3> QED
        BY <3>1, <3>2
    <2> QED
      BY <2>2, <2>3, <2>4 DEF c
  <1> QED
    BY <1>3, <1>4, <1>5, <1>8, <1>9, <1>10, Zenon DEF HistoryInv, A, B, N

LEMMA ExtendsKeep ==
  ASSUME TypeOK, NEW j \in Job, HistoryInv(j), Extends(j)
  PROVE  HistoryInv(j)'
  <1> DEFINE A == artifacts[j]
             N == Len(attempts[j])
  <1>1. /\ attempts[j] \in Seq(Attempt) /\ N \in Nat
        /\ DOMAIN attempts[j] = 1 .. N
        /\ \A n \in 1 .. N : attempts[j][n].checkpoint \in Nat
        /\ A \in Seq(ArtifactRow) /\ Len(A) \in Nat
        /\ DOMAIN A = 1 .. Len(A)
        /\ \A i \in 1 .. Len(A) : A[i].attempt \in Nat
    BY RowTypes
  <1>2. PICK w \in Worker, c \in 0 .. Len(A) :
          /\ LatestCheckpoint(j, c)
          /\ attempts'[j] = Append(attempts[j],
               [state |-> "LEASED", worker |-> w,
                lease |-> least(LeaseSeconds, Timeout[j]),
                deadline |-> Timeout[j], checkpoint |-> c])
    BY DEF Extends
  <1>3. /\ Len(attempts'[j]) = N + 1 /\ DOMAIN attempts'[j] = 1 .. N + 1
        /\ \A n \in 1 .. N : attempts'[j][n] = attempts[j][n]
        /\ attempts'[j][N + 1].checkpoint = c
    BY <1>1, <1>2
  <1>4. artifacts'[j] = A
    BY DEF Extends
  <1>5. \A i \in 1 .. Len(A) : A[i].attempt <= N + 1
    BY <1>1 DEF HistoryInv
  <1>6. /\ c > 0 => A[c].attempt < N + 1
        /\ \A i \in 1 .. Len(A) : i > c => A[i].artifact.kind # "checkpoint"
    <2>1. \A i \in 1 .. Len(A) : A[i].attempt <= N
      BY <1>1 DEF HistoryInv
    <2>2. \A i \in 1 .. Len(A) : i > c => A[i].artifact.kind # "checkpoint"
      BY <1>1, <1>2 DEF LatestCheckpoint
    <2> QED
      BY <1>1, <2>1, <2>2
  <1>7. ASSUME NEW n \in 1 .. N + 1
        PROVE  /\ attempts'[j][n].checkpoint <= Len(A)
               /\ attempts'[j][n].checkpoint > 0 =>
                    A[attempts'[j][n].checkpoint].attempt < n
               /\ \A i \in 1 .. Len(A) :
                    i > attempts'[j][n].checkpoint
                    /\ A[i].artifact.kind = "checkpoint" => A[i].attempt >= n
    <2>1. CASE n = N + 1
      <3>1. attempts'[j][n].checkpoint = c
        BY <1>3, <2>1
      <3> HIDE DEF A, N
      <3> QED
        BY <1>1, <1>6, <2>1, <3>1
    <2>2. CASE n \in 1 .. N
      <3>1. attempts'[j][n] = attempts[j][n]
        BY <1>3, <2>2
      <3> QED
        BY <1>1, <2>2, <3>1 DEF HistoryInv
    <2>3. n = N + 1 \/ n \in 1 .. N
      BY <1>1
    <2> QED
      BY <2>1, <2>2, <2>3
  <1>8. \A i, k \in 1 .. Len(A) : i <= k => A[i].attempt <= A[k].attempt
    BY <1>1, Zenon DEF HistoryInv
  <1> QED
    BY <1>1, <1>3, <1>4, <1>5, <1>7, <1>8, Zenon DEF HistoryInv

(* Reachable states satisfy the invariant.                                 *)
LEMMA HistoryCorrect == Spec => [](\A j \in Job : HistoryInv(j))
  <1> DEFINE H == \A j \in Job : HistoryInv(j)
  <1>1. Init => H
    <2> SUFFICES ASSUME Init, NEW j \in Job PROVE HistoryInv(j)
      OBVIOUS
    <2>1. artifacts[j] = <<>> /\ attempts[j] = <<>>
      BY DEF Init
    <2>2. DOMAIN artifacts[j] = {} /\ DOMAIN attempts[j] = {}
      BY <2>1
    <2> QED
      BY <2>2 DEF HistoryInv
  <1>2. IInv /\ IInv' /\ H /\ [Next]_vars => H'
    <2> SUFFICES ASSUME IInv, IInv', H, [Next]_vars, NEW j \in Job
                 PROVE  HistoryInv(j)'
      OBVIOUS
    <2>1. TypeOK /\ TypeOK'
      BY DEF IInv
    <2>2. HistoryInv(j)
      OBVIOUS
    <2>3. CASE Evolves(j) /\ Records(j)
      BY <2>1, <2>2, <2>3, RecordsKeep
    <2>4. CASE Extends(j)
      BY <2>1, <2>2, <2>4, ExtendsKeep
    <2> QED
      BY <2>3, <2>4, History
  <1> HIDE DEF H
  <1>3. Spec => []H
    BY <1>1, <1>2, RowsInv, PTL DEF Spec
  <1> QED
    BY <1>3 DEF H

(* Rows of two attempts never interleave: a report of an attempt that was  *)
(* succeeded by another is refused, however late it arrives.               *)
THEOREM ArtifactsInOrderCorrect == Spec => []ArtifactsInOrder
  <1>1. (\A j \in Job : HistoryInv(j)) => ArtifactsInOrder
    BY DEF HistoryInv, ArtifactsInOrder
  <1> QED
    BY <1>1, HistoryCorrect, PTL

(* Every attempt was handed the newest checkpoint that any of its          *)
(* predecessors has recorded or ever will.                                 *)
THEOREM ResumesFromLatestCorrect == Spec => []ResumesFromLatest
  <1>1. (\A j \in Job : HistoryInv(j)) => ResumesFromLatest
    BY DEF HistoryInv, ResumesFromLatest
  <1> QED
    BY <1>1, HistoryCorrect, PTL

-----------------------------------------------------------------------------
(* No lease outlives the deadline of its attempt, so that the reaper,      *)
(* which looks at the lease alone, finds every attempt past its deadline.  *)
THEOREM DeadlineCoveredCorrect == Spec => []DeadlineCovered
  <1>1. Init => DeadlineCovered
    <2> SUFFICES ASSUME Init, NEW j \in Job, NEW n \in DOMAIN attempts[j]
                 PROVE  FALSE
      BY DEF DeadlineCovered
    <2>1. attempts[j] = <<>>
      BY DEF Init
    <2> QED
      BY <2>1
  <1>2. IInv /\ DeadlineCovered /\ [Next]_vars => DeadlineCovered'
    <2> SUFFICES ASSUME IInv, DeadlineCovered, [Next]_vars, NEW j \in Job,
                        NEW n \in DOMAIN attempts'[j]
                 PROVE  attempts'[j][n].lease <= attempts'[j][n].deadline
      BY DEF DeadlineCovered
    <2>1. CASE Evolves(j)
      BY <2>1 DEF Evolves, Evolved, DeadlineCovered
    <2>2. CASE Extends(j)
      <3>1. TypeOK
        BY DEF IInv
      <3>2. /\ attempts[j] \in Seq(Attempt) /\ Len(attempts[j]) \in Nat
            /\ DOMAIN attempts[j] = 1 .. Len(attempts[j])
        BY <3>1, RowTypes
      <3>3. PICK a : /\ attempts'[j] = Append(attempts[j], a)
                     /\ a.lease = least(LeaseSeconds, Timeout[j])
                     /\ a.deadline = Timeout[j]
        BY <2>2 DEF Extends
      <3>4. a.lease <= a.deadline
        BY <3>3, JobAssumption DEF least
      <3>5. \/ n \in DOMAIN attempts[j] /\ attempts'[j][n] = attempts[j][n]
            \/ attempts'[j][n] = a
        BY <3>2, <3>3
      <3> QED
        BY <3>4, <3>5 DEF DeadlineCovered
    <2> QED
      BY <2>1, <2>2, History
  <1> QED
    BY <1>1, <1>2, RowsInv, PTL DEF Spec

(* An attempt held after a transaction was held before it, or it is the    *)
(* one a lease has added.                                                  *)
LEMMA HeldBefore ==
  ASSUME TypeOK, NEW j \in Job, NEW n \in DOMAIN attempts'[j],
         attempts'[j][n].state \in Active, Evolves(j) \/ Extends(j)
  PROVE  \/ /\ n \in DOMAIN attempts[j]
            /\ attempts[j][n].worker = attempts'[j][n].worker
            /\ attempts[j][n].state \in Active
         \/ /\ Extends(j) /\ n = Len(attempts[j]) + 1
            /\ Fits(j, attempts'[j][n].worker)
            /\ workers[attempts'[j][n].worker].state = "ACTIVE"
  <1>1. CASE Evolves(j)
    BY <1>1 DEF Evolves, Evolved
  <1>2. CASE Extends(j)
    <2>1. /\ attempts[j] \in Seq(Attempt) /\ Len(attempts[j]) \in Nat
          /\ DOMAIN attempts[j] = 1 .. Len(attempts[j])
      BY RowTypes
    <2>2. PICK a : /\ attempts'[j] = Append(attempts[j], a)
                   /\ workers[a.worker].state = "ACTIVE" /\ Fits(j, a.worker)
      BY <1>2 DEF Extends
    <2>3. \/ n \in DOMAIN attempts[j] /\ attempts'[j][n] = attempts[j][n]
          \/ n = Len(attempts[j]) + 1 /\ attempts'[j][n] = a
      BY <2>1, <2>2
    <2> QED
      BY <1>2, <2>2, <2>3
  <1> QED
    BY <1>1, <1>2

(* A worker that was released stays released and is given no attempt.      *)
THEOREM DrainedForGoodCorrect == Spec => DrainedForGood
  <1> DEFINE D == \A w \in Worker : workers[w].state = "DRAINING" =>
                    workers'[w] = workers[w] /\ Held(w)' \subseteq Held(w)
  <1>1. IInv /\ [Next]_vars => [D]_vars
    <2> SUFFICES ASSUME IInv, [Next]_vars, NEW w \in Worker,
                        workers[w].state = "DRAINING"
                 PROVE  workers'[w] = workers[w] /\ Held(w)' \subseteq Held(w)
      OBVIOUS
    <2>1. TypeOK
      BY DEF IInv
    <2>2. workers'[w] = workers[w]
      <3>1. workers \in [Worker -> WorkerRow]
        BY <2>1 DEF TypeOK
      <3>2. \/ workers' = workers
            \/ \E v \in Worker, s \in Session :
                 RegisterWorker(v, s) \/ ReleaseWorker(v, s)
        <4>1. CASE UNCHANGED vars
          BY <4>1 DEF vars
        <4>2. ASSUME NEW batch \in SUBSET Job, Submit(batch) \/ Reap(batch)
              PROVE  workers' = workers
          BY <4>2 DEF Submit, Reap
        <4>3. ASSUME NEW j \in Job, Cancel(j) \/ Retry(j)
              PROVE  workers' = workers
          BY <4>3 DEF Cancel, Retry
        <4>4. ASSUME NEW v \in Worker, NEW s \in Session, LeaseJob(v, s)
              PROVE  workers' = workers
          BY <4>4 DEF LeaseJob
        <4>5. ASSUME NEW v \in Worker, NEW s \in Session, NEW j \in Job,
                     NEW n \in DOMAIN attempts[j],
                     Heartbeat(v, s, j, n) \/ StartAttempt(v, s, j, n)
              PROVE  workers' = workers
          BY <4>5 DEF Heartbeat, StartAttempt
        <4>6. ASSUME NEW v \in Worker, NEW s \in Session, NEW j \in Job,
                     NEW n \in DOMAIN attempts[j], NEW u \in Upload,
                     \/ ReportProgress(v, s, j, n, u)
                     \/ CompleteAttempt(v, s, j, n, u)
                     \/ FailAttempt(v, s, j, n, u)
              PROVE  workers' = workers
          BY <4>6 DEF ReportProgress, CompleteAttempt, FailAttempt
        <4>7. CASE Tick
          BY <4>7 DEF Tick
        <4> QED
          BY <4>1, <4>2, <4>3, <4>4, <4>5, <4>6, <4>7, ZenonT(60) DEF Next
      <3>3. ASSUME NEW v \in Worker, NEW s \in Session,
                   RegisterWorker(v, s) \/ ReleaseWorker(v, s)
            PROVE  workers'[w] = workers[w]
        <4>1. CASE v # w
          BY <3>1, <3>3, <4>1 DEF RegisterWorker, ReleaseWorker
        <4>2. CASE v = w
          <5>1. ReleaseWorker(w, s)
            BY <3>3, <4>2 DEF RegisterWorker
          <5>2. workers[w] = [workers[w] EXCEPT !.state = "DRAINING"]
            BY <3>1 DEF WorkerRow
          <5> QED
            BY <3>1, <5>1, <5>2 DEF ReleaseWorker
        <4> QED
          BY <4>1, <4>2
      <3> QED
        BY <3>2, <3>3
    <2>3. ASSUME NEW j \in Job, NEW n \in DOMAIN attempts'[j],
                 attempts'[j][n].worker = w, attempts'[j][n].state \in Active
          PROVE  /\ n \in DOMAIN attempts[j]
                 /\ attempts[j][n].worker = w /\ attempts[j][n].state \in Active
      <3>1. Evolves(j) \/ Extends(j)
        BY History
      <3> QED
        BY <2>1, <2>3, <3>1, HeldBefore
    <2>4. Held(w)' \subseteq Held(w)
      BY <2>3 DEF Held
    <2> QED
      BY <2>2, <2>4
  <1> QED
    BY <1>1, RowsInv, PTL DEF Spec, DrainedForGood

-----------------------------------------------------------------------------
(* Capacity.  The invariant adds that what a worker holds is finite, so    *)
(* that it can be counted at all.                                          *)
CapacityInv ==
  \A w \in Worker, r \in Resource :
    IsFiniteSet(Units(w, r)) /\ used(w, r) <= Capacity[w][r]

(* What attempt h holds of resource r, unit by unit.                       *)
Share(h, r) == {h} \X (1 .. Need[h[1]][r])

LEMMA ShareSize ==
  ASSUME NEW j \in Job, NEW n \in Nat, NEW r \in Resource
  PROVE  /\ IsFiniteSet(Share(<<j, n>>, r))
         /\ Cardinality(Share(<<j, n>>, r)) = Need[j][r]
  <1> DEFINE m == Need[j][r]
             one == {<<j, n>>}
  <1>1. m \in Nat /\ Share(<<j, n>>, r) = one \X (1 .. m)
    BY ResourceAssumption DEF Share
  <1> HIDE DEF m, one
  <1>2. IsFiniteSet(1 .. m) /\ Cardinality(1 .. m) = m
    <2>1. /\ IsFiniteSet(1 .. m)
          /\ Cardinality(1 .. m) = IF 1 > m THEN 0 ELSE m - 1 + 1
      BY <1>1, FS_Interval, SMTT(30)
    <2> QED
      BY <1>1, <2>1
  <1>3. IsFiniteSet(one) /\ Cardinality(one) = 1
    BY FS_Singleton, Zenon DEF one
  <1>4. /\ IsFiniteSet(one \X (1 .. m))
        /\ Cardinality(one \X (1 .. m)) = 1 * m
    BY <1>2, <1>3, FS_Product, ZenonT(60)
  <1>5. 1 * m = m
    BY <1>1
  <1> QED
    BY <1>1, <1>4, <1>5 DEF m

(* Fewer attempts hold fewer units.                                        *)
LEMMA FewerUnits ==
  ASSUME NEW w \in Worker, NEW r \in Resource, IsFiniteSet(Units(w, r)),
         Held(w)' \subseteq Held(w)
  PROVE  IsFiniteSet(Units(w, r)') /\ used(w, r)' <= used(w, r)
  <1>1. Units(w, r)' \subseteq Units(w, r)
    BY DEF Units
  <1> QED
    BY <1>1, FS_Subset DEF used

(* One more attempt holds its share.                                       *)
LEMMA MoreUnits ==
  ASSUME NEW w \in Worker, NEW r \in Resource, IsFiniteSet(Units(w, r)),
         NEW j \in Job, NEW n \in Nat,
         Held(w)' \subseteq Held(w) \cup {<<j, n>>}
  PROVE  IsFiniteSet(Units(w, r)') /\ used(w, r)' <= used(w, r) + Need[j][r]
  <1> DEFINE U == Units(w, r)
             V == Share(<<j, n>>, r)
  <1>1. Units(w, r)' \subseteq U \cup V
    BY DEF Units, Share
  <1>2. IsFiniteSet(V) /\ Cardinality(V) = Need[j][r]
    BY ShareSize
  <1>3. Need[j][r] \in Nat
    BY ResourceAssumption
  <1> HIDE DEF V
  <1>4. /\ IsFiniteSet(U \cup V)
        /\ Cardinality(U \cup V) =
             Cardinality(U) + Cardinality(V) - Cardinality(U \cap V)
    BY <1>2, FS_Union
  <1>5. Cardinality(U) \in Nat /\ Cardinality(U \cap V) \in Nat
    <2>1. IsFiniteSet(U \cap V)
      BY FS_Subset
    <2> QED
      BY <2>1, FS_CardinalityType
  <1>6. Cardinality(U \cup V) <= Cardinality(U) + Need[j][r]
    BY <1>2, <1>3, <1>4, <1>5
  <1>7. IsFiniteSet(Units(w, r)')
        /\ Cardinality(Units(w, r)') <= Cardinality(U \cup V)
    BY <1>1, <1>4, FS_Subset
  <1>8. Cardinality(Units(w, r)') \in Nat /\ Cardinality(U \cup V) \in Nat
    BY <1>4, <1>7, FS_CardinalityType
  <1> QED
    BY <1>3, <1>5, <1>6, <1>7, <1>8 DEF used

LEMMA IsHeld ==
  ASSUME NEW w, NEW j \in Job, NEW n \in DOMAIN attempts[j],
         attempts[j][n].worker = w, attempts[j][n].state \in Active
  PROVE  <<j, n>> \in Held(w)
  <1>1. PICK h : h = <<j, n>>
    BY Zenon
  <1>2. h[1] = j /\ h[2] = n
    BY <1>1
  <1>3. h \in UNION {{i} \X DOMAIN attempts[i] : i \in Job}
    <2>1. h \in {j} \X DOMAIN attempts[j]
      BY <1>1
    <2> QED
      BY <2>1
  <1>4. h \in Held(w)
    BY <1>2, <1>3 DEF Held
  <1> QED
    BY <1>1, <1>4

(* One transaction leases one job.                                         *)
LEMMA OneExtends ==
  ASSUME TypeOK, NEW i \in Job, NEW j \in Job, Extends(i), Extends(j)
  PROVE  i = j
  <1> SUFFICES ASSUME i # j PROVE FALSE
    OBVIOUS
  <1>1. attempts[i] \in Seq(Attempt) /\ Len(attempts[i]) \in Nat
    BY RowTypes
  <1>2. attempts'[i] = attempts[i]
    BY DEF Extends
  <1>3. \E a : attempts'[i] = Append(attempts[i], a)
    BY DEF Extends
  <1>4. Len(attempts'[i]) = Len(attempts[i]) + 1
    BY <1>1, <1>3
  <1> QED
    BY <1>1, <1>2, <1>4

(* No worker is ever over-committed: what its LEASED and RUNNING attempts  *)
(* reserve stays within what it declared, for any number of jobs, workers  *)
(* and resources, although LeaseJob is the only place that compares.       *)
THEOREM CapacityCorrect == Spec => []CapacityRespected
  <1>1. Init => CapacityInv
    <2> SUFFICES ASSUME Init, NEW w \in Worker, NEW r \in Resource
                 PROVE  IsFiniteSet(Units(w, r)) /\ used(w, r) <= Capacity[w][r]
      BY DEF CapacityInv
    <2>1. \A j \in Job : DOMAIN attempts[j] = {}
      BY DEF Init
    <2>2. Units(w, r) = {}
      BY <2>1 DEF Units, Held
    <2> QED
      BY <2>2, FS_EmptySet, ResourceAssumption DEF used
  <1>2. IInv /\ CapacityInv /\ [Next]_vars => CapacityInv'
    <2> SUFFICES ASSUME IInv, CapacityInv, [Next]_vars,
                        NEW w \in Worker, NEW r \in Resource
                 PROVE  IsFiniteSet(Units(w, r)') /\ used(w, r)' <= Capacity[w][r]
      BY DEF CapacityInv
    <2>1. TypeOK
      BY DEF IInv
    <2>2. /\ IsFiniteSet(Units(w, r)) /\ used(w, r) <= Capacity[w][r]
          /\ used(w, r) \in Nat /\ Capacity[w][r] \in Nat
      BY FS_CardinalityType, ResourceAssumption DEF CapacityInv, used
    <2>3. \A j \in Job : Evolves(j) \/ Extends(j)
      BY History
    <2>4. ASSUME NEW j \in Job, NEW n \in DOMAIN attempts'[j],
                 attempts'[j][n].state \in Active, attempts'[j][n].worker = w
          PROVE  \/ <<j, n>> \in Held(w)
                 \/ Extends(j) /\ Fits(j, w) /\ n = Len(attempts[j]) + 1
      <3>1. \/ /\ n \in DOMAIN attempts[j] /\ attempts[j][n].worker = w
               /\ attempts[j][n].state \in Active
            \/ Extends(j) /\ Fits(j, w) /\ n = Len(attempts[j]) + 1
        <4>1. Evolves(j) \/ Extends(j)
          BY <2>3
        <4> QED
          BY <2>1, <2>4, <4>1, HeldBefore
      <3>2. CASE /\ n \in DOMAIN attempts[j] /\ attempts[j][n].worker = w
                 /\ attempts[j][n].state \in Active
        BY <3>2, IsHeld
      <3> QED
        BY <3>1, <3>2
    <2>5. \A h \in Held(w)' :
            \E j \in Job : \E n \in DOMAIN attempts'[j] :
              /\ h = <<j, n>> /\ attempts'[j][n].worker = w
              /\ attempts'[j][n].state \in Active
      BY DEF Held
    <2>6. CASE \E j \in Job : Extends(j) /\ Fits(j, w)
      <3>1. PICK j \in Job : Extends(j) /\ Fits(j, w)
        BY <2>6
      <3> DEFINE n == Len(attempts[j]) + 1
      <3>2. n \in Nat
        BY <2>1, RowTypes
      <3>3. \A i \in Job : Extends(i) => i = j
        BY <2>1, <3>1, OneExtends
      <3>4. Held(w)' \subseteq Held(w) \cup {<<j, n>>}
        BY <2>4, <2>5, <3>3
      <3> HIDE DEF n
      <3>5. IsFiniteSet(Units(w, r)') /\ used(w, r)' <= used(w, r) + Need[j][r]
        BY <2>2, <3>2, <3>4, MoreUnits
      <3>6. used(w, r) + Need[j][r] <= Capacity[w][r]
        BY <3>1 DEF Fits
      <3>7. used(w, r)' \in Nat /\ Need[j][r] \in Nat
        BY <3>5, FS_CardinalityType, ResourceAssumption DEF used
      <3> QED
        BY <2>2, <3>5, <3>6, <3>7
    <2>7. CASE ~ \E j \in Job : Extends(j) /\ Fits(j, w)
      <3>1. Held(w)' \subseteq Held(w)
        BY <2>4, <2>5, <2>7
      <3>2. IsFiniteSet(Units(w, r)') /\ used(w, r)' <= used(w, r)
        BY <2>2, <3>1, FewerUnits
      <3>3. used(w, r)' \in Nat
        BY <3>2, FS_CardinalityType DEF used
      <3> QED
        BY <2>2, <3>2, <3>3
    <2> QED
      BY <2>6, <2>7
  <1>3. CapacityInv => CapacityRespected
    BY DEF CapacityInv, CapacityRespected
  <1> QED
    BY <1>1, <1>2, <1>3, RowsInv, PTL DEF Spec

-----------------------------------------------------------------------------
(* Events.  The newest event of every job tells the state of its row:      *)
(* every transaction that moves a job writes the event in the same commit, *)
(* and StartAttempt and ReportProgress, which may leave the row alone,     *)
(* only ever find it RUNNING.                                              *)
THEOREM EventsAgreeCorrect == Spec => []EventsAgree
  <1>1. Init => EventsAgree
    BY DEF Init, EventsAgree, StatesAfter
  <1>2. IInv /\ EventsAgree /\ [Next]_vars => EventsAgree'
    <2> SUFFICES ASSUME IInv, EventsAgree, [Next]_vars PROVE EventsAgree'
      OBVIOUS
    <2>1. /\ jobs \in [Job -> JobRow] /\ last_event \in [Job -> EventType]
          /\ attempts \in [Job -> Seq(Attempt)]
      BY DEF IInv, TypeOK
    <2>2. ASSUME NEW i \in Job, NEW st, NEW e,
                 jobs'[i].state = st, last_event'[i] = e, st \in StatesAfter(e),
                 \A j \in Job \ {i} : /\ jobs'[j].state = jobs[j].state
                                      /\ last_event'[j] = last_event[j]
          PROVE  EventsAgree'
      BY <2>2 DEF EventsAgree
    <2>3. ASSUME jobs' = jobs, last_event' = last_event PROVE EventsAgree'
      BY <2>3 DEF EventsAgree
    <2>4. ASSUME NEW batch \in SUBSET Job, Submit(batch) PROVE EventsAgree'
      <3> SUFFICES ASSUME NEW j \in Job
                   PROVE  \/ /\ jobs'[j] = jobs[j]
                             /\ last_event'[j] = last_event[j]
                          \/ /\ jobs'[j].state = "QUEUED"
                             /\ last_event'[j] = "SUBMITTED"
        BY Zenon DEF EventsAgree, StatesAfter
      <3> QED
        BY <2>1, <2>4 DEF Submit, JobRow
    <2>5. ASSUME NEW i \in Job, Cancel(i) PROVE EventsAgree'
      BY <2>1, <2>2, <2>5, ZenonT(60) DEF Cancel, JobRow, StatesAfter
    <2>6. ASSUME NEW i \in Job, Retry(i) PROVE EventsAgree'
      BY <2>1, <2>2, <2>6, ZenonT(60) DEF Retry, JobRow, StatesAfter
    <2>7. ASSUME NEW w \in Worker, NEW s \in Session, LeaseJob(w, s)
          PROVE  EventsAgree'
      <3>1. PICK i \in Job : /\ jobs' = [jobs EXCEPT ![i].state = "LEASED"]
                             /\ last_event' = [last_event EXCEPT ![i] = "LEASED"]
        BY <2>7, Zenon DEF LeaseJob
      <3> QED
        BY <2>1, <2>2, <3>1, ZenonT(60) DEF JobRow, StatesAfter
    <2>8. ASSUME NEW w \in Worker, NEW s \in Session, NEW i \in Job,
                 NEW n \in DOMAIN attempts[i], StartAttempt(w, s, i, n)
          PROVE  EventsAgree'
      <3>1. attempts[i][n].state \in Active /\ jobs[i].state = attempts[i][n].state
        BY <2>8, ActiveIsLatest DEF StartAttempt, Fenced
      <3>2. jobs'[i].state = "RUNNING"
        BY <2>1, <2>8, <3>1 DEF StartAttempt, JobRow, Active
      <3> QED
        BY <2>1, <2>2, <2>8, <3>2, Zenon DEF StartAttempt, JobRow, StatesAfter
    <2>9. ASSUME NEW w \in Worker, NEW s \in Session, NEW i \in Job,
                 NEW n \in DOMAIN attempts[i], NEW u \in Upload,
                 ReportProgress(w, s, i, n, u)
          PROVE  EventsAgree'
      <3>1. jobs[i].state = "RUNNING"
        BY <2>9, ActiveIsLatest DEF ReportProgress, Active
      <3> QED
        BY <2>1, <2>2, <2>9, <3>1 DEF ReportProgress, StatesAfter
    <2>10. ASSUME NEW w \in Worker, NEW s \in Session, NEW i \in Job,
                  NEW n \in DOMAIN attempts[i], NEW u \in Upload,
                  \/ CompleteAttempt(w, s, i, n, u)
                  \/ FailAttempt(w, s, i, n, u)
           PROVE  EventsAgree'
      <3>1. CASE CompleteAttempt(w, s, i, n, u)
        BY <2>1, <2>2, <3>1, ZenonT(60) DEF CompleteAttempt, JobRow, StatesAfter
      <3>2. CASE FailAttempt(w, s, i, n, u)
        BY <2>1, <2>2, <3>2, ZenonT(60)
        DEF FailAttempt, RetryState, JobRow, StatesAfter
      <3> QED
        BY <2>10, <3>1, <3>2
    <2>11. ASSUME NEW batch \in SUBSET Job, Reap(batch) PROVE EventsAgree'
      <3> SUFFICES ASSUME NEW j \in Job
                   PROVE  \/ /\ jobs'[j] = jobs[j]
                             /\ last_event'[j] = last_event[j]
                          \/ /\ jobs'[j].state \in {"QUEUED", "FAILED"}
                             /\ last_event'[j] = "LEASE_EXPIRED"
        BY Zenon DEF EventsAgree, StatesAfter
      <3> QED
        BY <2>1, <2>11 DEF Reap, RetryState, JobRow
    <2>12. ASSUME NEW w \in Worker, NEW s \in Session,
                  \/ RegisterWorker(w, s) \/ ReleaseWorker(w, s)
                  \/ \E i \in Job : \E n \in DOMAIN attempts[i] :
                       Heartbeat(w, s, i, n)
           PROVE  EventsAgree'
      BY <2>3, <2>12 DEF RegisterWorker, ReleaseWorker, Heartbeat
    <2>13. CASE Tick \/ UNCHANGED vars
      BY <2>3, <2>13 DEF Tick, vars
    <2> QED
      BY <2>4, <2>5, <2>6, <2>7, <2>8, <2>9, <2>10, <2>11, <2>12, <2>13,
         ZenonT(60) DEF Next
  <1> QED
    BY <1>1, <1>2, RowsInv, PTL DEF Spec
=============================================================================

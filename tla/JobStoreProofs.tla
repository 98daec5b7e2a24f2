--------------------------- MODULE JobStoreProofs ---------------------------
(***************************************************************************)
(* Theorems about JobStore, for any sets of jobs, workers and resources    *)
(* and any budgets, timeouts and lease lengths.                            *)
(***************************************************************************)
EXTENDS JobStore, TLAPS, SequenceTheorems, FiniteSetTheorems

-----------------------------------------------------------------------------
(* Type correctness.                                                       *)

(* Replacing one element of a sequence of attempts, or all of them, gives  *)
(* a sequence of attempts of the same length.                              *)
LEMMA MapAttempts ==
  ASSUME NEW s \in Seq(Attempt), NEW t,
         t = [n \in DOMAIN s |-> t[n]],
         \A n \in DOMAIN s : t[n] \in Attempt
  PROVE  t \in Seq(Attempt) /\ Len(t) = Len(s) /\ DOMAIN t = DOMAIN s
  <1>1. Len(s) \in Nat /\ DOMAIN s = 1 .. Len(s)
    OBVIOUS
  <1>2. t \in [1 .. Len(s) -> Attempt]
    BY <1>1
  <1> QED
    BY <1>1, <1>2

(* Rows keep their type when a field is given a value of its own type.     *)
LEMMA JobRowState ==
  ASSUME NEW r \in JobRow, NEW st \in JobState
  PROVE  [r EXCEPT !.state = st] \in JobRow
  BY DEF JobRow

LEMMA AttemptRowState ==
  ASSUME NEW a \in Attempt, NEW st \in AttemptState
  PROVE  [a EXCEPT !.state = st] \in Attempt
  BY DEF Attempt

LEMMA AttemptRowLease ==
  ASSUME NEW a \in Attempt, NEW t \in Nat
  PROVE  [a EXCEPT !.lease = t] \in Attempt
  BY DEF Attempt

LEMMA AttemptRowAged ==
  ASSUME NEW a \in Attempt
  PROVE  Aged(a) \in Attempt
  <1> DEFINE t == IF a.lease > 0 THEN a.lease - 1 ELSE 0
             d == IF a.deadline > 0 THEN a.deadline - 1 ELSE 0
  <1>1. t \in Nat /\ d \in Nat
    BY DEF Attempt
  <1>2. Aged(a) = [a EXCEPT !.lease = t, !.deadline = d]
    BY DEF Aged
  <1> HIDE DEF t, d
  <1> QED
    BY <1>1, <1>2 DEF Attempt

(* Changing one attempt of one job, or its state alone.                    *)
LEMMA SetAttempt ==
  ASSUME attempts \in [Job -> Seq(Attempt)],
         NEW j \in Job, NEW n \in DOMAIN attempts[j], NEW a \in Attempt
  PROVE  [attempts EXCEPT ![j][n] = a] \in [Job -> Seq(Attempt)]
  OBVIOUS

LEMMA SetOne ==
  ASSUME NEW s \in Seq(Attempt), NEW n \in DOMAIN s, NEW st \in AttemptState
  PROVE  /\ [s EXCEPT ![n].state = st] \in Seq(Attempt)
         /\ Len([s EXCEPT ![n].state = st]) = Len(s)
  <1>1. s[n] \in Attempt
    OBVIOUS
  <1>2. [s[n] EXCEPT !.state = st] \in Attempt
    BY <1>1, AttemptRowState
  <1> QED
    BY <1>2

LEMMA SetState ==
  ASSUME attempts \in [Job -> Seq(Attempt)],
         NEW j \in Job, NEW n \in DOMAIN attempts[j], NEW st \in AttemptState
  PROVE  [attempts EXCEPT ![j][n].state = st] \in [Job -> Seq(Attempt)]
  <1>1. [attempts[j] EXCEPT ![n].state = st] \in Seq(Attempt)
    BY SetOne
  <1> QED
    BY <1>1

LEMMA InitType == Init => TypeOK
  <1> SUFFICES ASSUME Init PROVE TypeOK
    OBVIOUS
  <1> QED
    BY JobAssumption
    DEF Init, TypeOK, JobRow, JobState, WorkerRow, EventType, Active

(* The artifacts of a report extend the rows of its job, or change         *)
(* nothing.                                                                *)
(* A report appends rows of its own attempt, and nothing else.             *)
LEMMA RecordArtifactsAppends ==
  ASSUME TypeOK, NEW j \in Job, NEW n \in DOMAIN attempts[j],
         NEW u \in Upload, RecordArtifacts(j, n, u)
  PROVE  \E new \in Seq(ArtifactRow) :
           /\ artifacts' = [artifacts EXCEPT ![j] = @ \o new]
           /\ \A k \in DOMAIN new : new[k].attempt = n
  <1> DEFINE rows == [i \in DOMAIN u |-> [attempt |-> n, artifact |-> u[i]]]
             known == {artifacts[j][i] : i \in DOMAIN artifacts[j]}
             fresh == {i \in DOMAIN rows : rows[i] \notin known}
             N == Cardinality(fresh)
  <1>1. PICK pick \in [1 .. N -> fresh] :
          artifacts' = [artifacts EXCEPT ![j] =
                          @ \o [k \in DOMAIN pick |-> rows[pick[k]]]]
    BY DEF RecordArtifacts
  <1>2. n \in Nat /\ u \in Seq(Artifact) /\ Len(u) \in Nat
    BY UploadAssumption DEF TypeOK
  <1>3. N \in Nat
    <2>1. IsFiniteSet(1 .. Len(u))
      BY <1>2, FS_Interval
    <2>2. fresh \subseteq 1 .. Len(u)
      BY <1>2
    <2> HIDE DEF fresh
    <2> QED
      BY <2>1, <2>2, FS_Subset, FS_CardinalityType
  <1>4. \A i \in DOMAIN u : rows[i] \in ArtifactRow /\ rows[i].attempt = n
    BY <1>2 DEF ArtifactRow
  <1>5. fresh \subseteq DOMAIN u
    OBVIOUS
  <1> DEFINE new == [k \in 1 .. N |-> rows[pick[k]]]
  <1> HIDE DEF rows, fresh, N
  <1>6. \A k \in 1 .. N : new[k] \in ArtifactRow /\ new[k].attempt = n
    BY <1>1, <1>4, <1>5
  <1>7. new \in Seq(ArtifactRow) /\ DOMAIN new = 1 .. N
    BY <1>3, <1>6
  <1>8. artifacts' = [artifacts EXCEPT ![j] = @ \o new]
    BY <1>1
  <1> HIDE DEF new
  <1> QED
    BY <1>6, <1>7, <1>8

LEMMA RecordArtifactsType ==
  ASSUME TypeOK, NEW j \in Job, NEW n \in DOMAIN attempts[j],
         NEW u \in Upload, RecordArtifacts(j, n, u)
  PROVE  artifacts' \in [Job -> Seq(ArtifactRow)]
  <1>1. PICK new \in Seq(ArtifactRow) :
          artifacts' = [artifacts EXCEPT ![j] = @ \o new]
    BY RecordArtifactsAppends
  <1>2. artifacts[j] \o new \in Seq(ArtifactRow)
    BY <1>1 DEF TypeOK
  <1> QED
    BY <1>1, <1>2 DEF TypeOK

LEMMA TypeStep == TypeOK /\ [Next]_vars => TypeOK'
  <1> SUFFICES ASSUME TypeOK, [Next]_vars PROVE TypeOK'
    OBVIOUS
  <1> USE DEF TypeOK
  <1>1. ASSUME NEW batch \in SUBSET Job, Submit(batch) PROVE TypeOK'
    <2>1. jobs' \in [Job -> JobRow]
      BY <1>1, JobRowState DEF Submit, JobState
    <2> QED
      BY <1>1, <2>1 DEF Submit, EventType
  <1>2. ASSUME NEW j \in Job, Cancel(j) PROVE TypeOK'
    <2>1. attempts'[j] = [n \in DOMAIN attempts[j] |-> attempts'[j][n]]
      BY <1>2 DEF Cancel
    <2>2. \A n \in DOMAIN attempts[j] : attempts'[j][n] \in Attempt
      <3> TAKE n \in DOMAIN attempts[j]
      <3>1. attempts[j][n] \in Attempt
        OBVIOUS
      <3>2. [attempts[j][n] EXCEPT !.state = "CANCELLED"] \in Attempt
        BY <3>1, AttemptRowState DEF AttemptState
      <3> QED
        BY <1>2, <3>1, <3>2 DEF Cancel
    <2>3. attempts'[j] \in Seq(Attempt)
      BY <2>1, <2>2, MapAttempts
    <2>4. jobs' \in [Job -> JobRow]
      BY <1>2, JobRowState DEF Cancel, JobState
    <2> QED
      BY <1>2, <2>3, <2>4 DEF Cancel, EventType
  <1>3. ASSUME NEW j \in Job, Retry(j) PROVE TypeOK'
    <2>1. jobs'[j] = [jobs[j] EXCEPT !.state = "QUEUED",
                                     !.max_attempts = @ + 1]
      BY <1>3 DEF Retry
    <2>2. jobs'[j] \in JobRow
      <3>1. jobs[j] \in JobRow /\ "QUEUED" \in JobState
        BY DEF JobState
      <3>2. jobs[j].max_attempts + 1 \in Nat \ {0}
        BY <3>1 DEF JobRow
      <3> QED
        BY <2>1, <3>1, <3>2 DEF JobRow
    <2>3. jobs' \in [Job -> JobRow]
      BY <1>3, <2>2 DEF Retry
    <2> QED
      BY <1>3, <2>3 DEF Retry, EventType
  <1>4. ASSUME NEW w \in Worker, NEW s \in Session, RegisterWorker(w, s)
        PROVE  TypeOK'
    BY <1>4 DEF RegisterWorker, WorkerRow
  <1>5. ASSUME NEW w \in Worker, NEW s \in Session, ReleaseWorker(w, s)
        PROVE  TypeOK'
    BY <1>5 DEF ReleaseWorker, WorkerRow
  <1>6. ASSUME NEW w \in Worker, NEW s \in Session, LeaseJob(w, s)
        PROVE  TypeOK'
    <2>1. PICK j \in Job : \E c \in 0 .. Len(artifacts[j]) :
            /\ attempts' = [attempts EXCEPT ![j] = Append(@,
                 [state |-> "LEASED", worker |-> w,
                  lease |-> least(LeaseSeconds, Timeout[j]),
                  deadline |-> Timeout[j], checkpoint |-> c])]
            /\ jobs' = [jobs EXCEPT ![j].state = "LEASED"]
            /\ last_event' = [last_event EXCEPT ![j] = "LEASED"]
      BY <1>6 DEF LeaseJob
    <2>2. \A c \in 0 .. Len(artifacts[j]) :
            [state |-> "LEASED", worker |-> w,
             lease |-> least(LeaseSeconds, Timeout[j]),
             deadline |-> Timeout[j], checkpoint |-> c] \in Attempt
      BY JobAssumption DEF Attempt, AttemptState, Active, least
    <2>3. attempts' \in [Job -> Seq(Attempt)]
      BY <2>1, <2>2
    <2>4. jobs' \in [Job -> JobRow]
      <3>1. [jobs[j] EXCEPT !.state = "LEASED"] \in JobRow
        BY JobRowState DEF JobState, Active
      <3> QED
        BY <2>1, <3>1
    <2>5. last_event' \in [Job -> EventType]
      BY <2>1 DEF EventType
    <2> QED
      BY <1>6, <2>3, <2>4, <2>5 DEF LeaseJob
  <1>7. ASSUME NEW w \in Worker, NEW s \in Session, NEW j \in Job,
               NEW n \in DOMAIN attempts[j], Heartbeat(w, s, j, n)
        PROVE  TypeOK'
    <2>1. Renewed(attempts[j][n]) \in Nat
      <3>1. attempts[j][n] \in Attempt
        OBVIOUS
      <3>2. attempts[j][n].deadline \in Nat
        BY <3>1 DEF Attempt
      <3> QED
        BY <3>2, JobAssumption DEF Renewed, least
    <2>2. attempts' \in [Job -> Seq(Attempt)]
      BY <1>7, <2>1, AttemptRowLease, SetAttempt DEF Heartbeat
    <2> QED
      BY <1>7, <2>2 DEF Heartbeat
  <1>8. ASSUME NEW w \in Worker, NEW s \in Session, NEW j \in Job,
               NEW n \in DOMAIN attempts[j], StartAttempt(w, s, j, n)
        PROVE  TypeOK'
    <2>1. attempts' \in [Job -> Seq(Attempt)]
      BY <1>8, SetState DEF StartAttempt, AttemptState, Active
    <2> QED
      BY <1>8, <2>1, JobRowState
      DEF StartAttempt, JobState, Active, EventType
  <1>9. ASSUME NEW w \in Worker, NEW s \in Session, NEW j \in Job,
               NEW n \in DOMAIN attempts[j], NEW u \in Upload,
               ReportProgress(w, s, j, n, u)
        PROVE  TypeOK'
    BY <1>9, RecordArtifactsType DEF ReportProgress, EventType
  <1>10. ASSUME NEW w \in Worker, NEW s \in Session, NEW j \in Job,
                NEW n \in DOMAIN attempts[j], NEW u \in Upload,
                CompleteAttempt(w, s, j, n, u)
         PROVE  TypeOK'
    <2>1. attempts' \in [Job -> Seq(Attempt)]
      BY <1>10, SetState DEF CompleteAttempt, AttemptState
    <2>2. artifacts' \in [Job -> Seq(ArtifactRow)]
      BY <1>10, RecordArtifactsType DEF CompleteAttempt
    <2> QED
      BY <1>10, <2>1, <2>2, JobRowState
      DEF CompleteAttempt, JobState, EventType
  <1>11. ASSUME NEW w \in Worker, NEW s \in Session, NEW j \in Job,
                NEW n \in DOMAIN attempts[j], NEW u \in Upload,
                FailAttempt(w, s, j, n, u)
         PROVE  TypeOK'
    <2>1. attempts' \in [Job -> Seq(Attempt)]
      BY <1>11, SetState DEF FailAttempt, AttemptState
    <2>2. artifacts' \in [Job -> Seq(ArtifactRow)]
      BY <1>11, RecordArtifactsType DEF FailAttempt
    <2> QED
      BY <1>11, <2>1, <2>2, JobRowState
      DEF FailAttempt, RetryState, JobState, EventType
  <1>12. ASSUME NEW batch \in SUBSET Job, Reap(batch) PROVE TypeOK'
    <2>1. ASSUME NEW j \in batch
          PROVE  ExpiredAttempt(j) \in DOMAIN attempts[j]
      BY <1>12, <2>1 DEF Reap, Reapable, ExpiredAttempt
    <2>2. attempts' \in [Job -> Seq(Attempt)]
      <3>1. ASSUME NEW j \in batch
            PROVE  [attempts[j] EXCEPT ![ExpiredAttempt(j)].state = "EXPIRED"]
                     \in Seq(Attempt)
        <4>1. attempts[j] \in Seq(Attempt)
          BY <1>12, <3>1
        <4> QED
          BY <2>1, <4>1, SetOne DEF AttemptState
      <3> QED
        BY <1>12, <3>1 DEF Reap
    <2> QED
      BY <1>12, <2>2, JobRowState DEF Reap, RetryState, JobState, EventType
  <1>13. ASSUME Tick PROVE TypeOK'
    <2>1. ASSUME NEW j \in Job PROVE attempts'[j] \in Seq(Attempt)
      <3>1. attempts'[j] = [n \in DOMAIN attempts[j] |-> attempts'[j][n]]
        BY <1>13 DEF Tick
      <3>2. \A n \in DOMAIN attempts[j] : attempts'[j][n] \in Attempt
        BY <1>13, AttemptRowAged DEF Tick
      <3> QED
        BY <3>1, <3>2, MapAttempts
    <2> QED
      BY <1>13, <2>1 DEF Tick
  <1>14. CASE UNCHANGED vars
    BY <1>14 DEF vars
  <1> QED
    BY <1>1, <1>2, <1>3, <1>4, <1>5, <1>6, <1>7, <1>8, <1>9, <1>10, <1>11,
       <1>12, <1>13, <1>14 DEF Next

(* Every reachable state of the store is well typed.                       *)
THEOREM TypeCorrect == Spec => []TypeOK
  BY InitType, TypeStep, PTL DEF Spec

-----------------------------------------------------------------------------
(* The store implements Lifecycle.  The simulation needs the row invariant *)
(* of Lifecycle to know that an active attempt is the latest one, and      *)
(* Lifecycle's steps preserve it, so the two are proved together.          *)

IInv == TypeOK /\ \A j \in Job : L!RowInv(RowOf(j))

LEMMA SameStates ==
  Active = L!Active /\ JobState = L!JobState /\ AttemptState = L!AttemptState
  BY DEF Active, JobState, AttemptState, L!Active, L!JobState, L!AttemptState

(* Moving the latest attempt changes no other one, and the steps of        *)
(* Lifecycle keep the invariant of a row.                                  *)
LEMMA MovedHistory ==
  ASSUME NEW old \in L!Row, NEW new \in L!Row, NEW to \in L!AttemptState,
         L!Moved(old, new, to), L!RowInv(old)
  PROVE  /\ Len(new.history) = Len(old.history)
         /\ Len(old.history) > 0
         /\ new.history[Len(new.history)] = to
         /\ \A i \in 1 .. Len(new.history) - 1 :
              new.history[i] \in {"FAILED", "EXPIRED"}
         /\ new.budget = old.budget
         /\ Len(new.history) <= new.budget
  <1> DEFINE h == old.history
             k == new.history
  <1>1. h \in Seq(L!AttemptState) /\ Len(h) \in Nat
    BY DEF L!Row
  <1>2. k = [h EXCEPT ![Len(h)] = to] /\ Len(h) > 0 /\ new.budget = old.budget
    BY DEF L!Moved
  <1>3. /\ \A i \in 1 .. Len(h) - 1 : h[i] \in {"FAILED", "EXPIRED"}
        /\ Len(h) <= old.budget
    BY DEF L!RowInv
  <1> HIDE DEF h, k
  <1>4. Len(k) = Len(h) /\ k[Len(h)] = to
    BY <1>1, <1>2
  <1>5. \A i \in 1 .. Len(h) - 1 : k[i] = h[i]
    BY <1>1, <1>2
  <1> QED
    BY <1>1, <1>2, <1>3, <1>4, <1>5 DEF h, k

LEMMA StepKeepsRow ==
  ASSUME NEW old \in L!Row, NEW new \in L!Row, L!RowInv(old), L!Step(old, new)
  PROVE  L!RowInv(new)
  <1> USE DEF L!Active, L!AttemptState
  <1>0. /\ old.history \in Seq(L!AttemptState)
        /\ new.history \in Seq(L!AttemptState)
        /\ old.budget \in Nat \ {0} /\ new.budget \in Nat \ {0}
        /\ Len(new.history) \in Nat
    BY DEF L!Row
  <1>1. CASE L!Submitted(old, new)
    BY <1>0, <1>1 DEF L!Submitted, L!RowInv
  <1>2. CASE L!Leased(old, new)
    BY <1>0, <1>2 DEF L!Leased, L!RowInv
  <1>3. CASE L!Started(old, new)
    BY <1>0, <1>3, MovedHistory DEF L!Started, L!RowInv
  <1>4. CASE L!Succeeded(old, new)
    BY <1>0, <1>4, MovedHistory DEF L!Succeeded, L!RowInv
  <1>5. CASE L!Lost(old, new)
    BY <1>0, <1>5, MovedHistory DEF L!Lost, L!RowInv
  <1>6. CASE L!Cancelled(old, new)
    BY <1>0, <1>6, MovedHistory DEF L!Cancelled, L!RowInv
  <1>7. CASE L!Retried(old, new)
    BY <1>0, <1>7 DEF L!Retried, L!RowInv
  <1> QED
    BY <1>1, <1>2, <1>3, <1>4, <1>5, <1>6, <1>7 DEF L!Step

(* The row of a job, field by field.                                       *)
LEMMA RowFields ==
  TypeOK => \A j \in Job :
    /\ RowOf(j) \in L!Row
    /\ RowOf(j).state = jobs[j].state
    /\ RowOf(j).budget = jobs[j].max_attempts
    /\ RowOf(j).history = [n \in DOMAIN attempts[j] |-> attempts[j][n].state]
    /\ Len(RowOf(j).history) = Len(attempts[j])
  <1> SUFFICES ASSUME TypeOK, NEW j \in Job
               PROVE  /\ RowOf(j) \in L!Row
                      /\ Len(RowOf(j).history) = Len(attempts[j])
    BY DEF RowOf
  <1> DEFINE h == [n \in DOMAIN attempts[j] |-> attempts[j][n].state]
  <1>1. attempts[j] \in Seq(Attempt) /\ jobs[j] \in JobRow
    BY DEF TypeOK
  <1>2. /\ Len(attempts[j]) \in Nat
        /\ DOMAIN attempts[j] = 1 .. Len(attempts[j])
        /\ \A n \in DOMAIN attempts[j] : attempts[j][n] \in Attempt
    BY <1>1
  <1>3. h \in [1 .. Len(attempts[j]) -> AttemptState]
    BY <1>2 DEF Attempt
  <1>4. h \in Seq(AttemptState) /\ Len(h) = Len(attempts[j])
    BY <1>2, <1>3
  <1>5. jobs[j].state \in JobState /\ jobs[j].max_attempts \in Nat \ {0}
    BY <1>1 DEF JobRow
  <1>6. RowOf(j) = [state |-> jobs[j].state, budget |-> jobs[j].max_attempts,
                    history |-> h]
    BY DEF RowOf
  <1> HIDE DEF h
  <1> QED
    BY <1>4, <1>5, <1>6, SameStates DEF L!Row

(* The row invariant in terms of the tables.                               *)
LEMMA RowInvTables ==
  ASSUME IInv, NEW j \in Job
  PROVE  /\ \A n \in 1 .. Len(attempts[j]) - 1 :
              attempts[j][n].state \in {"FAILED", "EXPIRED"}
         /\ jobs[j].state \in Active \cup {"SUCCEEDED"} =>
              Len(attempts[j]) > 0 /\ Latest(j).state = jobs[j].state
         /\ Len(attempts[j]) > 0
            /\ Latest(j).state \in Active \cup {"SUCCEEDED", "CANCELLED"} =>
              jobs[j].state = Latest(j).state
         /\ Len(attempts[j]) <= jobs[j].max_attempts
         /\ jobs[j].state = "QUEUED" =>
              Len(attempts[j]) < jobs[j].max_attempts
         /\ jobs[j].state = "FAILED" =>
              Len(attempts[j]) = jobs[j].max_attempts
         /\ jobs[j].state = "ABSENT" => Len(attempts[j]) = 0
  <1> DEFINE h == RowOf(j).history
  <1>1. attempts[j] \in Seq(Attempt)
    BY DEF IInv, TypeOK
  <1>2. Len(attempts[j]) \in Nat /\ DOMAIN attempts[j] = 1 .. Len(attempts[j])
    BY <1>1
  <1>3. /\ \A n \in DOMAIN attempts[j] : h[n] = attempts[j][n].state
        /\ Len(h) = Len(attempts[j])
        /\ RowOf(j).state = jobs[j].state
        /\ RowOf(j).budget = jobs[j].max_attempts
    BY RowFields DEF IInv
  <1>4. L!RowInv(RowOf(j))
    BY DEF IInv
  <1> HIDE DEF h
  <1>5. /\ \A n \in 1 .. Len(h) - 1 : h[n] \in {"FAILED", "EXPIRED"}
        /\ RowOf(j).state \in L!Active \cup {"SUCCEEDED"} =>
             Len(h) > 0 /\ h[Len(h)] = RowOf(j).state
        /\ Len(h) > 0 /\ h[Len(h)] \in L!Active \cup {"SUCCEEDED", "CANCELLED"}
             => RowOf(j).state = h[Len(h)]
        /\ Len(h) <= RowOf(j).budget
        /\ RowOf(j).state = "QUEUED" => Len(h) < RowOf(j).budget
        /\ RowOf(j).state = "FAILED" => Len(h) = RowOf(j).budget
        /\ RowOf(j).state = "ABSENT" => Len(h) = 0
    BY <1>4 DEF L!RowInv, h
  <1> QED
    BY <1>2, <1>3, <1>5, SameStates DEF Latest

(* An active attempt is the latest of its job, and the job is in its       *)
(* state.                                                                  *)
LEMMA ActiveIsLatest ==
  ASSUME IInv, NEW j \in Job, NEW n \in DOMAIN attempts[j],
         attempts[j][n].state \in Active
  PROVE  n = Len(attempts[j]) /\ jobs[j].state = attempts[j][n].state
  <1>1. attempts[j] \in Seq(Attempt)
    BY DEF IInv, TypeOK
  <1>2. n \in 1 .. Len(attempts[j]) /\ Len(attempts[j]) \in Nat
    BY <1>1
  <1>3. n = Len(attempts[j])
    BY <1>2, RowInvTables DEF Active
  <1> QED
    BY <1>2, <1>3, RowInvTables DEF Latest

(* Giving an active attempt a new state moves the row.                     *)
LEMMA MoveAttempt ==
  ASSUME IInv, TypeOK', NEW j \in Job, NEW n \in DOMAIN attempts[j],
         NEW st \in AttemptState,
         attempts[j][n].state \in Active,
         attempts'[j] = [attempts[j] EXCEPT ![n].state = st],
         jobs'[j].max_attempts = jobs[j].max_attempts
  PROVE  /\ L!Moved(RowOf(j), RowOf(j)', st)
         /\ RowOf(j).state = attempts[j][n].state
         /\ Len(RowOf(j).history) = n
  <1>1. n = Len(attempts[j]) /\ jobs[j].state = attempts[j][n].state
    BY ActiveIsLatest
  <1>2. attempts[j] \in Seq(Attempt) /\ n \in 1 .. Len(attempts[j])
    BY DEF IInv, TypeOK
  <1>3. TypeOK' => /\ RowOf(j)'.budget = jobs'[j].max_attempts
                   /\ RowOf(j)'.history =
                        [i \in DOMAIN attempts'[j] |-> attempts'[j][i].state]
    BY DEF RowOf
  <1>4. /\ RowOf(j).state = jobs[j].state
        /\ RowOf(j).budget = jobs[j].max_attempts
        /\ RowOf(j).history =
             [i \in DOMAIN attempts[j] |-> attempts[j][i].state]
        /\ Len(RowOf(j).history) = Len(attempts[j])
    BY RowFields DEF IInv
  <1>5. RowOf(j)'.history = [RowOf(j).history EXCEPT ![n] = st]
    <2> DEFINE h == RowOf(j).history
               k == RowOf(j)'.history
    <2>1. attempts[j][n] \in Attempt
      BY <1>2
    <2>2. [attempts[j][n] EXCEPT !.state = st].state = st
      BY <2>1 DEF Attempt
    <2>3. \A i \in DOMAIN attempts[j] :
            attempts'[j][i].state = IF i = n THEN st ELSE attempts[j][i].state
      BY <2>2
    <2>4. h = [i \in DOMAIN attempts[j] |-> attempts[j][i].state]
      BY <1>4
    <2>5. k = [i \in DOMAIN attempts[j] |-> attempts'[j][i].state]
      BY <1>3
    <2> HIDE DEF h, k
    <2>6. k = [h EXCEPT ![n] = st]
      BY <2>3, <2>4, <2>5
    <2> QED
      BY <2>6 DEF h, k
  <1>6. /\ RowOf(j).state \in L!Active
        /\ Len(RowOf(j).history) = n /\ n > 0
        /\ RowOf(j).history[n] = RowOf(j).state
        /\ RowOf(j)'.budget = RowOf(j).budget
    BY <1>1, <1>2, <1>3, <1>4, SameStates
  <1> QED
    BY <1>1, <1>4, <1>5, <1>6 DEF L!Moved

(* A job whose row and attempt states stay as they are does not move.      *)
LEMMA SameRow ==
  ASSUME NEW j \in Job, jobs'[j] = jobs[j],
         DOMAIN attempts'[j] = DOMAIN attempts[j],
         \A n \in DOMAIN attempts[j] :
           attempts'[j][n].state = attempts[j][n].state
  PROVE  RowOf(j)' = RowOf(j)
  BY DEF RowOf

(* Every transaction moves every job by a step of Lifecycle, or not at     *)
(* all.                                                                    *)
LEMMA Simulation ==
  ASSUME IInv, TypeOK', [Next]_vars, NEW j \in Job
  PROVE  RowOf(j)' = RowOf(j) \/ L!Step(RowOf(j), RowOf(j)')
  <1> DEFINE old == RowOf(j)
             new == RowOf(j)'
             goal == new = old \/ L!Step(old, new)
  <1> SUFFICES goal
    OBVIOUS
  <1>a. /\ jobs \in [Job -> JobRow] /\ attempts \in [Job -> Seq(Attempt)]
        /\ jobs[j] \in JobRow /\ attempts[j] \in Seq(Attempt)
        /\ Len(attempts[j]) \in Nat
        /\ DOMAIN attempts[j] = 1 .. Len(attempts[j])
    BY DEF IInv, TypeOK
  <1>b. /\ old.state = jobs[j].state
        /\ old.budget = jobs[j].max_attempts
        /\ old.history = [n \in DOMAIN attempts[j] |-> attempts[j][n].state]
        /\ Len(old.history) = Len(attempts[j])
    BY RowFields DEF IInv
  <1>c. /\ new.state = jobs'[j].state
        /\ new.budget = jobs'[j].max_attempts
        /\ new.history =
             [n \in DOMAIN attempts'[j] |-> attempts'[j][n].state]
    BY DEF RowOf
  <1>d. ASSUME jobs'[j] = jobs[j], attempts'[j] = attempts[j] PROVE goal
    BY <1>d, SameRow
  <1> HIDE DEF old, new
  <1>1. ASSUME NEW batch \in SUBSET Job, Submit(batch) PROVE goal
    <2>1. CASE j \in batch /\ jobs[j].state = "ABSENT"
      <3>1. jobs'[j] = [jobs[j] EXCEPT !.state = "QUEUED"]
            /\ attempts'[j] = attempts[j]
        BY <1>1, <2>1 DEF Submit
      <3>2. /\ jobs'[j].state = "QUEUED"
            /\ jobs'[j].max_attempts = jobs[j].max_attempts
        BY <1>a, <3>1 DEF JobRow
      <3>3. attempts[j] = <<>>
        BY <1>a, <2>1, RowInvTables
      <3>4. new.history = <<>>
        BY <1>c, <3>1, <3>3
      <3> QED
        BY <1>b, <1>c, <2>1, <3>2, <3>4 DEF L!Step, L!Submitted
    <2> QED
      BY <1>1, <1>d, <2>1 DEF Submit
  <1>2. ASSUME NEW i \in Job, Retry(i) PROVE goal
    <2>1. CASE i = j
      <3>1. jobs'[j] = [jobs[j] EXCEPT !.state = "QUEUED",
                                       !.max_attempts = @ + 1]
        BY <1>2, <1>a, <2>1 DEF Retry
      <3>2. /\ jobs'[j].state = "QUEUED"
            /\ jobs'[j].max_attempts = jobs[j].max_attempts + 1
        BY <1>a, <3>1 DEF JobRow
      <3>3. new.history = old.history /\ jobs[j].state = "FAILED"
        BY <1>2, <1>b, <1>c, <2>1 DEF Retry
      <3> QED
        BY <1>b, <1>c, <3>2, <3>3 DEF L!Step, L!Retried
    <2> QED
      BY <1>2, <1>a, <1>d, <2>1 DEF Retry
  <1>3. CASE UNCHANGED <<jobs, attempts>>
    BY <1>3, <1>d
  <1>4. ASSUME NEW w \in Worker, NEW s \in Session, LeaseJob(w, s) PROVE goal
    <2>1. PICK i \in Job : \E c \in 0 .. Len(artifacts[i]) :
            /\ jobs[i].state = "QUEUED"
            /\ Len(attempts[i]) + 1 <= jobs[i].max_attempts
            /\ attempts' = [attempts EXCEPT ![i] = Append(@,
                 [state |-> "LEASED", worker |-> w,
                  lease |-> least(LeaseSeconds, Timeout[i]),
                  deadline |-> Timeout[i], checkpoint |-> c])]
            /\ jobs' = [jobs EXCEPT ![i].state = "LEASED"]
      BY <1>4 DEF LeaseJob
    <2>2. CASE i = j
      <3>0. PICK c \in 0 .. Len(artifacts[i]) :
              attempts' = [attempts EXCEPT ![i] = Append(@,
                 [state |-> "LEASED", worker |-> w,
                  lease |-> least(LeaseSeconds, Timeout[i]),
                  deadline |-> Timeout[i], checkpoint |-> c])]
        BY <2>1
      <3> DEFINE a == [state |-> "LEASED", worker |-> w,
                       lease |-> least(LeaseSeconds, Timeout[i]),
                       deadline |-> Timeout[i], checkpoint |-> c]
      <3>1. attempts'[j] = Append(attempts[j], a) /\ a.state = "LEASED"
        BY <1>a, <2>2, <3>0
      <3> HIDE DEF a
      <3>2. new.history = Append(old.history, "LEASED")
        <4>1. /\ DOMAIN attempts'[j] = 1 .. Len(attempts[j]) + 1
              /\ attempts'[j][Len(attempts[j]) + 1] = a
              /\ \A n \in 1 .. Len(attempts[j]) :
                   attempts'[j][n] = attempts[j][n]
          BY <1>a, <3>1
        <4>2. old.history \in Seq(AttemptState)
          BY RowFields, SameStates DEF IInv, L!Row, old
        <4>3. Append(old.history, "LEASED") =
                [n \in 1 .. Len(attempts[j]) + 1 |->
                   IF n = Len(attempts[j]) + 1 THEN "LEASED"
                                               ELSE attempts[j][n].state]
          BY <1>a, <1>b, <4>2
        <4>4. new.history =
                [n \in 1 .. Len(attempts[j]) + 1 |->
                   IF n = Len(attempts[j]) + 1 THEN "LEASED"
                                               ELSE attempts[j][n].state]
          <5>1. new.history = [n \in 1 .. Len(attempts[j]) + 1 |->
                                 attempts'[j][n].state]
            BY <1>c, <4>1
          <5>2. \A n \in 1 .. Len(attempts[j]) + 1 :
                  attempts'[j][n].state =
                    IF n = Len(attempts[j]) + 1 THEN "LEASED"
                                                ELSE attempts[j][n].state
            BY <1>a, <3>1, <4>1
          <5> QED
            BY <5>1, <5>2
        <4> QED
          BY <4>3, <4>4
      <3>3. /\ jobs'[j].state = "LEASED"
            /\ jobs'[j].max_attempts = jobs[j].max_attempts
        BY <1>a, <2>1, <2>2 DEF JobRow
      <3> QED
        BY <1>a, <1>b, <1>c, <2>1, <2>2, <3>2, <3>3 DEF L!Step, L!Leased, JobRow
    <2> QED
      BY <1>a, <1>d, <2>1, <2>2
  <1>5. ASSUME NEW w \in Worker, NEW s \in Session, NEW i \in Job,
               NEW n \in DOMAIN attempts[i], Heartbeat(w, s, i, n)
        PROVE  goal
    <2>1. CASE i = j
      <3>1. attempts[j][n] \in Attempt /\ jobs'[j] = jobs[j]
        BY <1>5, <1>a, <2>1 DEF Heartbeat
      <3>2. [attempts[j][n] EXCEPT !.lease = Renewed(attempts[j][n])].state
              = attempts[j][n].state
        BY <3>1 DEF Attempt
      <3>3. attempts'[j] = [attempts[j] EXCEPT ![n] =
              [attempts[j][n] EXCEPT !.lease = Renewed(attempts[j][n])]]
        BY <1>5, <1>a, <2>1 DEF Heartbeat
      <3>4. /\ DOMAIN attempts'[j] = DOMAIN attempts[j]
            /\ \A m \in DOMAIN attempts[j] :
                 attempts'[j][m].state = attempts[j][m].state
        BY <1>a, <3>2, <3>3
      <3> QED
        BY <3>1, <3>4, SameRow DEF old, new
    <2> QED
      BY <1>5, <1>a, <1>d, <2>1 DEF Heartbeat
  <1>6. ASSUME NEW w \in Worker, NEW s \in Session, NEW i \in Job,
               NEW n \in DOMAIN attempts[i], StartAttempt(w, s, i, n)
        PROVE  goal
    <2>1. CASE i = j
      <3>1. /\ attempts'[j] = [attempts[j] EXCEPT ![n].state = "RUNNING"]
            /\ attempts[j][n].state \in Active
        BY <1>6, <1>a, <2>1 DEF StartAttempt, Fenced
      <3>2. /\ jobs'[j].state = "RUNNING"
            /\ jobs'[j].max_attempts = jobs[j].max_attempts
        <4>1. jobs[j].state = attempts[j][n].state
          BY <2>1, <3>1, ActiveIsLatest
        <4>2. CASE attempts[j][n].state = "LEASED"
          <5>1. jobs'[j] = [jobs[j] EXCEPT !.state = "RUNNING"]
            BY <1>6, <1>a, <2>1, <4>2 DEF StartAttempt
          <5> QED
            BY <1>a, <5>1 DEF JobRow
        <4>3. CASE attempts[j][n].state # "LEASED"
          BY <1>6, <2>1, <3>1, <4>1, <4>3 DEF StartAttempt, Active
        <4> QED
          BY <4>2, <4>3
      <3>3. L!Moved(old, new, "RUNNING")
        BY <2>1, <3>1, <3>2, MoveAttempt DEF AttemptState, Active, old, new
      <3> QED
        BY <1>c, <3>2, <3>3 DEF L!Step, L!Started
    <2> QED
      BY <1>6, <1>a, <1>d, <2>1 DEF StartAttempt
  <1>7. ASSUME NEW w \in Worker, NEW s \in Session, NEW i \in Job,
               NEW n \in DOMAIN attempts[i], NEW u \in Upload,
               CompleteAttempt(w, s, i, n, u)
        PROVE  goal
    <2>1. CASE i = j
      <3>1. /\ attempts'[j] = [attempts[j] EXCEPT ![n].state = "SUCCEEDED"]
            /\ attempts[j][n].state = "RUNNING"
            /\ jobs'[j] = [jobs[j] EXCEPT !.state = "SUCCEEDED"]
        BY <1>7, <1>a, <2>1 DEF CompleteAttempt
      <3>2. /\ jobs'[j].state = "SUCCEEDED"
            /\ jobs'[j].max_attempts = jobs[j].max_attempts
        BY <1>a, <3>1 DEF JobRow
      <3>3. L!Moved(old, new, "SUCCEEDED") /\ old.state = "RUNNING"
        BY <2>1, <3>1, <3>2, MoveAttempt DEF AttemptState, Active, old, new
      <3> QED
        BY <1>c, <3>2, <3>3 DEF L!Step, L!Succeeded
    <2> QED
      BY <1>7, <1>a, <1>d, <2>1 DEF CompleteAttempt
  <1>8. ASSUME NEW w \in Worker, NEW s \in Session, NEW i \in Job,
               NEW n \in DOMAIN attempts[i], NEW u \in Upload,
               FailAttempt(w, s, i, n, u)
        PROVE  goal
    <2>1. CASE i = j
      <3>1. /\ attempts'[j] = [attempts[j] EXCEPT ![n].state = "FAILED"]
            /\ attempts[j][n].state = "RUNNING"
            /\ jobs'[j] = [jobs[j] EXCEPT
                 !.state = RetryState(n, jobs[j].max_attempts)]
        BY <1>8, <1>a, <2>1 DEF FailAttempt
      <3>2. /\ jobs'[j].state = RetryState(n, jobs[j].max_attempts)
            /\ jobs'[j].max_attempts = jobs[j].max_attempts
        BY <1>a, <3>1 DEF JobRow
      <3>3. /\ L!Moved(old, new, "FAILED") /\ old.state = "RUNNING"
            /\ Len(old.history) = n
        BY <2>1, <3>1, <3>2, MoveAttempt DEF AttemptState, Active, old, new
      <3> QED
        BY <1>b, <1>c, <3>2, <3>3 DEF L!Step, L!Lost, RetryState
    <2> QED
      BY <1>8, <1>a, <1>d, <2>1 DEF FailAttempt
  <1>9. ASSUME NEW batch \in SUBSET Job, Reap(batch) PROVE goal
    <2>1. CASE j \in batch
      <3> DEFINE n == ExpiredAttempt(j)
      <3>1. n \in DOMAIN attempts[j] /\ attempts[j][n].state \in Active
        BY <1>9, <2>1 DEF Reap, Reapable, ExpiredAttempt, Expired
      <3>2. /\ attempts'[j] = [attempts[j] EXCEPT ![n].state = "EXPIRED"]
            /\ jobs'[j] = [jobs[j] EXCEPT
                 !.state = RetryState(n, jobs[j].max_attempts)]
        BY <1>9, <2>1 DEF Reap
      <3> HIDE DEF n
      <3>3. /\ jobs'[j].state = RetryState(n, jobs[j].max_attempts)
            /\ jobs'[j].max_attempts = jobs[j].max_attempts
        BY <1>a, <3>2 DEF JobRow
      <3>4. L!Moved(old, new, "EXPIRED") /\ Len(old.history) = n
        BY <3>1, <3>2, <3>3, MoveAttempt DEF AttemptState, old, new
      <3> QED
        BY <1>b, <1>c, <3>3, <3>4 DEF L!Step, L!Lost, RetryState
    <2> QED
      BY <1>9, <1>a, <1>d, <2>1 DEF Reap
  <1>10. ASSUME NEW i \in Job, Cancel(i) PROVE goal
    <2>1. CASE i = j /\ jobs[j].state \in Active
      <3> DEFINE n == Len(attempts[j])
      <3>1. n \in DOMAIN attempts[j] /\ attempts[j][n].state \in Active
        BY <1>a, <2>1, RowInvTables DEF Latest
      <3>2. \A m \in DOMAIN attempts[j] : attempts[j][m].state \in Active
                                            <=> m = n
        BY <3>1, ActiveIsLatest
      <3>3. attempts'[j] = [m \in DOMAIN attempts[j] |->
              IF attempts[j][m].state \in Active
              THEN [attempts[j][m] EXCEPT !.state = "CANCELLED"]
              ELSE attempts[j][m]]
        BY <1>10, <1>a, <2>1 DEF Cancel
      <3>4. attempts'[j] = [attempts[j] EXCEPT ![n].state = "CANCELLED"]
        BY <1>a, <3>1, <3>2, <3>3
      <3>5. /\ jobs'[j].state = "CANCELLED"
            /\ jobs'[j].max_attempts = jobs[j].max_attempts
        BY <1>10, <1>a, <2>1 DEF Cancel, JobRow
      <3> HIDE DEF n
      <3>6. L!Moved(old, new, "CANCELLED")
        BY <3>1, <3>4, <3>5, MoveAttempt DEF AttemptState, old, new
      <3> QED
        BY <1>c, <3>5, <3>6 DEF L!Step, L!Cancelled
    <2>2. CASE i = j /\ jobs[j].state \notin Active
      <3>1. \A m \in DOMAIN attempts[j] : attempts[j][m].state \notin Active
        BY <2>2, ActiveIsLatest
      <3>2. attempts'[j] = attempts[j]
        BY <1>10, <1>a, <2>2, <3>1 DEF Cancel
      <3>3. /\ jobs'[j] = [jobs[j] EXCEPT !.state = "CANCELLED"]
            /\ jobs[j].state \in {"QUEUED", "CANCELLED"}
        BY <1>10, <1>a, <2>2 DEF Cancel, JobRow, JobState
      <3>4. /\ jobs'[j].state = "CANCELLED"
            /\ jobs'[j].max_attempts = jobs[j].max_attempts
        BY <1>a, <3>3 DEF JobRow
      <3>5. CASE jobs[j].state = "CANCELLED"
        BY <1>a, <1>d, <3>2, <3>3, <3>5 DEF JobRow
      <3>6. CASE jobs[j].state = "QUEUED"
        BY <1>b, <1>c, <3>2, <3>4, <3>6 DEF L!Step, L!Cancelled
      <3> QED
        BY <3>3, <3>5, <3>6
    <2>3. CASE i # j
      BY <1>10, <1>a, <1>d, <2>3 DEF Cancel
    <2> QED
      BY <2>1, <2>2, <2>3
  <1>11. ASSUME Tick PROVE goal
    <2>1. ASSUME NEW n \in DOMAIN attempts[j]
          PROVE  attempts'[j][n].state = attempts[j][n].state
      <3>1. attempts[j][n] \in Attempt
        BY <1>a
      <3>2. Aged(attempts[j][n]).state = attempts[j][n].state
        BY <3>1 DEF Aged, Attempt
      <3> QED
        BY <1>11, <3>2 DEF Tick
    <2>2. DOMAIN attempts'[j] = DOMAIN attempts[j] /\ jobs'[j] = jobs[j]
      BY <1>11 DEF Tick
    <2> QED
      BY <2>1, <2>2, SameRow DEF old, new
  <1>12. ASSUME NEW w \in Worker, NEW s \in Session,
                RegisterWorker(w, s) \/ ReleaseWorker(w, s)
         PROVE  UNCHANGED <<jobs, attempts>>
    BY <1>12 DEF RegisterWorker, ReleaseWorker
  <1>13. ASSUME NEW w \in Worker, NEW s \in Session, NEW i \in Job,
                NEW n \in DOMAIN attempts[i], NEW u \in Upload,
                ReportProgress(w, s, i, n, u)
         PROVE  UNCHANGED <<jobs, attempts>>
    BY <1>13 DEF ReportProgress
  <1>14. CASE UNCHANGED vars
    BY <1>3, <1>14 DEF vars
  <1> QED
    BY <1>1, <1>2, <1>3, <1>4, <1>5, <1>6, <1>7, <1>8, <1>9, <1>10, <1>11,
       <1>12, <1>13, <1>14 DEF Next

LEMMA InitRow ==
  ASSUME Init, NEW j \in Job
  PROVE  /\ L!RowInv(RowOf(j))
         /\ RowOf(j).state = "ABSENT"
         /\ RowOf(j).budget > 0
         /\ RowOf(j).history = <<>>
  <1>1. /\ jobs[j] = [state |-> "ABSENT", max_attempts |-> MaxAttempts[j]]
        /\ attempts[j] = <<>> /\ MaxAttempts[j] \in Nat \ {0}
    BY JobAssumption DEF Init
  <1>2. RowOf(j) = [state |-> "ABSENT", budget |-> MaxAttempts[j],
                    history |-> <<>>]
    BY <1>1 DEF RowOf
  <1> QED
    BY <1>1, <1>2 DEF L!RowInv, L!Active

RowsTyped == \A j \in Job : RowOf(j) \in L!Row

LEMMA TypedRows == TypeOK => RowsTyped
  BY RowFields DEF RowsTyped

(* The three facts of an inductive invariant, the third being              *)
(* RowInvTables.                                                           *)
LEMMA RowsInv == Spec => []IInv
  <1>1. Init => IInv
    BY InitType, InitRow DEF IInv
  <1>2. IInv /\ [Next]_vars => IInv'
    <2> SUFFICES ASSUME IInv, [Next]_vars PROVE IInv'
      OBVIOUS
    <2>1. TypeOK /\ TypeOK'
      BY TypeStep DEF IInv
    <2>2. ASSUME NEW j \in Job PROVE RowOf(j)' \in L!Row
      <3>1. RowsTyped'
        BY <2>1, TypedRows, PTL
      <3> QED
        BY <3>1 DEF RowsTyped
    <2>3. ASSUME NEW j \in Job PROVE L!RowInv(RowOf(j)')
      <3>1. RowOf(j) \in L!Row /\ L!RowInv(RowOf(j))
        BY <2>1, RowFields DEF IInv
      <3> QED
        BY <2>1, <2>2, <3>1, Simulation, StepKeepsRow
    <2> QED
      BY <2>1, <2>3 DEF IInv
  <1> QED
    BY <1>1, <1>2, PTL DEF Spec

(* Job row and attempt rows never disagree, for any number of jobs,        *)
(* workers and attempts.                                                   *)
THEOREM AttemptsAgreeCorrect == Spec => []AttemptsAgree
  <1>1. IInv => AttemptsAgree
    BY RowInvTables DEF AttemptsAgree
  <1> QED
    BY <1>1, RowsInv, PTL

(* A queued job always has an attempt left and a failed one never: the     *)
(* error "attempt budget invariant violated" of lease cannot be reached.   *)
THEOREM AttemptBudgetCorrect == Spec => []AttemptBudget
  <1>1. IInv => AttemptBudget
    BY RowInvTables DEF AttemptBudget
  <1> QED
    BY <1>1, RowsInv, PTL

(* The store implements the life cycle of a job.                           *)
THEOREM ImplementsLifecycle == Spec => LifecycleSpec
  <1> DEFINE R == [j \in Job |-> RowOf(j)]
  <1>1. Init => L!Init
    BY InitRow DEF L!Init
  <1>2. IInv /\ [Next]_vars => [L!Next]_R
    <2> SUFFICES ASSUME IInv, [Next]_vars PROVE L!Next
      OBVIOUS
    <2>1. TypeOK'
      BY TypeStep DEF IInv
    <2> QED
      BY <2>1, Simulation DEF L!Next
  <1> QED
    BY <1>1, <1>2, RowsInv, PTL DEF Spec, LifecycleSpec, L!Spec
=============================================================================

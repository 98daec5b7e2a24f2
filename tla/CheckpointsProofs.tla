------------------------- MODULE CheckpointsProofs -------------------------
(***************************************************************************)
(* Theorems about Checkpoints, for every number of epochs and attempts,    *)
(* every size of a report and every way the file clock moves: only whole   *)
(* checkpoints are recorded, in the order of their epochs, and a training  *)
(* that was interrupted and resumed ends with the metrics of one that ran  *)
(* through.                                                                *)
(***************************************************************************)
EXTENDS Checkpoints, TLAPS

(* What some number of epochs on one file of data lead to.                 *)
Good == {s \in Trained :
           /\ s.generator = s.epoch
           /\ s.model = [e \in 1 .. s.epoch |-> <<s.data, e - 1>>]}
Whole == {Uninterrupted(d) : d \in Data}

CheckpointRow ==
  [attempt : Nat, kind : {"checkpoint"}, content : Good, mtime : Nat]
OutputRow == [attempt : Nat, kind : {"output"}, content : Whole, mtime : Nat]
LogRow == [attempt : Nat, kind : {"log"}, content : {""}, mtime : Nat]
AnyRow == CheckpointRow \cup OutputRow \cup LogRow

AnyFile == [suffix : {"tmp", "json"}, content : Good \cup {Torn}, mtime : Nat]

(* Wherever the command is, its state is that of some number of epochs on  *)
(* one file of data.                                                       *)
Training == [pc : {"train", "save", "publish"}, code : {0}, state : Good,
             time : Nat]
TaskInv ==
  \/ task.pc \in {"none", "exited"}
  \/ /\ task.pc = "load" /\ task.data \in Data /\ task.time \in Nat
     /\ \A i \in DOMAIN task.resume : task.resume[i] \in Good
  \/ task \in Training

(* A file under its final name is whole, and so is the one about to be     *)
(* renamed.                                                                *)
FilesInv ==
  /\ files \in Seq(AnyFile)
  /\ \A i \in 1 .. Len(files) : files[i].suffix = "json" =>
       files[i].content \in Good
  /\ task.pc \in {"save", "publish"} => Len(files) > 0
  /\ task.pc = "publish" => files[Len(files)].content \in Good

(* The worker has listed only files under their final name.                *)
AnyWorker == [pc : {"idle", "restore", "loop", "upload", "report", "outputs",
                    "result"},
              polled : BOOLEAN, paths : Seq(Nat), uploaded : SUBSET Nat]
WorkerInv ==
  /\ worker \in AnyWorker
  /\ \A i \in 1 .. Len(worker.paths) :
       /\ worker.paths[i] \in 1 .. Len(files)
       /\ files[worker.paths[i]].suffix = "json"

TrainInv ==
  /\ number \in Nat /\ rows \in Seq(AnyRow) /\ outputs \in Seq(Whole)
  /\ TaskInv /\ FilesInv /\ WorkerInv

(* What the steps take for granted about numbers.  These facts are proved  *)
(* last, where the theorems about finite sets come in.                     *)
Counting ==
  /\ \A S \in SUBSET Nat : S # {} => \E m \in S : \A k \in S : m <= k
  /\ \A n \in Nat : \A S \in SUBSET (1 .. n) : Cardinality(S) \in Nat
  /\ \A i : Cardinality({i}) = 1

-----------------------------------------------------------------------------
(* The training.                                                           *)

LEMMA FreshIsGood == ASSUME NEW d \in Data PROVE Fresh(d) \in Good
  <1>1. <<>> = [e \in 1 .. 0 |-> <<d, e - 1>>]
    OBVIOUS
  <1>2. <<>> \in Seq(Data \X (0 .. Epochs)) /\ 0 \in 0 .. Epochs
    BY CheckpointsAssumption
  <1> QED
    BY <1>1, <1>2 DEF Fresh, Good, Trained

(* One more epoch adds its data and its draw to the model.                 *)
LEMMA EpochIsGood ==
  ASSUME NEW s \in Good, s.epoch < Epochs
  PROVE  [s EXCEPT !.epoch = @ + 1, !.generator = @ + 1,
                   !.model = Append(@, <<s.data, s.generator>>)] \in Good
  <1> DEFINE d == s.data
             n == s.epoch
             f == s.model
             g == Append(f, <<d, n>>)
             T == Data \X (0 .. Epochs)
  <1>1. /\ s \in Trained /\ d \in Data /\ n \in Nat /\ n \in 0 .. Epochs
        /\ n + 1 \in 0 .. Epochs /\ s.generator = n /\ f \in Seq(T)
        /\ f = [e \in 1 .. n |-> <<d, e - 1>>]
    BY CheckpointsAssumption DEF Good, Trained
  <1> HIDE DEF d, n, f
  <1>2. Len(f) = n /\ \A e \in 1 .. n : f[e] = <<d, e - 1>>
    BY <1>1
  <1>3. <<d, n>> \in T
    BY <1>1
  <1> HIDE DEF T
  <1>4. /\ g \in Seq(T) /\ Len(g) = n + 1 /\ DOMAIN g = 1 .. n + 1
        /\ \A e \in 1 .. n : g[e] = f[e]
        /\ g[n + 1] = <<d, n>>
    BY <1>1, <1>2, <1>3
  <1> HIDE DEF g
  <1>5. \A e \in 1 .. n + 1 : g[e] = <<d, e - 1>>
    <2>1. \A e \in 1 .. n : g[e] = <<d, e - 1>>
      BY <1>2, <1>4
    <2>2. g[n + 1] = <<d, (n + 1) - 1>>
      BY <1>1, <1>4
    <2> QED
      BY <1>1, <2>1, <2>2
  <1>6. g = [e \in 1 .. n + 1 |-> <<d, e - 1>>]
    <2>1. g = [e \in DOMAIN g |-> g[e]]
      BY <1>4
    <2> QED
      BY <1>4, <1>5, <2>1
  <1> DEFINE t == [s EXCEPT !.epoch = @ + 1, !.generator = @ + 1,
                            !.model = Append(@, <<s.data, s.generator>>)]
  <1>7. /\ t.epoch = n + 1 /\ t.generator = n + 1 /\ t.data = d
        /\ t.model = g
    BY <1>1 DEF Trained, n, d, f, g
  <1>8. t \in [data : Data, epoch : 0 .. Epochs, model : Seq(T),
               generator : 0 .. Epochs]
    BY <1>1, <1>4 DEF Trained, n, d, f, g, T
  <1> HIDE DEF t
  <1>9. t \in Good
    BY <1>6, <1>7, <1>8 DEF Good, Trained, T
  <1> QED
    BY <1>9 DEF t

(* After the last epoch the metrics are those of a training that ran       *)
(* through.                                                                *)
LEMMA LastIsWhole ==
  ASSUME NEW s \in Good, s.epoch = Epochs
  PROVE  [model |-> s.model, generator |-> s.generator] \in Whole
  <1>1. /\ s.data \in Data /\ s.generator = Epochs
        /\ s.model = [e \in 1 .. Epochs |-> <<s.data, e - 1>>]
    BY DEF Good, Trained
  <1> QED
    BY <1>1 DEF Whole, Uninterrupted

LEMMA GoodIsNotTorn == Torn \notin Good
  <1>1. SUFFICES ASSUME Torn \in Trained PROVE FALSE
    BY DEF Good
  <1>2. DOMAIN Torn = {"epoch"} /\ "data" \in DOMAIN Torn
    BY <1>1 DEF Torn, Trained
  <1> QED
    BY <1>2

(* The newest checkpoint is the last of the rows, if there is any.         *)
LEMMA NewestIsRow ==
  ASSUME Counting, rows \in Seq(AnyRow)
  PROVE  /\ \/ Newest = 0
            \/ Newest \in DOMAIN rows /\ rows[Newest] \in CheckpointRow
         /\ \A i \in DOMAIN rows : rows[i].kind = "checkpoint" => i <= Newest
  <1> DEFINE all == {i \in DOMAIN rows : rows[i].kind = "checkpoint"}
             B == {m \in Nat : \A i \in all : i <= m}
  <1>1. Len(rows) \in Nat /\ DOMAIN rows = 1 .. Len(rows) /\ all \subseteq Nat
    OBVIOUS
  <1>2. \A i \in all : rows[i] \in CheckpointRow
    <2> SUFFICES ASSUME NEW i \in DOMAIN rows, rows[i].kind = "checkpoint"
                 PROVE  rows[i] \in CheckpointRow
      OBVIOUS
    <2>1. rows[i] \in AnyRow
      OBVIOUS
    <2> QED
      BY <2>1 DEF AnyRow, OutputRow, LogRow
  <1> HIDE DEF all
  <1>3. B \subseteq Nat /\ Len(rows) \in B
    BY <1>1 DEF all
  <1>4. PICK m \in B : \A k \in B : m <= k
    BY <1>3 DEF Counting
  <1>6. m \in all \cup {0} /\ \A i \in all : i <= m
    <2>1. ASSUME m # 0, m \notin all PROVE FALSE
      <3>1. m - 1 \in Nat /\ \A i \in all : i <= m - 1
        BY <1>1, <2>1
      <3> QED
        BY <1>4, <3>1
    <2> QED
      BY <1>4, <2>1
  <1>7. Newest \in all \cup {0} /\ \A i \in all : i <= Newest
    BY <1>6 DEF Newest, all
  <1> QED
    BY <1>2, <1>7 DEF all

-----------------------------------------------------------------------------
(* The steps.                                                              *)

LEMMA TrainInit == Init => TrainInv
  BY DEF Init, TrainInv, TaskInv, FilesInv, WorkerInv, AnyWorker, NoTask,
         NoWorker

LEMMA FinishStep ==
  ASSUME TrainInv, NEW state, Finish(state)
  PROVE  TrainInv'
  BY DEF TrainInv, TaskInv, FilesInv, WorkerInv, AnyWorker, NoTask, NoWorker,
         Finish

LEMMA OtherSteps ==
  ASSUME TrainInv, LeaseJob \/ Damage \/ Poll \/ Read
  PROVE  TrainInv'
  <1>1. CASE LeaseJob
    <2>1. /\ UNCHANGED <<rows, task, files, outputs>> /\ number' = number + 1
          /\ worker' = [NoWorker EXCEPT !.pc = "restore"]
      BY <1>1 DEF LeaseJob
    <2>2. worker' \in AnyWorker /\ worker'.paths = <<>>
      <3>1. NoWorker \in AnyWorker /\ NoWorker.paths = <<>>
        BY DEF NoWorker, AnyWorker
      <3> QED
        BY <2>1, <3>1 DEF AnyWorker
    <2>3. WorkerInv'
      BY <2>2 DEF WorkerInv
    <2> QED
      BY <2>1, <2>3 DEF TrainInv, TaskInv, FilesInv
  <1>2. CASE Damage \/ Poll \/ Read
    BY <1>2 DEF TrainInv, TaskInv, FilesInv, WorkerInv, Damage, Poll, Read
  <1> QED
    BY <1>1, <1>2

LEMMA RestoreStep ==
  ASSUME Counting, TrainInv, Restore
  PROVE  TrainInv'
  <1>1. UNCHANGED <<number, rows, files, outputs>>
        /\ worker' = [worker EXCEPT !.pc = "loop"]
    BY DEF Restore
  <1>2. TaskInv' /\ task'.pc = "load"
    <2>1. PICK data \in Data :
            task' = [pc |-> "load", code |-> 0, data |-> data, time |-> 0,
                     resume |-> IF Newest = 0 THEN <<>>
                                              ELSE <<rows[Newest].content>>]
      BY DEF Restore
    <2>2. Newest # 0 => rows[Newest].content \in Good
      BY NewestIsRow DEF TrainInv, CheckpointRow
    <2> QED
      BY <2>1, <2>2 DEF TaskInv
  <1>3. WorkerInv'
    BY <1>1 DEF TrainInv, WorkerInv, AnyWorker
  <1>4. FilesInv'
    BY <1>1, <1>2 DEF TrainInv, FilesInv
  <1> QED
    BY <1>1, <1>2, <1>3, <1>4 DEF TrainInv

LEMMA LoadStep ==
  ASSUME TrainInv, Load
  PROVE  TrainInv'
  <1>1. UNCHANGED <<number, rows, files, outputs, worker>>
    BY DEF Load
  <1>2. /\ task.pc = "load" /\ task.data \in Data /\ task.time \in Nat
        /\ \A i \in DOMAIN task.resume : task.resume[i] \in Good
    BY DEF TrainInv, TaskInv, Load, Training
  <1>3. (\E state \in Good : Begin(state)) \/ Exit(1)
    BY <1>2, FreshIsGood DEF Load
  <1>4. TaskInv' /\ task'.pc \in {"train", "exited"}
    BY <1>2, <1>3 DEF TaskInv, Training, Begin, Exit
  <1>5. FilesInv' /\ WorkerInv'
    BY <1>1, <1>4 DEF TrainInv, FilesInv, WorkerInv
  <1> QED
    BY <1>1, <1>4, <1>5 DEF TrainInv

(* The files listed stay where they are, under the name they have.         *)
LEMMA FilesGrow ==
  ASSUME WorkerInv, worker' = worker, Len(files) \in Nat, Len(files') \in Nat,
         Len(files) <= Len(files'),
         \A i \in 1 .. Len(files) : files[i].suffix = "json" =>
           files'[i].suffix = "json"
  PROVE  WorkerInv'
  BY DEF WorkerInv

LEMMA TrainEpochStep ==
  ASSUME TrainInv, TrainEpoch
  PROVE  TrainInv'
  <1>1. /\ UNCHANGED <<number, rows, outputs, worker>>
        /\ task.pc = "train" /\ task.state.epoch < Epochs
        /\ files' = Append(files, File("tmp", Torn))
    BY DEF TrainEpoch
  <1>2. task \in Training /\ task.state \in Good
    BY <1>1 DEF TrainInv, TaskInv, Training
  <1>3. task' \in Training /\ task'.pc = "save"
    <2> DEFINE s == task.state
               t == [s EXCEPT !.epoch = @ + 1, !.generator = @ + 1,
                              !.model = Append(@, <<s.data, s.generator>>)]
    <2>1. t \in Good
      BY <1>1, <1>2, EpochIsGood
    <2>2. task' = [task EXCEPT !.pc = "save", !.state = t]
      BY DEF TrainEpoch
    <2> HIDE DEF t
    <2> QED
      BY <1>2, <2>1, <2>2 DEF Training
  <1>4. File("tmp", Torn) \in AnyFile /\ File("tmp", Torn).suffix = "tmp"
    BY <1>2 DEF File, AnyFile, Training
  <1>5. files \in Seq(AnyFile) /\ Len(files) \in Nat
    BY DEF TrainInv, FilesInv
  <1> HIDE DEF File
  <1>6. /\ files' \in Seq(AnyFile) /\ Len(files') = Len(files) + 1
        /\ \A i \in 1 .. Len(files) : files'[i] = files[i]
        /\ files'[Len(files) + 1] = File("tmp", Torn)
    BY <1>1, <1>4, <1>5
  <1>7. FilesInv'
    <2>1. ASSUME NEW i \in 1 .. Len(files'), files'[i].suffix = "json"
          PROVE  files'[i].content \in Good
      <3>1. i \in 1 .. Len(files)
        BY <1>4, <1>5, <1>6, <2>1
      <3> QED
        BY <1>6, <2>1, <3>1 DEF TrainInv, FilesInv
    <2> QED
      BY <1>3, <1>5, <1>6, <2>1 DEF FilesInv
  <1>8. WorkerInv'
    BY <1>1, <1>5, <1>6, FilesGrow DEF TrainInv
  <1> QED
    BY <1>1, <1>3, <1>7, <1>8 DEF TrainInv, TaskInv

LEMMA SaveStep ==
  ASSUME TrainInv, Save
  PROVE  TrainInv'
  <1>1. UNCHANGED <<number, rows, outputs, worker>> /\ task.pc = "save"
    BY DEF Save
  <1>2. task \in Training /\ task.state \in Good
    BY <1>1 DEF TrainInv, TaskInv, Training
  <1>3. task' \in Training /\ task'.pc = "publish"
    <2>1. PICK d \in Advance :
            task' = [task EXCEPT !.pc = "publish", !.time = @ + d]
      BY DEF Save
    <2>2. task.time + d \in Nat
      BY <1>2, CheckpointsAssumption DEF Training
    <2>3. task' = [task EXCEPT !.pc = "publish", !.time = task.time + d]
      BY <2>1
    <2> QED
      BY <1>2, <2>2, <2>3 DEF Training
  <1>4. files \in Seq(AnyFile) /\ Len(files) \in Nat /\ Len(files) > 0
    BY <1>1 DEF TrainInv, FilesInv
  <1> DEFINE n == Len(files)
             new == [files[n] EXCEPT !.content = task.state,
                                     !.mtime = task'.time]
  <1>5. files[n] \in AnyFile
    BY <1>4
  <1>6. new \in AnyFile /\ new.content \in Good /\ new.suffix = files[n].suffix
    BY <1>2, <1>3, <1>5 DEF AnyFile, Training
  <1>7. files' = [files EXCEPT ![n] = new]
    BY <1>4, <1>5 DEF Save, AnyFile
  <1> HIDE DEF new
  <1>8. /\ files' \in Seq(AnyFile) /\ Len(files') = n /\ files'[n] = new
        /\ \A i \in 1 .. n : i # n => files'[i] = files[i]
    BY <1>4, <1>6, <1>7
  <1>9. FilesInv'
    BY <1>3, <1>4, <1>6, <1>8 DEF TrainInv, FilesInv
  <1>10. WorkerInv'
    BY <1>1, <1>4, <1>6, <1>8, FilesGrow DEF TrainInv
  <1> QED
    BY <1>1, <1>3, <1>9, <1>10 DEF TrainInv, TaskInv

LEMMA PublishStep ==
  ASSUME TrainInv, Publish
  PROVE  TrainInv'
  <1>1. UNCHANGED <<number, rows, outputs, worker>> /\ task.pc = "publish"
    BY DEF Publish
  <1>2. task \in Training
    BY <1>1 DEF TrainInv, TaskInv
  <1>3. task' \in Training /\ task'.pc = "train"
    BY <1>2 DEF Publish, Training
  <1>4. /\ files \in Seq(AnyFile) /\ Len(files) \in Nat /\ Len(files) > 0
        /\ files[Len(files)].content \in Good
    BY <1>1 DEF TrainInv, FilesInv
  <1> DEFINE n == Len(files)
             new == [files[n] EXCEPT !.suffix = "json"]
  <1>5. files[n] \in AnyFile
    BY <1>4
  <1>6. new \in AnyFile /\ new.content \in Good /\ new.suffix = "json"
    BY <1>4, <1>5 DEF AnyFile
  <1>7. files' = [files EXCEPT ![n] = new]
    BY <1>4, <1>5 DEF Publish, AnyFile
  <1> HIDE DEF new
  <1>8. /\ files' \in Seq(AnyFile) /\ Len(files') = n /\ files'[n] = new
        /\ \A i \in 1 .. n : i # n => files'[i] = files[i]
    BY <1>4, <1>6, <1>7
  <1>9. FilesInv'
    BY <1>3, <1>4, <1>6, <1>8 DEF TrainInv, FilesInv
  <1>10. WorkerInv'
    BY <1>1, <1>4, <1>6, <1>8, FilesGrow DEF TrainInv
  <1> QED
    BY <1>1, <1>3, <1>9, <1>10 DEF TrainInv, TaskInv

LEMMA ExitSteps ==
  ASSUME TrainInv, Crash \/ Evaluate
  PROVE  TrainInv'
  <1>1. /\ UNCHANGED <<number, rows, files, worker>>
        /\ task'.pc = "exited"
    BY DEF Crash, Evaluate, Exit
  <1>2. outputs' \in Seq(Whole)
    <2>1. CASE Crash
      BY <2>1 DEF Crash, TrainInv
    <2>2. CASE Evaluate
      <3> DEFINE m == [model |-> task.state.model,
                       generator |-> task.state.generator]
      <3>1. task.state \in Good /\ task.state.epoch = Epochs
        BY <2>2 DEF Evaluate, TrainInv, TaskInv, Training
      <3>2. m \in Whole
        BY <3>1, LastIsWhole
      <3>3. outputs' = <<m>>
        BY <2>2 DEF Evaluate
      <3> HIDE DEF m
      <3> QED
        BY <3>2, <3>3
    <2> QED
      BY <2>1, <2>2
  <1> QED
    BY <1>1, <1>2 DEF TrainInv, TaskInv, FilesInv, WorkerInv

LEMMA ProgressStep ==
  ASSUME Counting, TrainInv, Progress
  PROVE  TrainInv'
  <1>1. UNCHANGED <<number, rows, task, files, outputs>>
    BY DEF Progress
  <1>2. PICK paths \in [1 .. Cardinality(Found) -> Found] :
          worker' = [worker EXCEPT !.pc = "upload", !.paths = paths,
                                   !.polled = task.pc = "exited"]
    BY DEF Progress
  <1>3. files \in Seq(AnyFile) /\ Len(files) \in Nat
    BY DEF TrainInv, FilesInv
  <1>4. Found \subseteq 1 .. Len(files)
        /\ \A i \in Found : files[i].suffix = "json"
    BY <1>3 DEF Found
  <1>5. Cardinality(Found) \in Nat
    BY <1>3, <1>4 DEF Counting
  <1>6. /\ paths \in Seq(Nat)
        /\ \A i \in 1 .. Len(paths) : paths[i] \in Found
    BY <1>2, <1>3, <1>4, <1>5
  <1>7. worker' \in AnyWorker /\ worker'.paths = paths
    <2>1. (task.pc = "exited") \in BOOLEAN
      OBVIOUS
    <2> QED
      BY <1>2, <1>6, <2>1 DEF TrainInv, WorkerInv, AnyWorker
  <1>8. WorkerInv'
    BY <1>1, <1>4, <1>6, <1>7 DEF WorkerInv
  <1> QED
    BY <1>1, <1>8 DEF TrainInv, TaskInv, FilesInv

LEMMA WorkerSteps ==
  ASSUME TrainInv, Upload \/ Reported
  PROVE  TrainInv'
  <1>1. UNCHANGED <<number, rows, task, files, outputs>>
    BY DEF Upload, Reported
  <1>2. PICK pc \in {"report", "outputs", "loop"} :
          worker' = [worker EXCEPT !.pc = pc]
    BY DEF Upload, Reported
  <1>3. worker' \in AnyWorker /\ worker'.paths = worker.paths
    BY <1>2 DEF TrainInv, WorkerInv, AnyWorker
  <1> QED
    BY <1>1, <1>3 DEF TrainInv, TaskInv, FilesInv, WorkerInv

LEMMA ReportBatchStep ==
  ASSUME TrainInv, ReportBatch
  PROVE  TrainInv'
  <1> DEFINE p == worker.paths
             n == least(Batch, Len(p))
             new == [i \in 1 .. n |-> Row("checkpoint", files[p[i]].content,
                                          files[p[i]].mtime)]
             q == SubSeq(p, n + 1, Len(p))
             up == worker.uploaded \cup {p[i] : i \in 1 .. n}
  <1>1. UNCHANGED <<number, task, files, outputs>> /\ rows' = rows \o new
        /\ worker' = [worker EXCEPT !.paths = q, !.uploaded = up]
    BY DEF ReportBatch
  <1>2. /\ p \in Seq(Nat) /\ Len(p) \in Nat /\ worker.uploaded \subseteq Nat
        /\ files \in Seq(AnyFile) /\ Len(files) \in Nat
    BY DEF TrainInv, WorkerInv, AnyWorker, FilesInv
  <1>3. n \in 0 .. Len(p)
    BY <1>2, CheckpointsAssumption DEF least
  <1> HIDE DEF n
  <1>4. /\ q \in Seq(Nat) /\ Len(q) = Len(p) - n
        /\ \A i \in 1 .. Len(q) : q[i] = p[n + i] /\ n + i \in 1 .. Len(p)
    BY <1>2, <1>3
  <1>5. up \subseteq Nat
    BY <1>2, <1>3
  <1> HIDE DEF q, up
  <1>6. worker' \in AnyWorker /\ worker'.paths = q
    BY <1>1, <1>4, <1>5 DEF TrainInv, WorkerInv, AnyWorker
  <1>7. WorkerInv'
    <2>1. \A i \in 1 .. Len(q) : /\ q[i] \in 1 .. Len(files)
                                 /\ files[q[i]].suffix = "json"
      BY <1>4 DEF TrainInv, WorkerInv
    <2> QED
      BY <1>1, <1>6, <2>1 DEF WorkerInv
  <1>8. \A i \in 1 .. n : new[i] \in AnyRow
    <2> SUFFICES ASSUME NEW i \in 1 .. n PROVE new[i] \in AnyRow
      OBVIOUS
    <2>1. i \in 1 .. Len(p)
      BY <1>2, <1>3
    <2>2. p[i] \in 1 .. Len(files) /\ files[p[i]].suffix = "json"
      BY <2>1 DEF TrainInv, WorkerInv
    <2>3. files[p[i]].content \in Good /\ files[p[i]] \in AnyFile
      BY <1>2, <2>2 DEF TrainInv, FilesInv
    <2>4. files[p[i]].mtime \in Nat /\ number \in Nat
      BY <2>3 DEF AnyFile, TrainInv
    <2> QED
      BY <2>3, <2>4 DEF Row, AnyRow, CheckpointRow
  <1>9. new \in Seq(AnyRow)
    BY <1>2, <1>3, <1>8
  <1> HIDE DEF new
  <1>10. rows' \in Seq(AnyRow)
    BY <1>1, <1>9 DEF TrainInv
  <1> QED
    BY <1>1, <1>7, <1>10 DEF TrainInv, TaskInv, FilesInv

LEMMA ReportOutputsStep ==
  ASSUME TrainInv, ReportOutputs
  PROVE  TrainInv'
  <1> DEFINE log == Row("log", "", 0)
             new == [i \in DOMAIN outputs |-> Row("output", outputs[i], 0)]
  <1>1. /\ UNCHANGED <<number, task, files, outputs>>
        /\ rows' = rows \o <<log>> \o new
        /\ worker' = [worker EXCEPT !.pc = "result"]
    BY DEF ReportOutputs
  <1>2. number \in Nat /\ outputs \in Seq(Whole) /\ rows \in Seq(AnyRow)
    BY DEF TrainInv
  <1>3. log \in AnyRow
    BY <1>2 DEF Row, AnyRow, LogRow
  <1>4. \A i \in DOMAIN outputs : new[i] \in AnyRow
    BY <1>2 DEF Row, AnyRow, OutputRow
  <1>5. new \in Seq(AnyRow)
    BY <1>2, <1>4
  <1> HIDE DEF log, new
  <1>6. rows' \in Seq(AnyRow)
    BY <1>1, <1>2, <1>3, <1>5
  <1>7. WorkerInv'
    BY <1>1 DEF TrainInv, WorkerInv, AnyWorker
  <1> QED
    BY <1>1, <1>6, <1>7 DEF TrainInv, TaskInv, FilesInv

LEMMA TrainStep == ASSUME Counting, TrainInv, [Next]_vars PROVE TrainInv'
  <1>1. CASE UNCHANGED vars
    BY <1>1 DEF vars, TrainInv, TaskInv, FilesInv, WorkerInv
  <1>2. CASE EndAttempt \/ Result
    BY <1>2, FinishStep DEF EndAttempt, Result
  <1> QED
    BY <1>1, <1>2, OtherSteps, RestoreStep, LoadStep, TrainEpochStep,
       SaveStep, PublishStep, ExitSteps, ProgressStep, WorkerSteps,
       ReportBatchStep, ReportOutputsStep DEF Next

-----------------------------------------------------------------------------
(* What aggregate.py reports.                                              *)

(* Row i holds metrics of the last attempt; and it is the only one.        *)
Last(i) == rows[i].attempt = number /\ rows[i].kind = "output"
OneLast == \E i \in DOMAIN rows : \A k \in DOMAIN rows : Last(k) <=> k = i

(* Metrics are recorded once in an attempt, by the worker that found the   *)
(* command ended, and nothing is recorded once the job has a result.       *)
ResultInv ==
  /\ job \in {"QUEUED", "RUNNING", "SUCCEEDED", "FAILED"}
  /\ job # "RUNNING" => worker.pc = "idle" /\ task.pc = "none"
  /\ \A i \in DOMAIN rows : rows[i].attempt <= number
  /\ worker.polled => task.pc = "exited" /\ worker.pc # "restore"
  /\ worker.pc \in {"outputs", "result"} => task.pc = "exited"
  /\ task.pc = "exited" /\ task.code = 0 => Len(outputs) = 1
  /\ job = "RUNNING" /\ worker.pc # "result" =>
       \A i \in DOMAIN rows : ~Last(i)
  /\ job = "RUNNING" /\ worker.pc = "result" /\ task.code = 0 => OneLast
  /\ job = "SUCCEEDED" => OneLast

StudyInv ==
  /\ study = [pc |-> study.pc, metrics |-> study.metrics]
  /\ study.pc = "read" => job = "SUCCEEDED"
  /\ study.pc = "raised" => job \in {"SUCCEEDED", "FAILED"}
  /\ AggregateSound

LEMMA ResultInit == Init => ResultInv /\ StudyInv
  BY DEF Init, ResultInv, StudyInv, AggregateSound, NoTask, NoWorker

(* A step that neither records anything nor ends the attempt.              *)
LEMMA Quiet ==
  ASSUME TrainInv, ResultInv, job' = job, number' = number, rows' = rows,
         job = "RUNNING" \/ (worker'.pc = "idle" /\ task'.pc = "none"),
         worker.pc = "result" <=> worker'.pc = "result",
         worker.pc = "result" => task'.code = task.code,
         worker'.polled => task'.pc = "exited" /\ worker'.pc # "restore",
         worker'.pc \in {"outputs", "result"} => task'.pc = "exited",
         task'.pc = "exited" /\ task'.code = 0 => Len(outputs') = 1
  PROVE  ResultInv'
  BY DEF ResultInv, OneLast, Last

LEMMA QuietSteps ==
  ASSUME TrainInv, ResultInv,
         \/ Damage \/ Restore \/ Load \/ TrainEpoch \/ Save \/ Publish
         \/ Crash \/ Evaluate \/ Progress \/ Upload \/ Reported
         \/ Poll \/ Read
  PROVE  ResultInv'
  <1>0. worker \in AnyWorker /\ TaskInv
    BY DEF TrainInv, WorkerInv
  <1>1. CASE Damage \/ Poll \/ Read
    BY <1>1 DEF Damage, Poll, Read, ResultInv, OneLast, Last
  <1>2. CASE Restore
    <2>1. /\ worker' \in AnyWorker /\ worker'.pc = "loop"
          /\ worker'.polled = worker.polled /\ task'.pc = "load"
          /\ worker.pc = "restore"
          /\ UNCHANGED <<job, number, rows, outputs>>
      BY SMTT(30), <1>0, <1>2 DEF Restore, AnyWorker
    <2> QED
      BY <2>1, Quiet DEF ResultInv
  <1>3. CASE Load \/ Crash \/ Evaluate
    <2>1. /\ UNCHANGED <<job, number, rows, worker>>
          /\ task.pc \in {"load", "train", "save", "publish"}
          /\ \/ task'.pc = "train" \/ (task'.pc = "exited" /\ task'.code = 1)
             \/ task'.pc = "exited" /\ Len(outputs') = 1
      BY <1>3 DEF Load, Crash, Evaluate, Begin, Exit
    <2>2. job = "RUNNING" /\ ~worker.polled
          /\ worker.pc \notin {"outputs", "result"}
      BY <2>1 DEF ResultInv
    <2> QED
      BY <2>1, <2>2, Quiet
  <1>4. CASE TrainEpoch \/ Save \/ Publish
    <2>1. /\ UNCHANGED <<job, number, rows, worker, outputs>>
          /\ task.pc \in {"train", "save", "publish"}
      BY <1>4 DEF TrainEpoch, Save, Publish
    <2>2. task \in Training
      BY <1>0, <2>1 DEF TaskInv
    <2>3. task'.pc \in {"train", "save", "publish"}
      BY <1>4, <2>2 DEF TrainEpoch, Save, Publish, Training
    <2>4. job = "RUNNING" /\ ~worker.polled
          /\ worker.pc \notin {"outputs", "result"}
      BY <2>1 DEF ResultInv
    <2> QED
      BY <2>1, <2>3, <2>4, Quiet
  <1>5. CASE Progress
    <2>1. PICK paths : worker' = [worker EXCEPT !.pc = "upload",
                         !.paths = paths, !.polled = task.pc = "exited"]
      BY <1>5 DEF Progress
    <2>2. /\ worker.pc = "loop" /\ worker'.pc = "upload"
          /\ worker'.polled <=> task.pc = "exited"
          /\ UNCHANGED <<job, number, rows, task, outputs>>
      BY <1>0, <1>5, <2>1 DEF Progress, AnyWorker
    <2> QED
      BY <2>2, Quiet DEF ResultInv
  <1>6. CASE Upload
    <2>1. /\ worker.pc = "upload" /\ worker'.pc = "report"
          /\ worker'.polled = worker.polled
          /\ UNCHANGED <<job, number, rows, task, outputs>>
      BY <1>0, <1>6 DEF Upload, AnyWorker
    <2> QED
      BY <2>1, Quiet DEF ResultInv
  <1>7. CASE Reported
    <2>1. /\ worker.pc = "report" /\ worker'.polled = worker.polled
          /\ \/ worker.polled /\ worker'.pc = "outputs"
             \/ worker'.pc = "loop"
          /\ UNCHANGED <<job, number, rows, task, outputs>>
      BY <1>0, <1>7 DEF Reported, AnyWorker
    <2> QED
      BY <2>1, Quiet DEF ResultInv
  <1> QED
    BY <1>1, <1>2, <1>3, <1>4, <1>5, <1>6, <1>7

LEMMA LeaseResult ==
  ASSUME TrainInv, ResultInv, LeaseJob
  PROVE  ResultInv'
  <1>1. /\ job' = "RUNNING" /\ number' = number + 1
        /\ UNCHANGED <<rows, task, outputs>> /\ task.pc = "none"
    BY DEF LeaseJob, ResultInv
  <1>2. worker'.pc = "restore" /\ ~worker'.polled
    BY DEF LeaseJob, NoWorker
  <1>3. number \in Nat /\ \A i \in DOMAIN rows : rows[i].attempt \in Nat
    <2>1. \A i \in DOMAIN rows : rows[i] \in AnyRow
      BY DEF TrainInv
    <2> QED
      BY <2>1 DEF TrainInv, AnyRow, CheckpointRow, OutputRow, LogRow
  <1>4. \A i \in DOMAIN rows : rows[i].attempt < number'
    BY <1>1, <1>3 DEF ResultInv
  <1> QED
    BY <1>1, <1>2, <1>3, <1>4 DEF ResultInv, Last

LEMMA EndResult ==
  ASSUME TrainInv, ResultInv, EndAttempt \/ Result
  PROVE  ResultInv'
  <1>1. /\ UNCHANGED <<number, rows>> /\ outputs' = <<>>
        /\ task'.pc = "none" /\ worker'.pc = "idle" /\ ~worker'.polled
    BY DEF EndAttempt, Result, Finish, NoTask, NoWorker
  <1>2. RetryState(number, MaxAttempts) \in {"QUEUED", "FAILED"}
    BY DEF RetryState
  <1>3. \/ job' \in {"QUEUED", "FAILED"}
        \/ job' = "SUCCEEDED" /\ worker.pc = "result" /\ task.code = 0
    BY <1>2 DEF EndAttempt, Result, Finish
  <1>4. job' = "SUCCEEDED" => OneLast
    BY <1>3 DEF ResultInv
  <1> QED
    BY <1>1, <1>3, <1>4 DEF ResultInv, OneLast, Last

(* The rows of one report: one for each file, in the order of the list.    *)
LEMMA BatchRows ==
  ASSUME TrainInv, ReportBatch
  PROVE  LET n == least(Batch, Len(worker.paths))
             file(i) == files[worker.paths[i]]
         IN /\ n \in 0 .. Len(worker.paths)
            /\ DOMAIN rows' = 1 .. Len(rows) + n
            /\ \A i \in 1 .. Len(rows) : rows'[i] = rows[i]
            /\ \A i \in 1 .. Len(rows) + n : i > Len(rows) =>
                 /\ i - Len(rows) \in 1 .. n
                 /\ rows'[i].attempt = number
                 /\ rows'[i].kind = "checkpoint"
                 /\ rows'[i].content = file(i - Len(rows)).content
                 /\ rows'[i].mtime = file(i - Len(rows)).mtime
  <1> DEFINE p == worker.paths
             n == least(Batch, Len(p))
             m == Len(rows)
             new == [i \in 1 .. n |-> Row("checkpoint", files[p[i]].content,
                                          files[p[i]].mtime)]
  <1>1. rows' = rows \o new
    BY DEF ReportBatch
  <1>2. rows \in Seq(AnyRow) /\ m \in Nat /\ Len(p) \in Nat
    BY DEF TrainInv, WorkerInv, AnyWorker
  <1>3. n \in 0 .. Len(p) /\ n \in Nat
    BY <1>2, CheckpointsAssumption DEF least
  <1> HIDE DEF n
  <1>4. /\ DOMAIN new = 1 .. n
        /\ \A i \in 1 .. n : /\ new[i].attempt = number
                             /\ new[i].kind = "checkpoint"
                             /\ new[i].content = files[p[i]].content
                             /\ new[i].mtime = files[p[i]].mtime
    BY DEF Row
  <1> HIDE DEF new
  <1>5. /\ DOMAIN rows' = 1 .. m + n
        /\ \A i \in 1 .. m : rows'[i] = rows[i]
        /\ \A i \in 1 .. m + n : i > m => /\ i - m \in 1 .. n
                                          /\ rows'[i] = new[i - m]
    BY <1>1, <1>2, <1>3, <1>4
  <1> QED
    BY <1>3, <1>4, <1>5 DEF n

LEMMA BatchResult ==
  ASSUME TrainInv, ResultInv, ReportBatch
  PROVE  ResultInv'
  <1>1. /\ UNCHANGED <<job, number, task, outputs>> /\ worker.pc = "report"
    BY DEF ReportBatch
  <1>2. worker'.pc = "report" /\ worker'.polled = worker.polled
    BY DEF ReportBatch, TrainInv, WorkerInv, AnyWorker
  <1>3. rows \in Seq(AnyRow) /\ Len(rows) \in Nat /\ number \in Nat
    BY DEF TrainInv
  <1>4. \A i \in DOMAIN rows' :
          \/ i \in DOMAIN rows /\ rows'[i] = rows[i]
          \/ rows'[i].attempt = number /\ rows'[i].kind = "checkpoint"
    BY <1>3, BatchRows
  <1> QED
    BY <1>1, <1>2, <1>3, <1>4 DEF ResultInv, Last

LEMMA Joined ==
  ASSUME NEW S, NEW s \in Seq(S), NEW t \in Seq(S)
  PROVE  /\ s \o t \in Seq(S) /\ Len(s \o t) = Len(s) + Len(t)
         /\ \A i \in 1 .. Len(s) + Len(t) : (s \o t)[i] =
              IF i <= Len(s) THEN s[i] ELSE t[i - Len(s)]
  OBVIOUS

(* The rows recorded at the end of an attempt: the log, and the metrics.   *)
LEMMA OutputsRows ==
  ASSUME TrainInv, ReportOutputs
  PROVE  /\ DOMAIN rows' = 1 .. Len(rows) + 1 + Len(outputs)
         /\ \A i \in 1 .. Len(rows) : rows'[i] = rows[i]
         /\ rows'[Len(rows) + 1] = Row("log", "", 0)
         /\ \A i \in 1 .. Len(rows) + 1 + Len(outputs) : i > Len(rows) + 1 =>
              rows'[i].attempt = number /\ rows'[i].kind = "output"
  <1> DEFINE log == Row("log", "", 0)
             new == [i \in DOMAIN outputs |-> Row("output", outputs[i], 0)]
             n == Len(rows)
  <1>1. rows' = rows \o <<log>> \o new
    BY DEF ReportOutputs
  <1>2. /\ rows \in Seq(AnyRow) /\ n \in Nat /\ DOMAIN rows = 1 .. n
        /\ outputs \in Seq(Whole) /\ Len(outputs) \in Nat
    BY DEF TrainInv
  <1>3. /\ DOMAIN new = 1 .. Len(outputs)
        /\ \A i \in 1 .. Len(outputs) :
             new[i].attempt = number /\ new[i].kind = "output"
    BY <1>2 DEF Row
  <1> HIDE DEF log, new
  <1>4. /\ DOMAIN rows' = 1 .. n + 1 + Len(outputs)
        /\ \A i \in 1 .. n : rows'[i] = rows[i]
        /\ rows'[n + 1] = log
        /\ \A i \in 1 .. n + 1 + Len(outputs) : i > n + 1 =>
             rows'[i].attempt = number /\ rows'[i].kind = "output"
    <2>1. new \in Seq({new[i] : i \in DOMAIN new}) /\ Len(new) = Len(outputs)
      BY <1>2, <1>3 DEF new
    <2> DEFINE T == AnyRow \cup {log} \cup {new[i] : i \in DOMAIN new}
               mid == rows \o <<log>>
    <2>2. rows \in Seq(T) /\ <<log>> \in Seq(T) /\ new \in Seq(T)
      BY <1>2, <2>1
    <2> HIDE DEF T
    <2>3. /\ mid \in Seq(T) /\ Len(mid) = n + 1
          /\ \A i \in 1 .. n : mid[i] = rows[i]
          /\ mid[n + 1] = log
      BY <1>2, <2>2
    <2> HIDE DEF mid
    <2>4. rows' = mid \o new
      BY <1>1 DEF mid
    <2>5. /\ DOMAIN rows' = 1 .. n + 1 + Len(outputs)
          /\ \A i \in 1 .. n + 1 : rows'[i] = mid[i]
      <3>1. /\ rows' \in Seq(T) /\ Len(rows') = Len(mid) + Len(new)
            /\ \A i \in 1 .. Len(mid) : rows'[i] = mid[i]
        <4>1. Len(mid) \in Nat /\ Len(new) \in Nat
          BY <1>2, <2>1, <2>3
        <4>2. /\ rows' \in Seq(T) /\ Len(rows') = Len(mid) + Len(new)
              /\ \A i \in 1 .. Len(mid) + Len(new) : rows'[i] =
                   IF i <= Len(mid) THEN mid[i] ELSE new[i - Len(mid)]
          <5>1. /\ mid \o new \in Seq(T)
                /\ Len(mid \o new) = Len(mid) + Len(new)
                /\ \A i \in 1 .. Len(mid) + Len(new) : (mid \o new)[i] =
                     IF i <= Len(mid) THEN mid[i] ELSE new[i - Len(mid)]
            BY <2>2, <2>3, Joined, Zenon
          <5> QED
            BY <2>4, <5>1, Zenon
        <4> QED
          BY <4>1, <4>2
      <3>2. DOMAIN rows' = 1 .. Len(rows')
        BY <3>1
      <3> QED
        BY <1>2, <2>1, <2>3, <3>1, <3>2
    <2>6. ASSUME NEW i \in 1 .. n + 1 + Len(outputs), i > n + 1
          PROVE  rows'[i].attempt = number /\ rows'[i].kind = "output"
      <3>1. rows'[i] = new[i - (n + 1)] /\ i - (n + 1) \in 1 .. Len(outputs)
        BY <1>2, <2>1, <2>2, <2>3, <2>4, <2>6
      <3> QED
        BY <1>3, <3>1
    <2> QED
      BY <1>2, <2>3, <2>5, <2>6
  <1> QED
    BY <1>4 DEF log

LEMMA OutputsResult ==
  ASSUME TrainInv, ResultInv, ReportOutputs
  PROVE  ResultInv'
  <1> DEFINE log == Row("log", "", 0)
             n == Len(rows)
  <1>1. /\ UNCHANGED <<job, number, task, outputs>>
        /\ worker.pc = "outputs"
    BY DEF ReportOutputs
  <1>2. worker'.pc = "result" /\ worker'.polled = worker.polled
    BY DEF ReportOutputs, TrainInv, WorkerInv, AnyWorker
  <1>3. /\ job = "RUNNING" /\ task.pc = "exited"
        /\ \A i \in DOMAIN rows : ~Last(i)
    BY <1>1 DEF ResultInv
  <1>4. /\ rows \in Seq(AnyRow) /\ n \in Nat /\ DOMAIN rows = 1 .. n
        /\ number \in Nat /\ outputs \in Seq(Whole) /\ Len(outputs) \in Nat
    BY DEF TrainInv
  <1>5. log.attempt = number /\ log.kind = "log"
    BY DEF Row
  <1> HIDE DEF log
  <1>6. /\ DOMAIN rows' = 1 .. n + 1 + Len(outputs)
        /\ \A i \in 1 .. n : rows'[i] = rows[i]
        /\ rows'[n + 1] = log
        /\ \A i \in 1 .. n + 1 + Len(outputs) : i > n + 1 =>
             rows'[i].attempt = number /\ rows'[i].kind = "output"
    BY OutputsRows DEF log
  <1>7. \A i \in DOMAIN rows' : rows'[i].attempt <= number
    BY <1>4, <1>5, <1>6 DEF ResultInv
  <1>8. \A i \in 1 .. n + 1 + Len(outputs) :
          rows'[i].attempt = number /\ rows'[i].kind = "output" <=> i > n + 1
    BY <1>3, <1>4, <1>5, <1>6 DEF Last
  <1>9. task.code = 0 => OneLast'
    <2> SUFFICES ASSUME Len(outputs) = 1 PROVE OneLast'
      BY <1>3 DEF ResultInv
    <2>1. n + 2 \in DOMAIN rows'
          /\ \A k \in DOMAIN rows' : Last(k)' <=> k = n + 2
      BY <1>1, <1>4, <1>6, <1>8 DEF Last
    <2> QED
      BY <2>1 DEF OneLast
  <1> QED
    BY <1>1, <1>2, <1>3, <1>7, <1>9 DEF ResultInv

LEMMA ResultStep == ASSUME TrainInv, ResultInv, [Next]_vars PROVE ResultInv'
  <1>1. CASE UNCHANGED vars
    BY <1>1 DEF vars, ResultInv, OneLast, Last
  <1> QED
    BY <1>1, LeaseResult, EndResult, QuietSteps, BatchResult, OutputsResult
    DEF Next

(* The study reads a job that has its result, and rows that stay.          *)
LEMMA StudySteps ==
  ASSUME Counting, TrainInv, ResultInv, StudyInv, Poll \/ Read
  PROVE  StudyInv'
  <1>1. UNCHANGED <<job, number, rows, damaged>>
    BY DEF Poll, Read
  <1>2. CASE Poll
    <2>1. PICK pc : /\ study' = [study EXCEPT !.pc = pc]
                    /\ \/ pc = "read" /\ job = "SUCCEEDED"
                       \/ pc = "raised" /\ job = "FAILED"
                       \/ pc = "timeout"
      BY <1>2 DEF Poll
    <2>2. study'.pc = pc /\ study' = [pc |-> pc, metrics |-> study.metrics]
      BY <2>1 DEF StudyInv
    <2> QED
      BY <1>1, <2>1, <2>2 DEF StudyInv, AggregateSound
  <1>3. CASE Read
    <2>1. study.pc = "read" /\ job = "SUCCEEDED"
      BY <1>3 DEF Read, StudyInv
    <2>2. CASE \E i \in MetricsOfLast :
                 study' = [pc |-> "done", metrics |-> <<rows[i].content>>]
      <3>1. PICK i \in MetricsOfLast :
              study' = [pc |-> "done", metrics |-> <<rows[i].content>>]
        BY <2>2
      <3>2. Len(rows) \in Nat /\ DOMAIN rows = 1 .. Len(rows) /\ Limit \in Nat
        BY CheckpointsAssumption DEF TrainInv
      <3>3. /\ i \in DOMAIN rows /\ rows[i].attempt = number
            /\ rows[i].kind = "output"
        BY <3>2 DEF MetricsOfLast, Listed, least
      <3> QED
        BY <1>1, <2>1, <3>1, <3>3 DEF StudyInv, AggregateSound
    <2>3. CASE /\ study' = [study EXCEPT !.pc = "raised"]
               /\ \/ Cardinality(MetricsOfLast) # 1
                  \/ \E i \in MetricsOfLast : ~Intact(i)
      <3>1. study'.pc = "raised"
            /\ study' = [pc |-> "raised", metrics |-> study.metrics]
        BY <2>3 DEF StudyInv
      <3>2. ASSUME damaged = {}, ~(Len(rows) > Limit) PROVE FALSE
        <4>1. Len(rows) \in Nat /\ DOMAIN rows = 1 .. Len(rows)
              /\ Limit \in Nat
          BY CheckpointsAssumption DEF TrainInv
        <4>2. Listed = DOMAIN rows
          <5>1. least(Limit, Len(rows)) = Len(rows)
            <6>1. \A l, n \in Nat : ~(n > l) => least(l, n) = n
              BY DEF least
            <6> QED
              BY <3>2, <4>1, <6>1
          <5> QED
            BY <4>1, <5>1 DEF Listed
        <4>3. PICK i \in DOMAIN rows : \A k \in DOMAIN rows : Last(k) <=> k = i
          BY <2>1 DEF ResultInv, OneLast
        <4>4. MetricsOfLast = {i}
          BY <4>2, <4>3 DEF MetricsOfLast, Last
        <4> QED
          BY <2>3, <3>2, <4>4 DEF Counting, Intact
      <3> QED
        BY <1>1, <2>1, <3>1, <3>2 DEF StudyInv, AggregateSound
    <2> QED
      BY <1>3, <2>2, <2>3 DEF Read
  <1> QED
    BY <1>2, <1>3

(* The other steps leave the study alone, and the rows of a job that has   *)
(* its result.                                                             *)
LEMMA OthersAndStudy ==
  ASSUME TrainInv, ResultInv, StudyInv, Next, ~Poll, ~Read
  PROVE  StudyInv'
  <1>1. study' = study
    BY DEF Next, LeaseJob, EndAttempt, Result, Finish, Damage, Restore, Load,
           TrainEpoch, Save, Publish, Crash, Evaluate, Progress, Upload,
           ReportBatch, Reported, ReportOutputs
  <1>2. CASE job \in {"SUCCEEDED", "FAILED"}
    <2>1. Damage
      BY <1>2 DEF Next, ResultInv, LeaseJob, EndAttempt, Result, Restore, Load,
             TrainEpoch, Save, Publish, Crash, Evaluate, Progress, Upload,
             ReportBatch, Reported, ReportOutputs
    <2>2. UNCHANGED <<job, number, rows>> /\ damaged' # {}
      BY <2>1 DEF Damage
    <2> QED
      BY <1>1, <2>2 DEF StudyInv, AggregateSound
  <1>3. CASE job \notin {"SUCCEEDED", "FAILED"}
    <2>1. study.pc \notin {"read", "done", "raised"}
      BY <1>3 DEF StudyInv, AggregateSound
    <2> QED
      BY <1>1, <2>1 DEF StudyInv, AggregateSound
  <1> QED
    BY <1>2, <1>3

LEMMA StudyStep ==
  ASSUME Counting, TrainInv, ResultInv, StudyInv, [Next]_vars
  PROVE  StudyInv'
  <1>1. CASE UNCHANGED vars
    BY <1>1 DEF vars, StudyInv, AggregateSound
  <1> QED
    BY <1>1, StudySteps, OthersAndStudy

-----------------------------------------------------------------------------
(* Types.                                                                  *)

(* Attempts are counted from 1 and no further than allowed: a job waits    *)
(* only while an attempt is left.                                          *)
CountInv ==
  /\ number <= MaxAttempts
  /\ job = "QUEUED" => number < MaxAttempts
  /\ job = "RUNNING" => number >= 1
  /\ \A i \in DOMAIN rows : rows[i].attempt >= 1
  /\ damaged \subseteq DOMAIN rows
  /\ study.pc \in {"poll", "read", "done", "raised", "timeout"}

LEMMA CountStep ==
  ASSUME TrainInv, ResultInv, StudyInv, CountInv, [Next]_vars
  PROVE  CountInv'
  <1>0. /\ number \in Nat /\ MaxAttempts \in Nat /\ rows \in Seq(AnyRow)
        /\ Len(rows) \in Nat /\ DOMAIN rows = 1 .. Len(rows)
    BY CheckpointsAssumption DEF TrainInv
  <1>1. CASE LeaseJob
    BY <1>0, <1>1 DEF LeaseJob, CountInv
  <1>2. CASE EndAttempt \/ Result
    <2>1. UNCHANGED <<number, rows, damaged, study>>
      BY <1>2 DEF EndAttempt, Result, Finish
    <2>2. job' \in {"SUCCEEDED", RetryState(number, MaxAttempts)}
      BY <1>2 DEF EndAttempt, Result, Finish
    <2>3. job' # "RUNNING" /\ (job' = "QUEUED" => number < MaxAttempts)
      BY <2>2 DEF RetryState
    <2> QED
      BY <2>1, <2>3 DEF CountInv
  <1>3. CASE Damage
    BY <1>3 DEF Damage, CountInv
  <1>4. CASE \/ Restore \/ Load \/ TrainEpoch \/ Save \/ Publish \/ Crash
             \/ Evaluate \/ Progress \/ Upload \/ Reported
             \/ UNCHANGED vars
    <2>1. UNCHANGED <<job, number, rows, damaged, study>>
      BY <1>4 DEF Restore, Load, TrainEpoch, Save, Publish, Crash, Evaluate,
                  Progress, Upload, Reported, vars
    <2> QED
      BY <2>1 DEF CountInv
  <1>5. CASE Poll
    <2>1. /\ UNCHANGED <<job, number, rows, damaged>>
          /\ study'.pc \in {"read", "raised", "timeout"}
      BY <1>5 DEF Poll, StudyInv
    <2> QED
      BY <2>1 DEF CountInv
  <1>6. CASE Read
    <2>1. /\ UNCHANGED <<job, number, rows, damaged>>
          /\ study'.pc \in {"done", "raised"}
      BY <1>6 DEF Read, StudyInv
    <2> QED
      BY <2>1 DEF CountInv
  <1>7. CASE ReportBatch
    <2>1. UNCHANGED <<job, number, damaged, study>> /\ job = "RUNNING"
      BY <1>7 DEF ReportBatch, ResultInv
    <2>2. /\ DOMAIN rows \subseteq DOMAIN rows'
          /\ \A i \in DOMAIN rows' : \/ i \in DOMAIN rows /\ rows'[i] = rows[i]
                                     \/ rows'[i].attempt = number
      BY <1>7, BatchRows, <1>0
    <2> QED
      BY <2>1, <2>2 DEF CountInv
  <1>8. CASE ReportOutputs
    <2>1. UNCHANGED <<job, number, damaged, study>> /\ job = "RUNNING"
      BY <1>8 DEF ReportOutputs, ResultInv
    <2>2. Len(outputs) \in Nat /\ rows'[Len(rows) + 1].attempt = number
      <3>1. Len(outputs) \in Nat
        BY DEF TrainInv
      <3>2. rows'[Len(rows) + 1] = Row("log", "", 0)
        BY <1>8, OutputsRows
      <3>3. Row("log", "", 0).attempt = number
        BY DEF Row
      <3> QED
        BY <3>1, <3>2, <3>3
    <2>3. /\ DOMAIN rows \subseteq DOMAIN rows'
          /\ \A i \in DOMAIN rows' : \/ i \in DOMAIN rows /\ rows'[i] = rows[i]
                                     \/ rows'[i].attempt = number
      <3>1. /\ DOMAIN rows' = 1 .. Len(rows) + 1 + Len(outputs)
            /\ \A i \in 1 .. Len(rows) : rows'[i] = rows[i]
            /\ \A i \in 1 .. Len(rows) + 1 + Len(outputs) :
                 i > Len(rows) + 1 => rows'[i].attempt = number
        BY <1>8, OutputsRows
      <3> QED
        BY <1>0, <2>2, <3>1
    <2> QED
      BY <2>1, <2>3 DEF CountInv
  <1> QED
    BY <1>1, <1>2, <1>3, <1>4, <1>5, <1>6, <1>7, <1>8 DEF Next

(* Every value a variable takes is of its type.                            *)
LEMMA TypesFollow ==
  ASSUME TrainInv, ResultInv, CountInv
  PROVE  TypeOK
  <1>1. number \in 0 .. MaxAttempts
    BY CheckpointsAssumption DEF TrainInv, CountInv
  <1>2. Good \subseteq Trained
    BY DEF Good
  <1>3. Whole \subseteq Metrics
    <2> SUFFICES ASSUME NEW d \in Data PROVE Uninterrupted(d) \in Metrics
      BY DEF Whole
    <2>1. [e \in 1 .. Epochs |-> <<d, e - 1>>] \in Seq(Data \X (0 .. Epochs))
          /\ Epochs \in 0 .. Epochs
      BY CheckpointsAssumption
    <2> QED
      BY <2>1 DEF Uninterrupted, Metrics
  <1>4. ASSUME NEW i \in DOMAIN rows
        PROVE  /\ rows[i].attempt \in 1 .. number
               /\ \/ rows[i].kind = "checkpoint"
                     /\ rows[i].content \in Trained \cup {Torn}
                  \/ rows[i].kind = "output" /\ rows[i].content \in Metrics
                  \/ rows[i].kind = "log"
    <2>1. rows[i] \in AnyRow
      BY DEF TrainInv
    <2>2. rows[i].attempt \in Nat
      BY <2>1 DEF AnyRow, CheckpointRow, OutputRow, LogRow
    <2>3. rows[i].attempt \in 1 .. number
      BY <2>2 DEF TrainInv, ResultInv, CountInv
    <2>4. \/ rows[i].kind = "checkpoint" /\ rows[i].content \in Good
          \/ rows[i].kind = "output" /\ rows[i].content \in Whole
          \/ rows[i].kind = "log"
      BY <2>1 DEF AnyRow, CheckpointRow, OutputRow, LogRow
    <2> QED
      BY <1>2, <1>3, <2>3, <2>4
  <1>5. ASSUME NEW i \in DOMAIN files
        PROVE  /\ files[i].suffix \in {"tmp", "json"}
               /\ files[i].content \in Trained \cup {Torn}
    <2>1. files[i] \in AnyFile
      BY DEF TrainInv, FilesInv
    <2> QED
      BY <1>2, <2>1 DEF AnyFile
  <1>6. /\ task.pc \in {"none", "load", "train", "save", "publish", "exited"}
        /\ worker.pc \in {"idle", "restore", "loop", "upload", "report",
                          "outputs", "result"}
    BY DEF TrainInv, TaskInv, Training, WorkerInv, AnyWorker
  <1> QED
    BY <1>1, <1>4, <1>5, <1>6 DEF TypeOK, ResultInv, CountInv

-----------------------------------------------------------------------------
(* The order of checkpoints.                                               *)

(* Rows of checkpoints, and files under their final name.                  *)
Saved == {i \in DOMAIN rows : rows[i].kind = "checkpoint"}
Json == {i \in DOMAIN files : files[i].suffix = "json"}

(* The files are in the order of training and of their times, and the      *)
(* state of the command is ahead of them.                                  *)
FilesOrder ==
  /\ task.pc \in {"none", "load"} => files = <<>>
  /\ \A i, k \in Json : i < k =>
       /\ files[i].content.epoch < files[k].content.epoch
       /\ files[i].mtime <= files[k].mtime
  /\ task.pc \in {"train", "save", "publish"} => \A i \in Json :
       /\ files[i].mtime <= task.time
       /\ files[i].content.epoch <= task.state.epoch
       /\ task.pc # "train" => files[i].content.epoch < task.state.epoch
  /\ task.pc \in {"save", "publish"} => Len(files) \notin Json
  /\ task.pc = "publish" =>
       /\ files[Len(files)].content = task.state
       /\ files[Len(files)].mtime = task.time

(* The time of f is not before that of a file uploaded or listed.          *)
Late(f) ==
  /\ \A u \in worker.uploaded : files[u].mtime <= files[f].mtime
  /\ \A i \in DOMAIN worker.paths :
       files[worker.paths[i]].mtime <= files[f].mtime

(* Files are uploaded in the order of their times.                         *)
UploadOrder ==
  /\ worker.pc = "restore" => task.pc = "none"
  /\ worker.pc \notin {"upload", "report"} => worker.paths = <<>>
  /\ worker.uploaded \subseteq Json
  /\ \A i, k \in DOMAIN worker.paths : i < k =>
       files[worker.paths[i]].mtime <= files[worker.paths[k]].mtime
  /\ \A u \in worker.uploaded, i \in DOMAIN worker.paths :
       files[u].mtime <= files[worker.paths[i]].mtime
  /\ \A f \in Json :
       \/ f \in worker.uploaded
       \/ \E i \in DOMAIN worker.paths : worker.paths[i] = f
       \/ Late(f)

(* A later row of the same attempt has the very same file time.            *)
Tied(i) == \E j \in Saved : /\ i < j /\ rows[i].attempt = rows[j].attempt
                              /\ rows[i].mtime = rows[j].mtime

(* The command is past epoch e, wherever it is, and so are its files.      *)
Past(e) ==
  /\ task.pc = "load" => /\ task.resume # <<>>
                         /\ \A m \in DOMAIN task.resume :
                              e <= task.resume[m].epoch
  /\ task.pc = "train" => e <= task.state.epoch
  /\ task.pc \in {"save", "publish"} => e < task.state.epoch
  /\ \A f \in Json : e < files[f].content.epoch

(* A row of the attempt that runs is a file uploaded, and the attempt is   *)
(* past the rows of the attempts before it.                                *)
RowsOrder ==
  /\ ProgressOrdered
  /\ \A i \in Saved : job = "RUNNING" /\ rows[i].attempt = number =>
       \E u \in worker.uploaded : /\ files[u].content = rows[i].content
                                  /\ files[u].mtime = rows[i].mtime
  /\ \A i \in Saved : rows[i].attempt < number =>
       Tied(i) \/ Past(rows[i].content.epoch)

OrderInv == FilesOrder /\ UploadOrder /\ RowsOrder

LEMMA SavedFacts ==
  ASSUME rows \in Seq(AnyRow), NEW i \in Saved
  PROVE  /\ i \in Nat /\ i \in 1 .. Len(rows) /\ rows[i].kind = "checkpoint"
         /\ rows[i].attempt \in Nat /\ rows[i].mtime \in Nat
         /\ rows[i].content \in Good /\ rows[i].content.epoch \in Nat
  <1>1. /\ rows[i] \in AnyRow /\ rows[i].kind = "checkpoint"
        /\ i \in Nat /\ i \in 1 .. Len(rows)
    BY DEF Saved
  <1>2. rows[i] \in CheckpointRow
    BY <1>1 DEF AnyRow, OutputRow, LogRow
  <1>3. rows[i].content \in Good
    BY <1>2 DEF CheckpointRow
  <1>4. rows[i].content.epoch \in Nat
    BY <1>3, CheckpointsAssumption DEF Good, Trained
  <1> QED
    BY <1>1, <1>2, <1>3, <1>4 DEF CheckpointRow

LEMMA JsonFacts ==
  ASSUME FilesInv, NEW f \in Json
  PROVE  /\ f \in Nat /\ f \in 1 .. Len(files) /\ files[f].suffix = "json"
         /\ files[f].mtime \in Nat /\ files[f].content \in Good
         /\ files[f].content.epoch \in Nat
  <1>1. /\ files[f] \in AnyFile /\ f \in Nat /\ f \in 1 .. Len(files)
        /\ files[f].suffix = "json"
    BY DEF FilesInv, Json
  <1>2. files[f].content \in Good
    BY <1>1 DEF FilesInv
  <1>3. files[f].content.epoch \in Nat
    BY <1>2, CheckpointsAssumption DEF Good, Trained
  <1> QED
    BY <1>1, <1>2, <1>3 DEF AnyFile

(* Of two files the one with the later time holds the later epoch.         *)
LEMMA LaterIsAhead ==
  ASSUME FilesInv, FilesOrder, NEW u \in Json, NEW f \in Json,
         files[u].mtime <= files[f].mtime
  PROVE  \/ files[u].mtime = files[f].mtime
         \/ files[u].content.epoch < files[f].content.epoch
  <1>1. /\ u \in Nat /\ f \in Nat
        /\ files[u].mtime \in Nat /\ files[f].mtime \in Nat
    BY JsonFacts
  <1>2. CASE u < f
    BY <1>2 DEF FilesOrder
  <1>3. CASE f < u
    <2>1. files[f].mtime <= files[u].mtime
      BY <1>3 DEF FilesOrder
    <2> QED
      BY <1>1, <2>1
  <1>4. CASE u = f
    BY <1>4
  <1> QED
    BY <1>1, <1>2, <1>3, <1>4

LEMMA OrderInit == Init => OrderInv
  <1> SUFFICES ASSUME Init PROVE OrderInv
    OBVIOUS
  <1>1. /\ rows = <<>> /\ files = <<>> /\ task = NoTask /\ worker = NoWorker
    BY DEF Init
  <1>2. Saved = {} /\ Json = {}
    BY <1>1 DEF Saved, Json
  <1>3. FilesOrder
    BY <1>1, <1>2 DEF FilesOrder, NoTask
  <1>4. UploadOrder
    BY <1>1, <1>2 DEF UploadOrder, NoWorker
  <1>5. RowsOrder
    BY <1>2 DEF RowsOrder, ProgressOrdered, Saved
  <1> QED
    BY <1>3, <1>4, <1>5 DEF OrderInv

(* A step that records nothing: what was uploaded stays, and the command   *)
(* does not fall behind.                                                   *)
LEMMA RowsKeep ==
  ASSUME TrainInv, RowsOrder, rows' = rows, number' = number,
         job' = "RUNNING" =>
           /\ job = "RUNNING"
           /\ \A u \in worker.uploaded :
                /\ u \in worker'.uploaded
                /\ files'[u].content = files[u].content
                /\ files'[u].mtime = files[u].mtime,
         \A e \in Nat : Past(e) => Past(e)'
  PROVE  RowsOrder'
  <1>1. Saved' = Saved
    BY DEF Saved
  <1>2. ProgressOrdered'
    BY DEF RowsOrder, ProgressOrdered
  <1>3. ASSUME NEW i \in Saved, job' = "RUNNING", rows[i].attempt = number
        PROVE  \E u \in worker'.uploaded :
                 /\ files'[u].content = rows[i].content
                 /\ files'[u].mtime = rows[i].mtime
    <2>1. PICK u \in worker.uploaded : /\ files[u].content = rows[i].content
                                       /\ files[u].mtime = rows[i].mtime
      BY <1>3 DEF RowsOrder
    <2> QED
      BY <1>3, <2>1
  <1>4. ASSUME NEW i \in Saved, rows[i].attempt < number
        PROVE  (Tied(i) \/ Past(rows[i].content.epoch))'
    <2>1. rows[i].content.epoch \in Nat
      BY SavedFacts DEF TrainInv
    <2>2. CASE Tied(i)
      BY <1>1, <2>2 DEF Tied
    <2>3. CASE Past(rows[i].content.epoch)
      <3>1. PICK e \in Nat : e = rows[i].content.epoch
        BY <2>1
      <3>2. Past(e)'
        BY <2>3, <3>1
      <3> QED
        BY <3>1, <3>2
    <2> QED
      BY <1>4, <2>2, <2>3 DEF RowsOrder
  <1> QED
    BY <1>1, <1>2, <1>3, <1>4 DEF RowsOrder

LEMMA FinishOrder ==
  ASSUME TrainInv, OrderInv, EndAttempt \/ Result
  PROVE  OrderInv'
  <1>1. /\ UNCHANGED <<number, rows>> /\ files' = <<>> /\ task' = NoTask
        /\ worker' = NoWorker
    BY DEF EndAttempt, Result, Finish
  <1>2. job' # "RUNNING"
    BY DEF EndAttempt, Result, Finish, RetryState
  <1>3. Json' = {}
    BY <1>1 DEF Json
  <1>4. FilesOrder'
    BY <1>1, <1>3 DEF FilesOrder, NoTask
  <1>5. UploadOrder'
    BY <1>1, <1>3 DEF UploadOrder, NoWorker
  <1>6. \A e \in Nat : Past(e)'
    BY <1>1, <1>3 DEF Past, NoTask
  <1>7. RowsOrder'
    BY <1>1, <1>2, <1>6, RowsKeep DEF OrderInv
  <1> QED
    BY <1>4, <1>5, <1>7 DEF OrderInv

(* All rows are of an earlier attempt, and there are no files yet.         *)
LEMMA LeaseOrder ==
  ASSUME TrainInv, ResultInv, OrderInv, LeaseJob
  PROVE  OrderInv'
  <1>1. /\ UNCHANGED <<rows, task, files>> /\ number' = number + 1
        /\ worker' = [NoWorker EXCEPT !.pc = "restore"]
    BY DEF LeaseJob
  <1>2. task.pc = "none" /\ files = <<>>
    BY DEF LeaseJob, ResultInv, OrderInv, FilesOrder
  <1>3. Json' = {} /\ Saved' = Saved
    BY <1>1, <1>2 DEF Json, Saved
  <1>4. FilesOrder'
    BY <1>1, <1>2, <1>3 DEF FilesOrder
  <1>5. UploadOrder'
    <2>1. worker'.paths = <<>> /\ worker'.uploaded = {}
      BY <1>1 DEF NoWorker
    <2> QED
      BY <1>1, <1>2, <1>3, <2>1 DEF UploadOrder
  <1>6. \A i \in Saved : rows'[i].attempt < number'
    <2> SUFFICES ASSUME NEW i \in Saved PROVE rows[i].attempt < number + 1
      BY <1>1
    <2>1. rows[i].attempt \in Nat /\ number \in Nat
      BY SavedFacts DEF TrainInv
    <2>2. rows[i].attempt <= number
      BY DEF ResultInv, Saved
    <2> QED
      BY <2>1, <2>2
  <1>7. \A i \in Saved : rows'[i].attempt # number'
    <2> SUFFICES ASSUME NEW i \in Saved PROVE rows'[i].attempt # number'
      OBVIOUS
    <2>1. rows[i].attempt \in Nat /\ number' \in Nat
      BY <1>1, SavedFacts DEF TrainInv
    <2> QED
      BY <1>1, <1>6, <2>1
  <1>8. RowsOrder'
    <2>1. ProgressOrdered'
      BY <1>1 DEF OrderInv, RowsOrder, ProgressOrdered
    <2>2. \A e : Past(e)'
      BY <1>1, <1>2, <1>3 DEF Past
    <2> QED
      BY <1>3, <1>7, <2>1, <2>2 DEF RowsOrder
  <1> QED
    BY <1>4, <1>5, <1>8 DEF OrderInv

LEMMA SameOrder ==
  ASSUME OrderInv, UNCHANGED <<job, number, rows, task, files, worker>>
  PROVE  OrderInv'
  <1>1. Json' = Json /\ Saved' = Saved /\ (ProgressOrdered' <=> ProgressOrdered)
    BY DEF Json, Saved, ProgressOrdered
  <1>2. \A i : /\ Tied(i)' <=> Tied(i)
               /\ Past(i)' <=> Past(i)
               /\ Late(i)' <=> Late(i)
    BY <1>1 DEF Tied, Past, Late
  <1>3. FilesOrder' /\ UploadOrder'
    BY <1>1, <1>2 DEF OrderInv, FilesOrder, UploadOrder
  <1>4. RowsOrder'
    BY <1>1, <1>2 DEF OrderInv, RowsOrder
  <1> QED
    BY <1>3, <1>4 DEF OrderInv

(* The command gets the newest row, and the rows before it are of earlier  *)
(* epochs.                                                                 *)
LEMMA RestoreOrder ==
  ASSUME Counting, TrainInv, ResultInv, OrderInv, Restore
  PROVE  OrderInv'
  <1>1. /\ UNCHANGED <<job, number, rows, files>>
        /\ worker' = [worker EXCEPT !.pc = "loop"] /\ worker.pc = "restore"
    BY DEF Restore
  <1>2. PICK data \in Data :
          task' = [pc |-> "load", code |-> 0, data |-> data, time |-> 0,
                   resume |-> IF Newest = 0 THEN <<>>
                                            ELSE <<rows[Newest].content>>]
    BY DEF Restore
  <1>3. task'.pc = "load" /\ task'.resume = IF Newest = 0 THEN <<>>
                                            ELSE <<rows[Newest].content>>
    BY <1>2
  <1>4. files = <<>> /\ Json = {} /\ Json' = {} /\ Saved' = Saved
    BY <1>1 DEF OrderInv, UploadOrder, FilesOrder, Json, Saved
  <1>5. /\ worker'.pc = "loop" /\ worker'.paths = worker.paths
        /\ worker'.uploaded = worker.uploaded /\ worker.paths = <<>>
        /\ worker.uploaded = {}
    BY <1>1, <1>4 DEF TrainInv, WorkerInv, AnyWorker, OrderInv, UploadOrder
  <1>6. FilesOrder'
    BY <1>1, <1>3, <1>4 DEF FilesOrder
  <1>7. UploadOrder'
    BY <1>4, <1>5 DEF UploadOrder
  <1>8. ASSUME NEW i \in Saved
        PROVE  (Tied(i) \/ Past(rows[i].content.epoch))'
    <2>1. rows \in Seq(AnyRow)
      BY DEF TrainInv
    <2>2. i \in Nat /\ i # 0 /\ i <= Newest /\ rows[i].content.epoch \in Nat
      BY <2>1, NewestIsRow, SavedFacts DEF Saved
    <2>3. Newest \in Saved
      <3>1. Newest # 0
        BY <2>2
      <3> QED
        BY <2>1, <3>1, NewestIsRow DEF Saved, CheckpointRow
    <2>4. Newest \in Nat /\ Newest # 0 /\ rows[Newest].content.epoch \in Nat
      BY <2>1, <2>2, <2>3, SavedFacts
    <2>5. task'.resume = <<rows[Newest].content>>
      BY <1>3, <2>4
    <2>6. CASE rows[i].content.epoch <= rows[Newest].content.epoch
      <3>1. PICK e : e = rows[i].content.epoch
        OBVIOUS
      <3>2. task'.resume # <<>> /\ \A m \in DOMAIN task'.resume :
                                     task'.resume[m] = rows[Newest].content
        BY <2>5
      <3>3. \A m \in DOMAIN task'.resume : e <= task'.resume[m].epoch
        BY <2>6, <3>1, <3>2
      <3>4. Past(e)'
        BY <1>3, <1>4, <3>2, <3>3 DEF Past
      <3> QED
        BY <1>1, <3>1, <3>4
    <2>7. CASE \E j \in Saved : /\ i < j /\ j <= Newest
                                /\ rows[i].attempt = rows[j].attempt
                                /\ rows[i].mtime = rows[j].mtime
      BY <1>1, <1>4, <2>7 DEF Tied
    <2>8. i = Newest \/ i < Newest
      BY <2>2, <2>4
    <2>9. i < Newest =>
            \/ rows[i].content.epoch < rows[Newest].content.epoch
            \/ \E j \in Saved : /\ i < j /\ j <= Newest
                                /\ rows[i].attempt = rows[j].attempt
                                /\ rows[i].mtime = rows[j].mtime
      BY <2>3 DEF OrderInv, RowsOrder, ProgressOrdered, Saved
    <2>10. \A a, b \in Nat : a < b \/ a = b => a <= b
      OBVIOUS
    <2>11. CASE \/ i = Newest
                \/ rows[i].content.epoch < rows[Newest].content.epoch
      BY <2>2, <2>4, <2>6, <2>10, <2>11
    <2> QED
      BY <2>7, <2>8, <2>9, <2>11
  <1>9. RowsOrder'
    <2>1. ProgressOrdered'
      BY <1>1 DEF OrderInv, RowsOrder, ProgressOrdered
    <2>2. \A i \in Saved : ~(job = "RUNNING" /\ rows[i].attempt = number)
      BY <1>5 DEF OrderInv, RowsOrder
    <2> QED
      BY <1>1, <1>4, <1>8, <2>1, <2>2 DEF RowsOrder
  <1> QED
    BY <1>6, <1>7, <1>9 DEF OrderInv

(* The command starts from the state it was given; a fresh start means     *)
(* that there was no row.                                                  *)
LEMMA LoadOrder ==
  ASSUME TrainInv, ResultInv, OrderInv, Load
  PROVE  OrderInv'
  <1>1. UNCHANGED <<job, number, rows, files, worker>> /\ task.pc = "load"
    BY DEF Load
  <1>2. Json = {} /\ Json' = {} /\ worker.pc # "restore"
    BY <1>1 DEF OrderInv, UploadOrder, FilesOrder, Json
  <1>3. \/ task'.pc = "exited"
        \/ task'.pc = "train" /\ task.resume = <<>>
        \/ task'.pc = "train" /\ \E m \in DOMAIN task.resume :
                                   task'.state = task.resume[m]
    BY DEF Load, Begin, Exit
  <1>4. FilesOrder'
    BY <1>2, <1>3 DEF FilesOrder
  <1>5. UploadOrder'
    BY <1>1, <1>2 DEF OrderInv, UploadOrder
  <1>6. \A e \in Nat : Past(e) => Past(e)'
    BY <1>1, <1>2, <1>3 DEF Past
  <1>7. RowsOrder'
    BY <1>1, <1>6, RowsKeep DEF OrderInv
  <1> QED
    BY <1>4, <1>5, <1>7 DEF OrderInv

LEMMA ExitOrder ==
  ASSUME TrainInv, ResultInv, OrderInv, Crash \/ Evaluate
  PROVE  OrderInv'
  <1>1. /\ UNCHANGED <<job, number, rows, files, worker>>
        /\ task'.pc = "exited" /\ task.pc # "none"
    BY DEF Crash, Evaluate, Exit
  <1>2. Json' = Json /\ worker.pc # "restore"
    BY <1>1 DEF OrderInv, UploadOrder, Json
  <1>3. FilesOrder'
    BY <1>1, <1>2 DEF OrderInv, FilesOrder
  <1>4. UploadOrder'
    BY <1>1, <1>2 DEF OrderInv, UploadOrder, Late
  <1>5. \A e \in Nat : Past(e) => Past(e)'
    BY <1>1, <1>2 DEF Past
  <1>6. RowsOrder'
    BY <1>1, <1>5, RowsKeep DEF OrderInv
  <1> QED
    BY <1>3, <1>4, <1>6 DEF OrderInv

LEMMA PathsAreJson ==
  ASSUME TrainInv
  PROVE  \A i \in DOMAIN worker.paths : worker.paths[i] \in Json
  <1>1. worker.paths \in Seq(Nat) /\ files \in Seq(AnyFile)
    BY DEF TrainInv, WorkerInv, AnyWorker, FilesInv
  <1>2. DOMAIN worker.paths = 1 .. Len(worker.paths)
        /\ DOMAIN files = 1 .. Len(files)
    BY <1>1
  <1> QED
    BY <1>2 DEF TrainInv, WorkerInv, Json

(* The command writes, and what is under a final name stays as it is.      *)
LEMMA WritingUploads ==
  ASSUME TrainInv, UploadOrder, worker' = worker,
         task.pc \in {"train", "save", "publish"}, Json' = Json,
         \A f \in Json : /\ files'[f].content = files[f].content
                         /\ files'[f].mtime = files[f].mtime
  PROVE  UploadOrder'
  <1>1. /\ worker.uploaded \subseteq Json
        /\ \A i \in DOMAIN worker.paths : worker.paths[i] \in Json
    BY PathsAreJson DEF UploadOrder
  <1>2. \A f \in Json : Late(f) => Late(f)'
    BY <1>1 DEF Late
  <1>3. worker.pc # "restore"
    BY DEF UploadOrder
  <1>4. \A f \in Json : \/ f \in worker.uploaded
                        \/ \E i \in DOMAIN worker.paths : worker.paths[i] = f
                        \/ Late(f)'
    BY <1>2 DEF UploadOrder
  <1> QED
    BY <1>1, <1>3, <1>4 DEF UploadOrder

LEMMA TrainEpochOrder ==
  ASSUME TrainInv, ResultInv, OrderInv, TrainEpoch
  PROVE  OrderInv'
  <1> DEFINE n == Len(files)
  <1>1. /\ UNCHANGED <<job, number, rows, worker>> /\ task.pc = "train"
        /\ files' = Append(files, File("tmp", Torn))
    BY DEF TrainEpoch
  <1>2. /\ task \in Training /\ task.state \in Good
        /\ task.state.epoch \in Nat /\ task.time \in Nat
    BY <1>1, CheckpointsAssumption
    DEF TrainInv, TaskInv, Training, Good, Trained
  <1>3. /\ task'.pc = "save" /\ task'.time = task.time
        /\ task'.state.epoch = task.state.epoch + 1
    BY <1>2 DEF TrainEpoch, Training, Good, Trained
  <1>4. /\ files \in Seq(AnyFile) /\ n \in Nat
        /\ File("tmp", Torn) \in AnyFile /\ File("tmp", Torn).suffix = "tmp"
    BY <1>2 DEF TrainInv, FilesInv, File, AnyFile, Training
  <1> HIDE DEF File
  <1>5. /\ Len(files') = n + 1 /\ DOMAIN files' = 1 .. n + 1
        /\ DOMAIN files = 1 .. n
        /\ \A i \in 1 .. n : files'[i] = files[i]
        /\ files'[n + 1].suffix = "tmp"
    BY <1>1, <1>4
  <1>6. Json' = Json /\ \A f \in Json : files'[f] = files[f]
    BY <1>4, <1>5 DEF Json
  <1>7. FilesOrder'
    <2>1. Len(files') \notin Json'
      BY <1>5 DEF Json
    <2>2. \A f \in Json : /\ files[f].content.epoch \in Nat
                          /\ files[f].content.epoch <= task.state.epoch
                          /\ files[f].mtime <= task.time
      BY <1>1, JsonFacts DEF TrainInv, OrderInv, FilesOrder
    <2>3. \A f \in Json : /\ files'[f].content.epoch <= task'.state.epoch
                          /\ files'[f].content.epoch < task'.state.epoch
                          /\ files'[f].mtime <= task'.time
      BY <1>2, <1>3, <1>6, <2>2
    <2> QED
      BY <1>3, <1>6, <2>1, <2>3 DEF OrderInv, FilesOrder
  <1>8. UploadOrder'
    BY <1>1, <1>6, WritingUploads DEF OrderInv
  <1>9. \A e \in Nat : Past(e) => Past(e)'
    <2> SUFFICES ASSUME NEW e \in Nat, Past(e) PROVE Past(e)'
      OBVIOUS
    <2>1. e <= task.state.epoch /\ \A f \in Json : e < files[f].content.epoch
      BY <1>1 DEF Past
    <2>2. e < task'.state.epoch
      BY <1>2, <1>3, <2>1
    <2> QED
      BY <1>3, <1>6, <2>1, <2>2 DEF Past
  <1>10. RowsOrder'
    BY <1>1, <1>6, <1>9, RowsKeep DEF OrderInv, UploadOrder
  <1> QED
    BY <1>7, <1>8, <1>10 DEF OrderInv

LEMMA SaveOrder ==
  ASSUME TrainInv, ResultInv, OrderInv, Save
  PROVE  OrderInv'
  <1> DEFINE n == Len(files)
             new == [files[n] EXCEPT !.content = task.state,
                                     !.mtime = task'.time]
  <1>1. UNCHANGED <<job, number, rows, worker>> /\ task.pc = "save"
    BY DEF Save
  <1>2. task \in Training /\ task.time \in Nat
    BY <1>1 DEF TrainInv, TaskInv, Training
  <1>3. /\ task'.pc = "publish" /\ task'.state = task.state
        /\ task'.time \in Nat /\ task.time <= task'.time
    <2>1. PICK d \in Advance :
            task' = [task EXCEPT !.pc = "publish", !.time = @ + d]
      BY DEF Save
    <2>2. d \in Nat
      BY CheckpointsAssumption
    <2>3. /\ task'.pc = "publish" /\ task'.state = task.state
          /\ task'.time = task.time + d
      BY <1>2, <2>1 DEF Training
    <2> QED
      BY <1>2, <2>2, <2>3
  <1>4. files \in Seq(AnyFile) /\ n \in Nat /\ n > 0 /\ files[n] \in AnyFile
    BY <1>1 DEF TrainInv, FilesInv
  <1>5. /\ new.content = task.state /\ new.mtime = task'.time
        /\ new.suffix = files[n].suffix
    BY <1>4 DEF AnyFile
  <1>6. files' = [files EXCEPT ![n] = new]
    BY <1>4 DEF Save, AnyFile
  <1> HIDE DEF new
  <1>7. /\ DOMAIN files' = DOMAIN files /\ DOMAIN files = 1 .. n
        /\ Len(files') = n /\ files'[n] = new
        /\ \A i \in 1 .. n : i # n => files'[i] = files[i]
    BY <1>4, <1>6
  <1>8. n \notin Json
    BY <1>1 DEF OrderInv, FilesOrder
  <1>9. Json' = Json /\ \A f \in Json : files'[f] = files[f]
    <2>1. \A f \in DOMAIN files : files'[f].suffix = files[f].suffix
      BY <1>5, <1>7
    <2>2. Json' = Json
      BY <1>7, <2>1 DEF Json
    <2> QED
      BY <1>7, <1>8, <2>2 DEF Json
  <1>10. FilesOrder'
    <2>1. \A f \in Json : /\ files[f].content.epoch <= task.state.epoch
                          /\ files[f].content.epoch < task.state.epoch
                          /\ files[f].mtime <= task.time
                          /\ files[f].mtime \in Nat
      BY <1>1, JsonFacts DEF TrainInv, OrderInv, FilesOrder
    <2>2. \A f \in Json : files[f].mtime <= task'.time
      BY <1>2, <1>3, <2>1
    <2> QED
      BY <1>3, <1>5, <1>7, <1>8, <1>9, <2>1, <2>2 DEF OrderInv, FilesOrder
  <1>11. UploadOrder'
    BY <1>1, <1>9, WritingUploads DEF OrderInv
  <1>12. \A e \in Nat : Past(e) => Past(e)'
    BY <1>1, <1>3, <1>9 DEF Past
  <1>13. RowsOrder'
    BY <1>1, <1>9, <1>12, RowsKeep DEF OrderInv, UploadOrder
  <1> QED
    BY <1>10, <1>11, <1>13 DEF OrderInv

(* The file that gets its final name is the latest of all and holds the    *)
(* latest epoch.                                                           *)
LEMMA PublishOrder ==
  ASSUME TrainInv, ResultInv, OrderInv, Publish
  PROVE  OrderInv'
  <1> DEFINE n == Len(files)
             new == [files[n] EXCEPT !.suffix = "json"]
  <1>1. UNCHANGED <<job, number, rows, worker>> /\ task.pc = "publish"
    BY DEF Publish
  <1>2. task \in Training
    BY <1>1 DEF TrainInv, TaskInv
  <1>3. /\ task'.pc = "train" /\ task'.state = task.state
        /\ task'.time = task.time
    BY <1>2 DEF Publish, Training
  <1>4. /\ files \in Seq(AnyFile) /\ n \in Nat /\ n > 0 /\ files[n] \in AnyFile
        /\ task.state.epoch \in Nat /\ task.time \in Nat
    <2>1. files \in Seq(AnyFile) /\ n \in Nat /\ n > 0
      BY <1>1 DEF TrainInv, FilesInv
    <2>2. files[n] \in AnyFile
      BY <2>1
    <2>3. task.state \in Good /\ task.time \in Nat
      BY <1>2 DEF Training
    <2>4. task.state.epoch \in Nat
      BY <2>3, CheckpointsAssumption DEF Good, Trained
    <2> QED
      BY <2>1, <2>2, <2>3, <2>4
  <1>5. /\ new.content = files[n].content /\ new.mtime = files[n].mtime
        /\ new.suffix = "json"
    BY <1>4 DEF AnyFile
  <1>6. files' = [files EXCEPT ![n] = new]
    BY <1>4 DEF Publish, AnyFile
  <1> HIDE DEF new
  <1>7. /\ DOMAIN files' = DOMAIN files /\ DOMAIN files = 1 .. n
        /\ Len(files') = n /\ files'[n] = new
        /\ \A i \in 1 .. n : i # n => files'[i] = files[i]
    BY <1>4, <1>6
  <1>8. /\ n \notin Json /\ files[n].content = task.state
        /\ files[n].mtime = task.time
    BY <1>1 DEF OrderInv, FilesOrder
  <1>9. /\ Json' = Json \cup {n}
        /\ \A f \in Json' : /\ files'[f].content = files[f].content
                            /\ files'[f].mtime = files[f].mtime
    <2>1. \A f \in DOMAIN files :
            files'[f].suffix = IF f = n THEN "json" ELSE files[f].suffix
      BY <1>5, <1>7
    <2>2. Json' = Json \cup {n}
      <3>1. n \in DOMAIN files /\ DOMAIN files' = DOMAIN files
        <4>1. n \in 1 .. n
          BY <1>4
        <4> HIDE DEF n
        <4> QED
          BY <1>7, <4>1
      <3>2. \A f \in DOMAIN files :
              files'[f].suffix = "json" <=> f = n \/ files[f].suffix = "json"
        BY <2>1
      <3> HIDE DEF n
      <3> QED
        BY <3>1, <3>2 DEF Json
    <2>3. \A f \in DOMAIN files : /\ files'[f].content = files[f].content
                                  /\ files'[f].mtime = files[f].mtime
      BY <1>5, <1>7
    <2> QED
      BY <1>4, <1>7, <2>2, <2>3 DEF Json
  <1>10. \A f \in Json : /\ f \in Nat /\ f < n
                         /\ files[f].mtime <= task.time
                         /\ files[f].content.epoch < task.state.epoch
                         /\ files[f].content.epoch \in Nat
    <2>1. \A f \in Json : f \in 1 .. n /\ f # n
      BY <1>7, <1>8 DEF Json
    <2> QED
      BY <1>1, <1>4, <2>1, JsonFacts DEF TrainInv, OrderInv, FilesOrder
  <1>11. FilesOrder'
    <2>1. \A i, k \in Json' : i < k =>
            /\ files'[i].content.epoch < files'[k].content.epoch
            /\ files'[i].mtime <= files'[k].mtime
      <3> SUFFICES ASSUME NEW i \in Json', NEW k \in Json', i < k
                   PROVE  /\ files[i].content.epoch < files[k].content.epoch
                          /\ files[i].mtime <= files[k].mtime
        BY <1>9
      <3>1. i \in Json
        BY <1>4, <1>9, <1>10
      <3>2. CASE k \in Json
        BY <3>1, <3>2 DEF OrderInv, FilesOrder
      <3>3. CASE k = n
        BY <1>8, <1>10, <3>1, <3>3
      <3> QED
        BY <1>9, <3>2, <3>3
    <2>2. \A f \in Json' : /\ files'[f].mtime <= task'.time
                           /\ files'[f].content.epoch <= task'.state.epoch
      BY <1>3, <1>4, <1>8, <1>9, <1>10
    <2> QED
      BY <1>3, <2>1, <2>2 DEF FilesOrder
  <1>12. /\ worker.uploaded \subseteq Json
         /\ \A i \in DOMAIN worker.paths : worker.paths[i] \in Json
    BY PathsAreJson DEF OrderInv, UploadOrder
  <1>13. UploadOrder'
    <2>1. \A f \in Json : Late(f) => Late(f)'
      BY <1>1, <1>9, <1>12 DEF Late
    <2>2. \A f : f = n => Late(f)'
      <3> SUFFICES ASSUME NEW f, f = n PROVE Late(f)'
        OBVIOUS
      <3>1. files'[f].mtime = task.time
        BY <1>8, <1>9
      <3>2. \A g \in Json : files'[g].mtime <= task.time
        BY <1>9, <1>10
      <3> QED
        BY <1>1, <1>12, <3>1, <3>2 DEF Late
    <2>3. \A f \in Json' :
            \/ f \in worker.uploaded
            \/ \E i \in DOMAIN worker.paths : worker.paths[i] = f
            \/ Late(f)'
      BY <1>9, <2>1, <2>2 DEF OrderInv, UploadOrder
    <2>4. worker.pc # "restore"
      BY <1>1 DEF OrderInv, UploadOrder
    <2>5. \A f \in Json : files'[f].mtime = files[f].mtime /\ f \in Json'
      BY <1>9
    <2>6. \A i, k \in DOMAIN worker.paths : i < k =>
            files'[worker.paths[i]].mtime <= files'[worker.paths[k]].mtime
      BY <1>12, <2>5 DEF OrderInv, UploadOrder
    <2>7. \A u \in worker.uploaded, i \in DOMAIN worker.paths :
            files'[u].mtime <= files'[worker.paths[i]].mtime
      BY <1>12, <2>5 DEF OrderInv, UploadOrder
    <2>8. /\ worker.pc \notin {"upload", "report"} => worker.paths = <<>>
          /\ worker.uploaded \subseteq Json'
      BY <1>12, <2>5 DEF OrderInv, UploadOrder
    <2> QED
      BY <1>1, <2>3, <2>4, <2>6, <2>7, <2>8 DEF UploadOrder
  <1>14. \A e \in Nat : Past(e) => Past(e)'
    <2> SUFFICES ASSUME NEW e \in Nat, Past(e) PROVE Past(e)'
      OBVIOUS
    <2>1. /\ e < task.state.epoch
          /\ \A f \in Json : e < files[f].content.epoch
      BY <1>1 DEF Past
    <2>2. e <= task'.state.epoch
      BY <1>3, <1>4, <2>1
    <2>3. \A f \in Json' : e < files'[f].content.epoch
      BY <1>8, <1>9, <2>1
    <2> QED
      BY <1>3, <2>2, <2>3 DEF Past
  <1>15. RowsOrder'
    BY <1>1, <1>9, <1>12, <1>14, RowsKeep DEF OrderInv
  <1> QED
    BY <1>11, <1>13, <1>15 DEF OrderInv

(* The worker lists all files that it did not upload; they are later than  *)
(* those it did.                                                           *)
LEMMA ProgressOrder ==
  ASSUME TrainInv, ResultInv, OrderInv, Progress
  PROVE  OrderInv'
  <1>1. UNCHANGED <<job, number, rows, task, files>> /\ worker.pc = "loop"
    BY DEF Progress
  <1>2. PICK paths \in [1 .. Cardinality(Found) -> Found] :
          /\ Sorted(paths)
          /\ worker' = [worker EXCEPT !.pc = "upload", !.paths = paths,
                                      !.polled = task.pc = "exited"]
    BY DEF Progress
  <1>3. /\ worker'.pc = "upload" /\ worker'.paths = paths
        /\ worker'.uploaded = worker.uploaded
    BY <1>2 DEF TrainInv, WorkerInv, AnyWorker
  <1>4. Json' = Json /\ Found = Json \ worker.uploaded
    BY <1>1 DEF Json, Found
  <1>5. /\ \A i \in DOMAIN paths : paths[i] \in Found
        /\ \A f \in Found : \E i \in DOMAIN paths : paths[i] = f
        /\ \A i, k \in DOMAIN paths :
             i < k => files[paths[i]].mtime <= files[paths[k]].mtime
    BY <1>2 DEF Sorted
  <1>6. \A u \in worker.uploaded, f \in Found :
          files[u].mtime <= files[f].mtime
    <2>1. worker.paths = <<>>
      BY <1>1 DEF OrderInv, UploadOrder
    <2>2. \A f \in Found : Late(f)
      BY <1>4, <2>1 DEF OrderInv, UploadOrder
    <2> QED
      BY <2>2 DEF Late
  <1>7. UploadOrder'
    <2>1. worker.uploaded \subseteq Json
      BY DEF OrderInv, UploadOrder
    <2>2. \A u \in worker.uploaded, i \in DOMAIN paths :
            files[u].mtime <= files[paths[i]].mtime
      BY <1>5, <1>6
    <2>3. \A f \in Json : \/ f \in worker.uploaded
                          \/ \E i \in DOMAIN paths : paths[i] = f
      BY <1>4, <1>5
    <2> QED
      BY <1>1, <1>3, <1>4, <1>5, <2>1, <2>2, <2>3 DEF UploadOrder
  <1>8. FilesOrder' /\ \A e \in Nat : Past(e) => Past(e)'
    BY <1>1, <1>4 DEF OrderInv, FilesOrder, Past
  <1>9. RowsOrder'
    BY <1>1, <1>3, <1>8, RowsKeep DEF OrderInv
  <1> QED
    BY <1>7, <1>8, <1>9 DEF OrderInv

LEMMA WorkerOrder ==
  ASSUME TrainInv, ResultInv, OrderInv, Upload \/ Reported
  PROVE  OrderInv'
  <1>1. UNCHANGED <<job, number, rows, task, files>>
    BY DEF Upload, Reported
  <1>2. /\ worker'.paths = worker.paths /\ worker'.uploaded = worker.uploaded
        /\ \/ worker'.pc = "report"
           \/ worker'.pc \in {"outputs", "loop"} /\ worker.paths = <<>>
    BY DEF Upload, Reported, TrainInv, WorkerInv, AnyWorker
  <1>3. Json' = Json /\ \A f : Late(f)' <=> Late(f)
    BY <1>1, <1>2 DEF Json, Late
  <1>4. UploadOrder'
    BY <1>1, <1>2, <1>3 DEF OrderInv, UploadOrder
  <1>5. FilesOrder' /\ \A e \in Nat : Past(e) => Past(e)'
    BY <1>1, <1>3 DEF OrderInv, FilesOrder, Past
  <1>6. RowsOrder'
    BY <1>1, <1>2, <1>5, RowsKeep DEF OrderInv
  <1> QED
    BY <1>4, <1>5, <1>6 DEF OrderInv

LEMMA OutputsOrder ==
  ASSUME TrainInv, ResultInv, OrderInv, ReportOutputs
  PROVE  OrderInv'
  <1>1. /\ UNCHANGED <<job, number, task, files>> /\ worker.pc = "outputs"
        /\ worker' = [worker EXCEPT !.pc = "result"]
    BY DEF ReportOutputs
  <1>2. /\ worker'.paths = worker.paths /\ worker'.uploaded = worker.uploaded
        /\ worker'.pc = "result"
    BY <1>1 DEF TrainInv, WorkerInv, AnyWorker
  <1>3. Json' = Json /\ \A f : Late(f)' <=> Late(f)
    BY <1>1, <1>2 DEF Json, Late
  <1>4. UploadOrder'
    BY <1>1, <1>2, <1>3 DEF OrderInv, UploadOrder
  <1>5. FilesOrder' /\ \A e : Past(e) <=> Past(e)'
    BY <1>1, <1>3 DEF OrderInv, FilesOrder, Past
  <1>6. Saved' = Saved /\ \A i \in Saved : rows'[i] = rows[i]
    <2> DEFINE n == Len(rows)
    <2>1. /\ n \in Nat /\ Len(outputs) \in Nat /\ DOMAIN rows = 1 .. n
      BY DEF TrainInv
    <2>2. /\ DOMAIN rows' = 1 .. n + 1 + Len(outputs)
          /\ \A i \in 1 .. n : rows'[i] = rows[i]
          /\ \A i \in 1 .. n + 1 + Len(outputs) : i > n + 1 =>
               rows'[i].kind = "output"
      BY OutputsRows
    <2>3. rows'[n + 1].kind = "log"
      <3>1. rows'[n + 1] = Row("log", "", 0)
        BY OutputsRows
      <3>2. Row("log", "", 0).kind = "log"
        BY DEF Row
      <3> QED
        BY <3>1, <3>2
    <2>4. \A i \in DOMAIN rows' :
            \/ i \in DOMAIN rows /\ rows'[i] = rows[i]
            \/ i \notin DOMAIN rows /\ rows'[i].kind # "checkpoint"
      BY <2>1, <2>2, <2>3
    <2>5. DOMAIN rows \subseteq DOMAIN rows'
      BY <2>1, <2>2
    <2> QED
      BY <2>4, <2>5 DEF Saved
  <1>7. RowsOrder'
    <2>1. ProgressOrdered'
      BY <1>6 DEF OrderInv, RowsOrder, ProgressOrdered, Saved
    <2>2. \A i \in Saved : (Tied(i) \/ Past(rows[i].content.epoch))
                             => (Tied(i) \/ Past(rows[i].content.epoch))'
      BY <1>5, <1>6 DEF Tied
    <2> QED
      BY <1>1, <1>2, <1>6, <2>1, <2>2 DEF OrderInv, RowsOrder
  <1> QED
    BY <1>4, <1>5, <1>7 DEF OrderInv

(* What is left of the list after a report is later than what was          *)
(* reported.                                                               *)
LEMMA BatchUploads ==
  ASSUME TrainInv, OrderInv, ReportBatch
  PROVE  UploadOrder'
  <1> DEFINE p == worker.paths
             n == least(Batch, Len(p))
             q == SubSeq(p, n + 1, Len(p))
             up == worker.uploaded \cup {p[i] : i \in 1 .. n}
  <1>1. /\ UNCHANGED <<task, files>> /\ worker.pc = "report"
        /\ worker' = [worker EXCEPT !.paths = q, !.uploaded = up]
    BY DEF ReportBatch
  <1>2. p \in Seq(Nat) /\ Len(p) \in Nat /\ DOMAIN p = 1 .. Len(p)
    BY DEF TrainInv, WorkerInv, AnyWorker
  <1>3. n \in 0 .. Len(p)
    BY <1>2, CheckpointsAssumption DEF least
  <1>4. \A i \in DOMAIN p : p[i] \in Json
    BY PathsAreJson
  <1>5. /\ worker.uploaded \subseteq Json
        /\ \A i, k \in DOMAIN p : i < k =>
             files[p[i]].mtime <= files[p[k]].mtime
        /\ \A u \in worker.uploaded, i \in DOMAIN p :
             files[u].mtime <= files[p[i]].mtime
        /\ \A f \in Json : \/ f \in worker.uploaded
                           \/ \E i \in DOMAIN p : p[i] = f
                           \/ Late(f)
    BY DEF OrderInv, UploadOrder
  <1>6. \A f : Late(f) =>
          /\ \A u \in worker.uploaded : files[u].mtime <= files[f].mtime
          /\ \A i \in DOMAIN p : files[p[i]].mtime <= files[f].mtime
    BY DEF Late
  <1>7. worker'.pc = "report" /\ worker'.paths = q /\ worker'.uploaded = up
    BY <1>1 DEF TrainInv, WorkerInv, AnyWorker
  <1> HIDE DEF n, p
  <1>8. /\ DOMAIN q = 1 .. Len(p) - n
        /\ \A i \in DOMAIN q : q[i] = p[n + i] /\ n + i \in DOMAIN p
    BY SMTT(30), <1>2, <1>3
  <1>9. \A u \in up : u \in worker.uploaded
                      \/ \E i \in DOMAIN p : i <= n /\ p[i] = u
    BY <1>2, <1>3
  <1>10. /\ worker.uploaded \subseteq up
         /\ \A i \in DOMAIN p : i <= n => p[i] \in up
    BY <1>2, <1>3
  <1> HIDE DEF q, up
  <1>11. Json' = Json
    BY <1>1 DEF Json
  <1>12. up \subseteq Json
    BY <1>4, <1>5, <1>9
  <1>13. \A i, k \in DOMAIN q : i < k =>
           files[q[i]].mtime <= files[q[k]].mtime
    <2> SUFFICES ASSUME NEW i \in DOMAIN q, NEW k \in DOMAIN q, i < k
                 PROVE  files[p[n + i]].mtime <= files[p[n + k]].mtime
      BY <1>8
    <2>1. n + i < n + k /\ n + i \in DOMAIN p /\ n + k \in DOMAIN p
      BY <1>2, <1>3, <1>8
    <2> QED
      BY <1>5, <2>1
  <1>14. \A u \in up, k \in DOMAIN q : files[u].mtime <= files[q[k]].mtime
    <2> SUFFICES ASSUME NEW u \in up, NEW k \in DOMAIN q
                 PROVE  files[u].mtime <= files[p[n + k]].mtime
      BY <1>8
    <2>1. n + k \in DOMAIN p /\ n + k > n /\ k \in Nat
      BY <1>2, <1>3, <1>8
    <2>2. CASE u \in worker.uploaded
      BY <1>5, <2>1, <2>2
    <2>3. ASSUME NEW i \in DOMAIN p, i <= n, p[i] = u
          PROVE  files[u].mtime <= files[p[n + k]].mtime
      <3>1. i < n + k
        BY <1>2, <1>3, <2>1, <2>3
      <3> QED
        BY <1>5, <2>1, <2>3, <3>1
    <2> QED
      BY <1>9, <2>2, <2>3
  <1>15. ASSUME NEW f \in Json
         PROVE  \/ f \in up \/ \E i \in DOMAIN q : q[i] = f
                \/ Late(f)'
    <2>1. CASE f \in worker.uploaded
      BY <1>10, <2>1
    <2>2. ASSUME NEW i \in DOMAIN p, p[i] = f
          PROVE  f \in up \/ \E k \in DOMAIN q : q[k] = f
      <3>1. CASE i <= n
        BY <1>10, <2>2, <3>1
      <3>2. CASE ~(i <= n)
        <4>1. i - n \in DOMAIN q /\ n + (i - n) = i
          BY <1>2, <1>3, <1>8, <3>2
        <4> QED
          BY <1>8, <2>2, <4>1
      <3> QED
        BY <3>1, <3>2
    <2>3. CASE Late(f)
      <3>1. \A u \in up : files[u].mtime <= files[f].mtime
        BY <1>6, <1>9, <2>3
      <3>2. \A i \in DOMAIN q : files[q[i]].mtime <= files[f].mtime
        BY <1>6, <1>8, <2>3
      <3> QED
        BY <1>1, <1>7, <3>1, <3>2 DEF Late
    <2> QED
      BY <1>5, <2>1, <2>2, <2>3
  <1> QED
    BY <1>7, <1>11, <1>12, <1>13, <1>14, <1>15, <1>1 DEF UploadOrder

(* A row that is recorded is ahead of the rows before it: those of its     *)
(* attempt are files of an earlier time, or of the same, and the attempt   *)
(* is past those of the attempts before.                                   *)
LEMMA BatchOrder ==
  ASSUME TrainInv, ResultInv, OrderInv, ReportBatch
  PROVE  OrderInv'
  <1> DEFINE p == worker.paths
             n == least(Batch, Len(p))
             m == Len(rows)
  <1>1. /\ UNCHANGED <<job, number, task, files>> /\ worker.pc = "report"
        /\ job = "RUNNING"
    BY DEF ReportBatch, ResultInv
  <1>2. /\ rows \in Seq(AnyRow) /\ m \in Nat /\ DOMAIN rows = 1 .. m
        /\ number \in Nat /\ Len(p) \in Nat /\ DOMAIN p = 1 .. Len(p)
    BY DEF TrainInv, WorkerInv, AnyWorker
  <1>3. /\ n \in 0 .. Len(p) /\ DOMAIN rows' = 1 .. m + n
        /\ \A i \in 1 .. m : rows'[i] = rows[i]
        /\ \A i \in 1 .. m + n : i > m =>
             /\ i - m \in 1 .. n
             /\ rows'[i].attempt = number /\ rows'[i].kind = "checkpoint"
             /\ rows'[i].content = files[p[i - m]].content
             /\ rows'[i].mtime = files[p[i - m]].mtime
    BY BatchRows
  <1>4. worker'.uploaded = worker.uploaded \cup {p[i] : i \in 1 .. n}
    BY DEF ReportBatch, TrainInv, WorkerInv, AnyWorker
  <1>5. UploadOrder'
    BY BatchUploads
  <1>6. FilesOrder' /\ Json' = Json /\ \A e : Past(e)' <=> Past(e)
    <2>1. Json' = Json
      BY <1>1 DEF Json
    <2> QED
      BY <1>1, <2>1 DEF OrderInv, FilesOrder, Past
  <1>7. /\ FilesInv /\ FilesOrder /\ worker.uploaded \subseteq Json
        /\ \A i \in DOMAIN p : p[i] \in Json
        /\ \A i, k \in DOMAIN p : i < k =>
             files[p[i]].mtime <= files[p[k]].mtime
        /\ \A u \in worker.uploaded, i \in DOMAIN p :
             files[u].mtime <= files[p[i]].mtime
    BY PathsAreJson DEF TrainInv, OrderInv, UploadOrder
  <1>8. \A i \in Saved : /\ i \in Nat /\ i \in 1 .. m
                         /\ rows'[i] = rows[i]
                         /\ rows[i].attempt \in Nat
                         /\ rows[i].attempt <= number
    BY <1>2, <1>3, SavedFacts DEF ResultInv
  <1> HIDE DEF n, m, p
  <1>9. /\ Saved \subseteq Saved'
        /\ \A i \in Saved' :
             \/ i \in Saved /\ i <= m
             \/ /\ i \in Nat /\ i > m /\ i - m \in DOMAIN p /\ i - m \in 1 .. n
                /\ rows'[i].attempt = number
                /\ rows'[i].content = files[p[i - m]].content
                /\ rows'[i].mtime = files[p[i - m]].mtime
    <2>1. \A i \in 1 .. m + n : \/ i \in 1 .. m
                                \/ i > m /\ i - m \in DOMAIN p
      BY <1>2, <1>3
    <2>2. 1 .. m \subseteq 1 .. m + n
      BY <1>2, <1>3
    <2>3. Saved \subseteq Saved'
      BY <1>2, <1>3, <1>8, <2>2 DEF Saved
    <2>4. \A i \in 1 .. m : i \in Nat /\ i <= m
      BY <1>2
    <2> QED
      BY <1>2, <1>3, <2>1, <2>3, <2>4 DEF Saved
  <1>10. ASSUME NEW i \in Saved', NEW k \in Saved', i < k
         PROVE  \/ rows'[i].content.epoch < rows'[k].content.epoch
                \/ \E j \in Saved' : /\ i < j /\ j <= k
                                     /\ rows'[i].attempt = rows'[j].attempt
                                     /\ rows'[i].mtime = rows'[j].mtime
    <2>0. i \in Nat /\ k \in Nat
      BY <1>8, <1>9
    <2>1. CASE k \in Saved /\ k <= m
      <3>1. i \in Saved
        BY <1>2, <1>9, <1>10, <2>0, <2>1
      <3>2. \/ rows[i].content.epoch < rows[k].content.epoch
            \/ \E j \in Saved : /\ i < j /\ j <= k
                                /\ rows[i].attempt = rows[j].attempt
                                /\ rows[i].mtime = rows[j].mtime
        BY <1>10, <2>1, <3>1 DEF OrderInv, RowsOrder, ProgressOrdered, Saved
      <3> QED
        BY <1>8, <1>9, <2>1, <3>1, <3>2
    <2>2. CASE /\ k > m /\ k - m \in DOMAIN p
               /\ rows'[k].attempt = number
               /\ rows'[k].content = files[p[k - m]].content
               /\ rows'[k].mtime = files[p[k - m]].mtime
      <3> DEFINE f == p[k - m]
      <3>1. f \in Json /\ k <= k
        BY <1>7, <2>0, <2>2
      <3>2. ASSUME NEW u \in Json, files[u].mtime <= files[f].mtime,
                   rows'[i].attempt = number,
                   rows'[i].content = files[u].content,
                   rows'[i].mtime = files[u].mtime
            PROVE  \/ rows'[i].content.epoch < rows'[k].content.epoch
                   \/ /\ rows'[i].attempt = rows'[k].attempt
                      /\ rows'[i].mtime = rows'[k].mtime
        <4>1. \/ files[u].mtime = files[f].mtime
              \/ files[u].content.epoch < files[f].content.epoch
          BY <1>7, <3>1, <3>2, LaterIsAhead
        <4> QED
          BY <2>2, <3>2, <4>1
      <3>3. CASE i \notin Saved
        <4>1. /\ i - m \in DOMAIN p /\ rows'[i].attempt = number
              /\ rows'[i].content = files[p[i - m]].content
              /\ rows'[i].mtime = files[p[i - m]].mtime
          BY <1>9, <3>3
        <4>2. i - m < k - m
          BY <1>2, <1>10, <2>0
        <4>3. /\ p[i - m] \in Json
              /\ files[p[i - m]].mtime <= files[f].mtime
          BY <1>7, <2>2, <4>1, <4>2
        <4> QED
          BY <1>10, <3>1, <3>2, <4>1, <4>3
      <3>4. CASE i \in Saved /\ rows[i].attempt = number
        <4>1. PICK u \in worker.uploaded :
                /\ files[u].content = rows[i].content
                /\ files[u].mtime = rows[i].mtime
          BY <1>1, <3>4 DEF OrderInv, RowsOrder
        <4>2. u \in Json /\ files[u].mtime <= files[f].mtime
          BY <1>7, <2>2
        <4> QED
          BY <1>8, <1>10, <3>1, <3>2, <3>4, <4>1, <4>2
      <3>5. CASE i \in Saved /\ rows[i].attempt # number
        <4>1. rows[i].attempt < number
          <5>1. /\ rows[i].attempt \in Nat /\ rows[i].attempt <= number
                /\ rows[i].attempt # number
            BY <1>8, <3>5
          <5>2. number \in Nat
            BY <1>2
          <5> QED
            BY <5>1, <5>2
        <4>2. CASE Tied(i)
          <5>1. PICK j \in Saved : /\ i < j /\ rows[i].attempt = rows[j].attempt
                                   /\ rows[i].mtime = rows[j].mtime
            BY <4>2 DEF Tied
          <5>2. j <= k /\ j \in Saved'
            BY <1>2, <1>8, <1>9, <2>0, <2>2
          <5> QED
            BY <1>8, <3>5, <5>1, <5>2
        <4>3. CASE Past(rows[i].content.epoch)
          BY <1>8, <2>2, <3>1, <3>5, <4>3 DEF Past
        <4> QED
          BY <3>5, <4>1, <4>2, <4>3 DEF OrderInv, RowsOrder
      <3> QED
        BY <3>3, <3>4, <3>5
    <2> QED
      BY <1>9, <2>1, <2>2
  <1>11. ASSUME NEW i \in Saved', rows'[i].attempt = number
         PROVE  \E u \in worker'.uploaded :
                  /\ files'[u].content = rows'[i].content
                  /\ files'[u].mtime = rows'[i].mtime
    <2>1. CASE i \in Saved
      <3>1. PICK u \in worker.uploaded : /\ files[u].content = rows[i].content
                                         /\ files[u].mtime = rows[i].mtime
        BY <1>1, <1>8, <1>11, <2>1 DEF OrderInv, RowsOrder
      <3> QED
        BY <1>1, <1>4, <1>8, <2>1, <3>1
    <2>2. CASE i \notin Saved
      <3>1. p[i - m] \in worker'.uploaded
        BY <1>4, <1>9, <2>2
      <3> QED
        BY <1>1, <1>9, <2>2, <3>1
    <2> QED
      BY <2>1, <2>2
  <1>12. ASSUME NEW i \in Saved', rows'[i].attempt < number
         PROVE  (Tied(i) \/ Past(rows[i].content.epoch))'
    <2>1. i \in Saved
      BY <1>2, <1>9, <1>12
    <2>2. Tied(i) \/ Past(rows[i].content.epoch)
      BY <1>8, <1>12, <2>1 DEF OrderInv, RowsOrder
    <2>3. CASE Tied(i)
      <3>1. PICK j \in Saved : /\ i < j /\ rows[i].attempt = rows[j].attempt
                               /\ rows[i].mtime = rows[j].mtime
        BY <2>3 DEF Tied
      <3> QED
        BY <1>8, <1>9, <2>1, <3>1 DEF Tied
    <2>4. CASE Past(rows[i].content.epoch)
      <3>1. PICK e : e = rows[i].content.epoch
        OBVIOUS
      <3>2. Past(e)'
        BY <1>6, <2>4, <3>1
      <3> QED
        BY <1>8, <2>1, <3>1, <3>2
    <2> QED
      BY <2>2, <2>3, <2>4
  <1>13. RowsOrder'
    <2>1. ProgressOrdered'
      BY <1>10 DEF ProgressOrdered, Saved
    <2> QED
      BY <1>1, <1>11, <1>12, <2>1 DEF RowsOrder
  <1> QED
    BY <1>5, <1>6, <1>13 DEF OrderInv

LEMMA OrderStep ==
  ASSUME Counting, TrainInv, ResultInv, OrderInv, [Next]_vars
  PROVE  OrderInv'
  <1>1. CASE Damage \/ Poll \/ Read \/ UNCHANGED vars
    <2>1. UNCHANGED <<job, number, rows, task, files, worker>>
      BY <1>1 DEF Damage, Poll, Read, vars
    <2> QED
      BY <2>1, SameOrder
  <1> QED
    BY <1>1, LeaseOrder, FinishOrder, RestoreOrder, LoadOrder,
       TrainEpochOrder, SaveOrder, PublishOrder, ExitOrder, ProgressOrder,
       WorkerOrder, BatchOrder, OutputsOrder DEF Next

-----------------------------------------------------------------------------
(* Numbers.                                                                *)

INSTANCE FiniteSetTheorems

LEMMA LeastNumber ==
  ASSUME NEW S \in SUBSET Nat, S # {}
  PROVE  \E m \in S : \A k \in S : m <= k
  <1> DEFINE R == OpToRel(<, Nat)
  <1>1. PICK m \in S : \A k \in S : ~(<<k, m>> \in R)
    BY NatLessThanWellFounded, WFMin
  <1>2. R = {xy \in Nat \X Nat : xy[1] < xy[2]}
    BY DEF OpToRel
  <1> HIDE DEF R
  <1>3. \A k \in S : <<k, m>> \in Nat \X Nat /\ ~(k < m)
    BY <1>1, <1>2
  <1>4. ASSUME NEW k \in S PROVE m <= k
    <2>1. k \in Nat /\ m \in Nat /\ ~(k < m)
      BY <1>3
    <2> QED
      BY <2>1
  <1> QED
    BY <1>4

LEMMA CountingHolds == Counting
  <1>1. ASSUME NEW n \in Nat, NEW S \in SUBSET (1 .. n)
        PROVE  Cardinality(S) \in Nat
    <2>1. IsFiniteSet(1 .. n)
      BY FS_Interval
    <2> QED
      BY <2>1, FS_Subset, FS_CardinalityType
  <1>2. \A i : Cardinality({i}) = 1
    BY FS_Singleton
  <1> QED
    BY <1>1, <1>2, LeastNumber DEF Counting

-----------------------------------------------------------------------------
(* The theorems.                                                           *)

LEMMA TrainCorrect == Spec => []TrainInv
  <1>1. TrainInv /\ [Next]_vars => TrainInv'
    BY TrainStep, CountingHolds
  <1> QED
    BY <1>1, TrainInit, PTL DEF Spec

LEMMA ResultCorrect == Spec => []ResultInv
  <1>1. TrainInv /\ ResultInv /\ [Next]_vars => ResultInv'
    BY ResultStep
  <1> QED
    BY <1>1, ResultInit, TrainCorrect, PTL DEF Spec

LEMMA StudyCorrect == Spec => []StudyInv
  <1>1. TrainInv /\ ResultInv /\ StudyInv /\ [Next]_vars => StudyInv'
    BY StudyStep, CountingHolds
  <1> QED
    BY <1>1, ResultInit, ResultCorrect, TrainCorrect, PTL DEF Spec

(* Only complete checkpoints are recorded: what the worker finds under a   *)
(* final name was written to its end before it got that name.              *)
THEOREM OnlyWholeCheckpoints == Spec => []NeverTorn
  <1>1. TrainInv => NeverTorn
    <2> SUFFICES ASSUME TrainInv, NEW i \in DOMAIN rows,
                        rows[i].kind = "checkpoint"
                 PROVE  rows[i].content # Torn
      BY DEF NeverTorn
    <2>1. rows[i] \in AnyRow
      BY DEF TrainInv
    <2>2. rows[i] \in CheckpointRow
      BY <2>1 DEF AnyRow, OutputRow, LogRow
    <2> QED
      BY <2>2, GoodIsNotTorn DEF CheckpointRow
  <1> QED
    BY <1>1, TrainCorrect, PTL

(* However often a job was interrupted and resumed, and on whatever        *)
(* workers, recorded metrics are those of a training that ran through.     *)
THEOREM ResumeIsTransparent == Spec => []ResumeTransparent
  <1>1. TrainInv => ResumeTransparent
    <2> SUFFICES ASSUME TrainInv, NEW i \in DOMAIN rows,
                        rows[i].kind = "output"
                 PROVE  \E data \in Data :
                          rows[i].content = Uninterrupted(data)
      BY DEF ResumeTransparent
    <2>1. rows[i] \in AnyRow
      BY DEF TrainInv
    <2>2. rows[i] \in OutputRow
      BY <2>1 DEF AnyRow, CheckpointRow, LogRow
    <2> QED
      BY <2>2 DEF OutputRow, Whole
  <1> QED
    BY <1>1, TrainCorrect, PTL

(* What the study reports of a job was computed by the attempt that        *)
(* succeeded, and a job that succeeded is refused only if its metrics      *)
(* object is damaged or the listing cut off.                               *)
THEOREM AggregateIsSound == Spec => []AggregateSound
  <1>1. StudyInv => AggregateSound
    BY DEF StudyInv
  <1> QED
    BY <1>1, StudyCorrect, PTL

(* Every variable keeps its type: in particular no attempt is started      *)
(* beyond those the job was given, and every row belongs to one of them.   *)
THEOREM CheckpointsTyped == Spec => []TypeOK
  <1>1. Init => CountInv
    BY CheckpointsAssumption DEF Init, CountInv
  <1>2. TrainInv /\ ResultInv /\ StudyInv /\ CountInv /\ [Next]_vars
          => CountInv'
    BY CountStep
  <1>3. TrainInv /\ ResultInv /\ CountInv => TypeOK
    BY TypesFollow
  <1> QED
    BY <1>1, <1>2, <1>3, StudyCorrect, ResultCorrect, TrainCorrect, PTL
    DEF Spec

(* Checkpoints are recorded in the order of training, over all attempts of *)
(* the job: what a later attempt resumes from is never behind a state that *)
(* an earlier one had acknowledged, unless two files of one attempt have   *)
(* the very same time.                                                     *)
THEOREM ProgressIsOrdered == Spec => []ProgressOrdered
  <1>1. TrainInv /\ ResultInv /\ OrderInv /\ [Next]_vars => OrderInv'
    BY OrderStep, CountingHolds
  <1>2. OrderInv => ProgressOrdered
    BY DEF OrderInv, RowsOrder
  <1> QED
    BY <1>1, <1>2, OrderInit, ResultCorrect, TrainCorrect, PTL DEF Spec
=============================================================================

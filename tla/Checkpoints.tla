---------------------------- MODULE Checkpoints ----------------------------
(***************************************************************************)
(* What survives an attempt: checkpoints and results of one training job.  *)
(* The command (examples/heterosplit/task.py, with the SDK's checkpoint)   *)
(* trains epoch by epoch and publishes a checkpoint after each; the worker *)
(* (main.py, artifacts.py) finds the files, uploads and reports them; an   *)
(* attempt may end at any moment, and the next one resumes from the newest *)
(* checkpoint recorded, perhaps on a worker with other data.  In the end   *)
(* aggregate.py collects the metrics of the attempt that succeeded.        *)
(*                                                                         *)
(* The trained model is the list of what went into it: for every epoch the *)
(* data it was trained on and the state of the generator that drew its     *)
(* negatives.  Two models that differ in this list differ.                 *)
(***************************************************************************)
EXTENDS Scheduler, Sequences, FiniteSets

CONSTANTS
  Epochs,       \* --epochs
  MaxAttempts,  \* definition.max_attempts
  Data,         \* contents of the data file a worker may have
  Advance,      \* by how much the file clock moves between checkpoints
  Batch,        \* artifacts of one report (100)
  Limit,        \* rows of one listing (1000)
  MaxDamage     \* bound on objects damaged

ASSUME CheckpointsAssumption ==
  /\ Epochs \in Nat /\ MaxAttempts \in Nat \ {0}
  /\ Advance \subseteq Nat /\ Batch \in Nat \ {0}
  /\ Limit \in Nat /\ MaxDamage \in Nat

VARIABLES
  job,      \* state of the job
  number,   \* attempts so far; the last one is the current one
  rows,     \* artifact rows in the order of created_at
  damaged,  \* rows whose object was damaged or lost in the object store
  task,     \* the command
  files,    \* what is in the checkpoint directory, in order of writing
  outputs,  \* the metrics in the output directory, as a list
  worker,   \* where execute is, and what progress has found and uploaded
  study     \* where aggregate.py is, and the metrics it read

vars == <<job, number, rows, damaged, task, files, outputs, worker, study>>

(* Contents of a checkpoint: what torch.save wrote and the identity; the   *)
(* rest of the identity is the same in all attempts of a job.              *)
Trained == [data : Data, epoch : 0 .. Epochs,
            model : Seq(Data \X (0 .. Epochs)), generator : 0 .. Epochs]
Metrics == [model : Seq(Data \X (0 .. Epochs)), generator : 0 .. Epochs]

Torn == [epoch |-> 0]   \* a file that was not written to its end

NoTask == [pc |-> "none", code |-> 0]
NoWorker == [pc |-> "idle", polled |-> FALSE, paths |-> <<>>, uploaded |-> {}]

TypeOK ==
  /\ job \in {"QUEUED", "RUNNING", "SUCCEEDED", "FAILED"}
  /\ number \in 0 .. MaxAttempts
  /\ \A i \in DOMAIN rows :
       /\ rows[i].attempt \in 1 .. number
       /\ \/ rows[i].kind = "checkpoint"
             /\ rows[i].content \in Trained \cup {Torn}
          \/ rows[i].kind = "output" /\ rows[i].content \in Metrics
          \/ rows[i].kind = "log"
  /\ damaged \subseteq DOMAIN rows
  /\ \A i \in DOMAIN files :
       /\ files[i].suffix \in {"tmp", "json"}
       /\ files[i].content \in Trained \cup {Torn}
  /\ task.pc \in {"none", "load", "train", "save", "publish", "exited"}
  /\ worker.pc \in {"idle", "restore", "loop", "upload", "report", "outputs",
                    "result"}
  /\ study.pc \in {"poll", "read", "done", "raised", "timeout"}

Init ==
  /\ job = "QUEUED" /\ number = 0 /\ rows = <<>> /\ damaged = {}
  /\ task = NoTask /\ files = <<>> /\ outputs = <<>>
  /\ worker = NoWorker
  /\ study = [pc |-> "poll", metrics |-> <<>>]

-----------------------------------------------------------------------------
(* The attempt: leased, and ended without result.                          *)

LeaseJob ==
  /\ job = "QUEUED"
  /\ job' = "RUNNING" /\ number' = number + 1
  /\ worker' = [NoWorker EXCEPT !.pc = "restore"]
  /\ UNCHANGED <<rows, damaged, task, files, outputs, study>>

Finish(state) ==
  /\ job' = state
  /\ task' = NoTask /\ files' = <<>> /\ outputs' = <<>> /\ worker' = NoWorker
  /\ UNCHANGED <<number, rows, damaged, study>>

(* The lease runs out, the worker dies, or execute meets an exception and  *)
(* sends FailAttempt: an upload that failed five times, a report that was  *)
(* not answered, a checkpoint with another checksum.  The temporary        *)
(* directory goes with the attempt.                                        *)
EndAttempt == job = "RUNNING" /\ Finish(RetryState(number, MaxAttempts))

Damage ==
  /\ Cardinality(damaged) < MaxDamage
  /\ \E i \in DOMAIN rows : damaged' = damaged \cup {i}
  /\ UNCHANGED <<job, number, rows, task, files, outputs, worker, study>>

-----------------------------------------------------------------------------
(* The command.                                                            *)

(* The checkpoint a lease names: the newest row, 0 if there is none.       *)
Newest ==
  LET all == {i \in DOMAIN rows : rows[i].kind = "checkpoint"} IN
  CHOOSE c \in all \cup {0} : \A i \in all : i <= c

(* The digest of what is fetched is the checksum of the row.               *)
Intact(i) == i \notin damaged

(* Artifacts.restore and Popen.  The command finds its state, or none, and *)
(* the data of this worker.                                                *)
Restore ==
  /\ worker.pc = "restore"
  /\ Intact(Newest)
  /\ \E data \in Data :
       task' = [pc |-> "load", code |-> 0, data |-> data, time |-> 0,
                resume |-> IF Newest = 0 THEN <<>>
                                         ELSE <<rows[Newest].content>>]
  /\ worker' = [worker EXCEPT !.pc = "loop"]
  /\ UNCHANGED <<job, number, rows, damaged, files, outputs, study>>

Exit(code) == task' = [pc |-> "exited", code |-> code]

Fresh(data) == [data |-> data, epoch |-> 0, model |-> <<>>, generator |-> 0]

Begin(state) ==
  task' = [pc |-> "train", code |-> 0, state |-> state, time |-> task.time]

(* Mutant: the generator is not restored.                                  *)
LoadWithoutGenerator ==
  /\ task.pc = "load"
  /\ \/ task.resume = <<>> /\ Begin(Fresh(task.data))
     \/ \E state \in {task.resume[i] : i \in DOMAIN task.resume} :
          IF state.data = task.data THEN Begin([state EXCEPT !.generator = 0])
                                    ELSE Exit(1)
  /\ UNCHANGED <<job, number, rows, damaged, files, outputs, worker, study>>

(* run up to the first epoch: the restored state replaces the fresh one;   *)
(* one of another identity is an error.                                    *)
Load ==
  /\ task.pc = "load"
  /\ \/ task.resume = <<>> /\ Begin(Fresh(task.data))
     \/ \E state \in {task.resume[i] : i \in DOMAIN task.resume} :
          IF state.data = task.data THEN Begin(state) ELSE Exit(1)
  /\ UNCHANGED <<job, number, rows, damaged, files, outputs, worker, study>>

File(suffix, content) ==
  [suffix |-> suffix, content |-> content, mtime |-> task.time]

(* Mutant: the checkpoint is written in place.                             *)
TrainEpochInPlace ==
  LET s == task.state IN
  /\ task.pc = "train" /\ s.epoch < Epochs
  /\ task' = [task EXCEPT !.pc = "save", !.state =
                [s EXCEPT !.epoch = @ + 1, !.generator = @ + 1,
                          !.model = Append(@, <<s.data, s.generator>>)]]
  /\ files' = Append(files, File("json", Torn))
  /\ UNCHANGED <<job, number, rows, damaged, outputs, worker, study>>

(* One epoch: negatives are drawn, the model moves, and checkpoint opens a *)
(* temporary file.                                                         *)
TrainEpoch ==
  LET s == task.state IN
  /\ task.pc = "train" /\ s.epoch < Epochs
  /\ task' = [task EXCEPT !.pc = "save", !.state =
                [s EXCEPT !.epoch = @ + 1, !.generator = @ + 1,
                          !.model = Append(@, <<s.data, s.generator>>)]]
  /\ files' = Append(files, File("tmp", Torn))
  /\ UNCHANGED <<job, number, rows, damaged, outputs, worker, study>>

(* The state is written and flushed.                                       *)
Save ==
  /\ task.pc = "save"
  /\ \E d \in Advance : task' = [task EXCEPT !.pc = "publish", !.time = @ + d]
  /\ files' = [files EXCEPT ![Len(files)].content = task.state,
                            ![Len(files)].mtime = task'.time]
  /\ UNCHANGED <<job, number, rows, damaged, outputs, worker, study>>

(* The rename keeps the time of the last write.                            *)
Publish ==
  /\ task.pc = "publish"
  /\ files' = [files EXCEPT ![Len(files)].suffix = "json"]
  /\ task' = [task EXCEPT !.pc = "train"]
  /\ UNCHANGED <<job, number, rows, damaged, outputs, worker, study>>

(* The command fails by itself: an empty split, NaN in the metrics, memory.*)
Crash ==
  /\ task.pc \in {"load", "train", "save", "publish"}
  /\ Exit(1)
  /\ UNCHANGED <<job, number, rows, damaged, files, outputs, worker, study>>

(* The evaluation draws its negatives from the same generator.             *)
Evaluate ==
  /\ task.pc = "train" /\ task.state.epoch = Epochs
  /\ outputs' = <<[model |-> task.state.model,
                   generator |-> task.state.generator]>>
  /\ Exit(0)
  /\ UNCHANGED <<job, number, rows, damaged, files, worker, study>>

-----------------------------------------------------------------------------
(* The worker.                                                             *)

(* What glob("*.json") finds, without the files uploaded before.           *)
Found ==
  {i \in DOMAIN files : files[i].suffix = "json"} \ worker.uploaded

(* Mutant: in the order of the directory.                                  *)
Unsorted(paths) == {paths[i] : i \in DOMAIN paths} = Found

(* By modification time; files of the same time come in any order.         *)
Sorted(paths) ==
  /\ {paths[i] : i \in DOMAIN paths} = Found
  /\ \A i, k \in DOMAIN paths :
       i < k => files[paths[i]].mtime <= files[paths[k]].mtime

(* progress lists the directory, in the loop or once more after the        *)
(* command ended.                                                          *)
Progress ==
  /\ worker.pc = "loop"
  /\ \E paths \in [1 .. Cardinality(Found) -> Found] :
       /\ Sorted(paths)
       /\ worker' = [worker EXCEPT !.pc = "upload", !.paths = paths,
                                   !.polled = task.pc = "exited"]
  /\ UNCHANGED <<job, number, rows, damaged, task, files, outputs, study>>

(* Every file is uploaded under a key of its own, and the logs reported.   *)
Upload ==
  /\ worker.pc = "upload"
  /\ worker' = [worker EXCEPT !.pc = "report"]
  /\ UNCHANGED <<job, number, rows, damaged, task, files, outputs, study>>

Row(kind, content, mtime) ==
  [attempt |-> number, kind |-> kind, content |-> content, mtime |-> mtime]

(* One batch is recorded.  If the answer is lost the attempt ends next.    *)
ReportBatch ==
  LET n == least(Batch, Len(worker.paths))
      file(i) == files[worker.paths[i]]
  IN /\ worker.pc = "report" /\ worker.paths # <<>>
     /\ rows' = rows \o [i \in 1 .. n |->
                           Row("checkpoint", file(i).content, file(i).mtime)]
     /\ worker' = [worker EXCEPT
          !.paths = SubSeq(@, n + 1, Len(@)),
          !.uploaded = @ \cup {worker.paths[i] : i \in 1 .. n}]
     /\ UNCHANGED <<job, number, damaged, task, files, outputs, study>>

Reported ==
  /\ worker.pc = "report" /\ worker.paths = <<>>
  /\ worker' = [worker EXCEPT !.pc = IF worker.polled THEN "outputs"
                                                      ELSE "loop"]
  /\ UNCHANGED <<job, number, rows, damaged, task, files, outputs, study>>

(* The log and the outputs are uploaded and recorded whether the command   *)
(* succeeded or not; the log stands for all that are not metrics.          *)
ReportOutputs ==
  /\ worker.pc = "outputs"
  /\ rows' = rows \o <<Row("log", "", 0)>>
                 \o [i \in DOMAIN outputs |-> Row("output", outputs[i], 0)]
  /\ worker' = [worker EXCEPT !.pc = "result"]
  /\ UNCHANGED <<job, number, damaged, task, files, outputs, study>>

(* CompleteAttempt or FailAttempt by the exit code.                        *)
Result ==
  /\ worker.pc = "result"
  /\ Finish(IF task.code = 0 THEN "SUCCEEDED"
                             ELSE RetryState(number, MaxAttempts))

-----------------------------------------------------------------------------
(* aggregate.py.                                                           *)

(* The loop until all jobs are terminal or the time is up.                 *)
Poll ==
  /\ study.pc = "poll"
  /\ study' = [study EXCEPT !.pc = CASE job = "SUCCEEDED" -> "read"
                                     [] job = "FAILED" -> "raised"
                                     [] OTHER -> "timeout"]
  /\ UNCHANGED <<job, number, rows, damaged, task, files, outputs, worker>>

Listed == 1 .. least(Limit, Len(rows))

(* Mutant: the metrics of every attempt are taken.                         *)
MetricsOfAll == {i \in Listed : rows[i].kind = "output"}

(* The metrics among the artifacts of the last attempt.                    *)
MetricsOfLast ==
  {i \in Listed : rows[i].attempt = number /\ rows[i].kind = "output"}

Read ==
  /\ study.pc = "read"
  /\ \/ \E i \in MetricsOfLast :
          /\ MetricsOfLast = {i} /\ Intact(i)
          /\ study' = [pc |-> "done", metrics |-> <<rows[i].content>>]
     \/ /\ \/ Cardinality(MetricsOfLast) # 1
           \/ \E i \in MetricsOfLast : ~Intact(i)
        /\ study' = [study EXCEPT !.pc = "raised"]
  /\ UNCHANGED <<job, number, rows, damaged, task, files, outputs, worker>>

-----------------------------------------------------------------------------
Next ==
  \/ LeaseJob \/ EndAttempt \/ Damage
  \/ Restore \/ Load \/ TrainEpoch \/ Save \/ Publish \/ Evaluate \/ Crash
  \/ Progress \/ Upload \/ ReportBatch \/ Reported \/ ReportOutputs
  \/ Result \/ Poll \/ Read

Spec == Init /\ [][Next]_vars

-----------------------------------------------------------------------------
(* Properties.                                                             *)

(* Only complete checkpoints are recorded, whenever the worker looks into  *)
(* the directory and whenever the command dies.                            *)
NeverTorn ==
  \A i \in DOMAIN rows : rows[i].kind = "checkpoint" => rows[i].content # Torn

(* Checkpoints are recorded in the order of training, over all attempts of *)
(* the job, so that the newest row is the most advanced state that any     *)
(* attempt had acknowledged.  Progress is lost only if a later row of the  *)
(* same attempt has the very same file time.                               *)
ProgressOrdered ==
  LET all == {i \in DOMAIN rows : rows[i].kind = "checkpoint"} IN
  \A i, k \in all : i < k =>
    \/ rows[i].content.epoch < rows[k].content.epoch
    \/ \E j \in all : /\ i < j /\ j <= k
                     /\ rows[i].attempt = rows[j].attempt
                     /\ rows[i].mtime = rows[j].mtime

Uninterrupted(data) ==
  [model |-> [e \in 1 .. Epochs |-> <<data, e - 1>>], generator |-> Epochs]

(* Whatever was interrupted and resumed, recorded metrics are those of a   *)
(* training that ran through: no epoch is missing or repeated, no draw of  *)
(* negatives is repeated, and all of it saw the same data.                 *)
ResumeTransparent ==
  \A i \in DOMAIN rows : rows[i].kind = "output" =>
    \E data \in Data : rows[i].content = Uninterrupted(data)

(* What the study reports of a job was computed by the attempt that        *)
(* succeeded, and a job that succeeded is refused only if its metrics      *)
(* object is damaged or the listing cut off.                               *)
AggregateSound ==
  /\ study.pc = "done" => job = "SUCCEEDED" /\ \E i \in DOMAIN rows :
       /\ rows[i].attempt = number /\ rows[i].kind = "output"
       /\ <<rows[i].content>> = study.metrics
  /\ study.pc = "raised" /\ job = "SUCCEEDED" =>
       damaged # {} \/ Len(rows) > Limit
=============================================================================

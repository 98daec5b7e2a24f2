------------------------------- MODULE Worker -------------------------------
(***************************************************************************)
(* One worker process (worker/python/rungrid_worker/main.py) and one lease *)
(* it may get.  Three threads share it: the loop of Worker.run, the pool   *)
(* thread that runs Worker.execute, and the thread that renews the lease;  *)
(* beside them run the command's process group, the calls in flight, and   *)
(* the attempt's row in the store.                                         *)
(*                                                                         *)
(* Times are ticks that remain, negative once they are over; both clocks   *)
(* run at one rate.  Only the renewing thread is taken to wake on time:    *)
(* every other step may be delayed for as long as one likes.  A call may   *)
(* raise at any moment, with its request applied, under way or lost;       *)
(* Receipts shows that its retries apply it at most once.                  *)
(***************************************************************************)
EXTENDS Scheduler

CONSTANTS
  LeaseSeconds,  \* the server's lease
  Timeout,       \* timeout_seconds of the job
  Margin,        \* 0.5 s taken off every lease (rpc.call)
  Wait,          \* 0.5 s between two renewals
  MinCall,       \* 0.1 s, the least time given to a renewal
  MaxCall,       \* 2 s, the most time given to a renewal
  LeaseCall      \* 5 s given to LeaseJob

ASSUME WorkerAssumption ==
  /\ LeaseSeconds \in Nat \ {0} /\ Timeout \in Nat \ {0}
  /\ Margin \in Nat /\ Wait \in Nat \ {0} /\ LeaseCall \in Nat \ {0}
  /\ MinCall \in Nat \ {0} /\ MaxCall \in Nat /\ MinCall <= MaxCall

VARIABLES
  attempt,   \* the row in the store: state, lease, deadline
  outputs,   \* the artifacts of the last report are recorded
  rpc,       \* rpc[t]: the call thread t waits for
  late,      \* requests whose caller gave up, still under way
  agent,     \* where Worker.run is
  stopping,  \* the event a signal sets
  execute,   \* where Worker.execute is
  polled,    \* execute saw the command end
  known,     \* `process is not None'
  group,     \* live members of the process group
  code,      \* how the command ended
  deadline,  \* deadline[0]
  lost, done,
  renew,     \* where the renewing thread is
  wake       \* ticks until its wait is over

storeVars == <<attempt, outputs>>
netVars == <<rpc, late>>
agentVars == <<agent, stopping>>
execVars == <<execute, polled, known>>
procVars == <<group, code>>
leaseVars == <<deadline, lost, done>>
renewVars == <<renew, wake>>
vars == <<storeVars, netVars, agentVars, execVars, procVars, leaseVars,
          renewVars>>

Thread == {"agent", "execute", "renew"}
Attempted == {"StartAttempt", "ReportProgress", "ReportOutputs",
              "CompleteAttempt", "FailAttempt", "Heartbeat"}
Method == Attempted \cup {"LeaseJob", "ReleaseWorker"}

most(a, b) == IF a >= b THEN a ELSE b

(* Below these values time is no longer told apart.                        *)
LeaseFloor == 0 - (Wait + MinCall)
LocalFloor == LeaseFloor - Margin

Call == [method : Method \cup {"none"}, age : Nat, limit : Nat,
         reply : {"none", "ok", "refused"}, ttl : Nat]
NoCall == [method |-> "none", age |-> 0, limit |-> 0, reply |-> "none",
           ttl |-> 0]

TypeOK ==
  /\ attempt \in [state : AttemptState \cup {"ABSENT"},
                  lease : Int, deadline : Nat]
  /\ outputs \in BOOLEAN
  /\ rpc \in [Thread -> Call]
  /\ late \subseteq Method
  /\ agent \in {"loop", "leasing", "release", "drain", "ended"}
  /\ stopping \in BOOLEAN
  /\ execute \in {"none", "begin", "start", "restore", "spawn", "popen",
                  "assign", "loop", "progress", "report", "record", "sleep",
                  "join", "outputs", "commit", "result", "except",
                  "failing", "finally", "leave", "ended"}
  /\ polled \in BOOLEAN /\ known \in BOOLEAN
  /\ group \subseteq {"command", "child"}
  /\ code \in {"none", "zero", "nonzero", "killed"}
  /\ deadline \in Int /\ lost \in BOOLEAN /\ done \in BOOLEAN
  /\ renew \in {"none", "wait", "call", "ended"}
  /\ wake \in Nat

Init ==
  /\ attempt = [state |-> "ABSENT", lease |-> 0, deadline |-> 0]
  /\ outputs = FALSE
  /\ rpc = [t \in Thread |-> NoCall] /\ late = {}
  /\ agent = "loop" /\ stopping = FALSE
  /\ execute = "none" /\ polled = FALSE /\ known = FALSE
  /\ group = {} /\ code = "none"
  /\ deadline = 0 /\ lost = FALSE /\ done = FALSE
  /\ renew = "none" /\ wake = 0

-----------------------------------------------------------------------------
(* Calls.                                                                  *)

Send(t, method, limit) ==
  /\ rpc' = [rpc EXCEPT ![t] = [NoCall EXCEPT !.method = method,
                                              !.limit = limit]]
  /\ UNCHANGED late

Return(t) ==
  /\ rpc[t].reply = "ok"
  /\ rpc' = [rpc EXCEPT ![t] = NoCall]
  /\ UNCHANGED late

(* An exception: the refusal of the store, or no answer; a request that    *)
(* was not served yet may still be.                                        *)
Raise(t) ==
  /\ rpc' = [rpc EXCEPT ![t] = NoCall]
  /\ late' = IF rpc[t].reply = "none" THEN late \cup {rpc[t].method}
                                      ELSE late

(* Mutant: the deadline counts from the answer.                            *)
LocalDeadlineFromAnswer(t) == rpc[t].ttl - Margin

(* started + ttl - 0.5: counted from the first transmission.               *)
LocalDeadline(t) == rpc[t].ttl - Margin - rpc[t].age

-----------------------------------------------------------------------------
(* The store, as JobStore has it, for this attempt.                        *)

Fenced == attempt.state \in Active /\ Valid(attempt)

Accepts(m) ==
  CASE m = "LeaseJob" -> TRUE
    [] m = "ReleaseWorker" -> TRUE
    [] m \in {"Heartbeat", "StartAttempt"} -> Fenced
    [] OTHER -> Fenced /\ attempt.state = "RUNNING"

(* A LeaseJob after the first finds no job: it answers idle.               *)
Effect(m) ==
  CASE m = "LeaseJob" /\ attempt.state = "ABSENT" ->
         [state |-> "LEASED", lease |-> least(LeaseSeconds, Timeout),
          deadline |-> Timeout]
    [] m = "StartAttempt" -> [attempt EXCEPT !.state = "RUNNING"]
    [] m = "Heartbeat" ->
         [attempt EXCEPT !.lease = least(attempt.deadline, LeaseSeconds)]
    [] m = "CompleteAttempt" -> [attempt EXCEPT !.state = "SUCCEEDED"]
    [] m = "FailAttempt" -> [attempt EXCEPT !.state = "FAILED"]
    [] OTHER -> attempt

Grants(m) ==
  m = "Heartbeat" \/ (m = "LeaseJob" /\ attempt.state = "ABSENT")

Apply(m) ==
  /\ attempt' = Effect(m)
  /\ outputs' = (outputs \/ m = "ReportOutputs")

Serve(t) ==
  LET m == rpc[t].method IN
  /\ m # "none" /\ rpc[t].reply = "none"
  /\ IF Accepts(m)
     THEN /\ Apply(m)
          /\ rpc' = [rpc EXCEPT ![t].reply = "ok",
                                ![t].ttl = IF Grants(m) THEN Effect(m).lease
                                                        ELSE 0]
     ELSE /\ rpc' = [rpc EXCEPT ![t].reply = "refused"]
          /\ UNCHANGED storeVars
  /\ UNCHANGED <<late, agentVars, execVars, procVars, leaseVars, renewVars>>

ServeLate(m) ==
  /\ m \in late
  /\ late' = late \ {m}
  /\ IF Accepts(m) THEN Apply(m) ELSE UNCHANGED storeVars
  /\ UNCHANGED <<rpc, agentVars, execVars, procVars, leaseVars, renewVars>>

(* The reaper, or a cancellation.                                          *)
EndAttempt ==
  /\ attempt.state \in Active
  /\ \E s \in {"EXPIRED", "CANCELLED"} :
       /\ s = "EXPIRED" => attempt.lease <= 0
       /\ attempt' = [attempt EXCEPT !.state = s]
  /\ UNCHANGED <<outputs, netVars, agentVars, execVars, procVars, leaseVars,
                 renewVars>>

-----------------------------------------------------------------------------
(* The process group.                                                      *)

(* The command starts a child in its session, or ends.                     *)
Command ==
  /\ "command" \in group
  /\ \/ group' = group \cup {"child"} /\ UNCHANGED code
     \/ group' = group \ {"command"} /\ code' \in {"zero", "nonzero"}
  /\ UNCHANGED <<storeVars, netVars, agentVars, execVars, leaseVars,
                 renewVars>>

kill_group ==
  /\ group' = {}
  /\ code' = IF "command" \in group THEN "killed" ELSE code

-----------------------------------------------------------------------------
(* Worker.execute.                                                         *)

(* Mutant: only a refusal ends the lease.                                  *)
aliveUntilRefused == ~lost

alive == ~lost /\ deadline > 0

Goto(pc) == execute' = pc /\ UNCHANGED <<polled, known>>

(* Everything execute leaves alone in a step that only moves on.           *)
ExecFrame == UNCHANGED <<storeVars, agentVars, leaseVars, renewVars>>

ExecBegin ==
  /\ execute = "begin"
  /\ IF alive THEN Goto("start") /\ Send("execute", "StartAttempt", 0)
              ELSE Goto("finally") /\ UNCHANGED netVars
  /\ UNCHANGED procVars /\ ExecFrame

ExecStart ==
  /\ execute = "start"
  /\ \/ Return("execute") /\ Goto("restore")
     \/ Raise("execute") /\ Goto("except")
  /\ UNCHANGED procVars /\ ExecFrame

(* The checkpoint, if there is one, is fetched and compared with its       *)
(* checksum.                                                               *)
ExecRestore ==
  /\ execute = "restore"
  /\ Goto("spawn") \/ Goto("except")
  /\ UNCHANGED <<netVars, procVars>> /\ ExecFrame

ExecSpawn ==
  /\ execute = "spawn"
  /\ Goto(IF alive THEN "popen" ELSE "finally")
  /\ UNCHANGED <<netVars, procVars>> /\ ExecFrame

(* The command runs before `process' is assigned.                          *)
ExecPopen ==
  /\ execute = "popen"
  /\ \/ Goto("assign") /\ group' = {"command"}
     \/ Goto("except") /\ UNCHANGED group
  /\ UNCHANGED <<netVars, code>> /\ ExecFrame

ExecAssign ==
  /\ execute = "assign"
  /\ execute' = "loop" /\ known' = TRUE
  /\ UNCHANGED <<polled, netVars, procVars>> /\ ExecFrame

(* One round of the loop up to the call of progress, or what follows it.   *)
ExecLoop ==
  /\ execute = "loop"
  /\ \/ /\ code # "none"
        /\ execute' = "join" /\ polled' = TRUE /\ kill_group
        /\ UNCHANGED known
     \/ code = "none" /\ ~alive /\ Goto("finally") /\ kill_group
     \/ code = "none" /\ alive /\ Goto("progress") /\ UNCHANGED procVars
  /\ UNCHANGED netVars /\ ExecFrame

ExecSleep ==
  /\ execute = "sleep" /\ Goto("loop")
  /\ UNCHANGED <<netVars, procVars>> /\ ExecFrame

(* The log reader is joined; the group, if it holds the pipe, is killed    *)
(* once more.                                                              *)
ExecJoin ==
  /\ execute = "join"
  /\ Goto(IF alive THEN "progress" ELSE "finally")
  /\ UNCHANGED <<netVars, procVars>> /\ ExecFrame

AfterProgress == Goto(IF polled THEN "outputs" ELSE "sleep")

(* New checkpoints are uploaded, which fails with the lease or with the    *)
(* object store; then a report is sent if there is something to tell.      *)
ExecProgress ==
  /\ execute = "progress"
  /\ \/ AfterProgress /\ UNCHANGED netVars
     \/ Goto("except") /\ UNCHANGED netVars
     \/ Goto("report") /\ Send("execute", "ReportProgress", 0)
  /\ UNCHANGED procVars /\ ExecFrame

(* The logs are acknowledged; the checkpoints follow in a second report.   *)
ExecReport ==
  /\ execute = "report"
  /\ \/ Return("execute") /\ AfterProgress
     \/ /\ rpc["execute"].reply = "ok"
        /\ Goto("record") /\ Send("execute", "ReportProgress", 0)
     \/ Raise("execute") /\ Goto("except")
  /\ UNCHANGED procVars /\ ExecFrame

ExecRecord ==
  /\ execute = "record"
  /\ \/ Return("execute") /\ AfterProgress
     \/ Raise("execute") /\ Goto("except")
  /\ UNCHANGED procVars /\ ExecFrame

(* The log and the outputs are uploaded and reported.                      *)
ExecOutputs ==
  /\ execute = "outputs"
  /\ \/ alive /\ Goto("commit") /\ Send("execute", "ReportOutputs", 0)
     \/ Goto("except") /\ UNCHANGED netVars
  /\ UNCHANGED procVars /\ ExecFrame

(* Mutant: the result is sent whether or not the outputs are recorded.     *)
ExecCommitBlindly ==
  /\ execute = "commit"
  /\ Goto("result")
  /\ Send("execute", IF code = "zero" THEN "CompleteAttempt"
                                      ELSE "FailAttempt", 0)
  /\ UNCHANGED procVars /\ ExecFrame

ExecCommit ==
  /\ execute = "commit"
  /\ \/ /\ rpc["execute"].reply = "ok" /\ Goto("result")
        /\ Send("execute", IF code = "zero" THEN "CompleteAttempt"
                                            ELSE "FailAttempt", 0)
     \/ Raise("execute") /\ Goto("except")
  /\ UNCHANGED procVars /\ ExecFrame

ExecResult ==
  /\ execute = "result"
  /\ \/ Return("execute") /\ Goto("finally")
     \/ Raise("execute") /\ Goto("except")
  /\ UNCHANGED procVars /\ ExecFrame

ExecExcept ==
  /\ execute = "except"
  /\ IF alive THEN Goto("failing") /\ Send("execute", "FailAttempt", 0)
              ELSE Goto("finally") /\ UNCHANGED netVars
  /\ UNCHANGED procVars /\ ExecFrame

ExecFailing ==
  /\ execute = "failing"
  /\ Return("execute") \/ Raise("execute")
  /\ Goto("finally")
  /\ UNCHANGED procVars /\ ExecFrame

ExecFinally ==
  /\ execute = "finally"
  /\ IF known THEN kill_group ELSE UNCHANGED procVars
  /\ Goto("leave")
  /\ done' = TRUE
  /\ UNCHANGED <<deadline, lost, storeVars, netVars, agentVars, renewVars>>

(* heartbeat.join: the renewing thread waits for less than the 4 s.        *)
ExecLeave ==
  /\ execute = "leave" /\ renew = "ended" /\ Goto("ended")
  /\ UNCHANGED <<netVars, procVars>> /\ ExecFrame

Execute ==
  \/ ExecBegin \/ ExecStart \/ ExecRestore \/ ExecSpawn \/ ExecPopen
  \/ ExecAssign \/ ExecLoop \/ ExecSleep \/ ExecJoin \/ ExecProgress
  \/ ExecReport \/ ExecRecord \/ ExecOutputs \/ ExecCommit \/ ExecResult
  \/ ExecExcept \/ ExecFailing \/ ExecFinally \/ ExecLeave

-----------------------------------------------------------------------------
(* The renewing thread.                                                    *)

RenewFrame == UNCHANGED <<storeVars, agentVars, execVars>>

RenewDone ==
  /\ renew = "wait" /\ done
  /\ renew' = "ended"
  /\ UNCHANGED <<wake, netVars, procVars, leaseVars>> /\ RenewFrame

(* Mutant: the main thread is left to kill the command.                    *)
RenewLostNoKill ==
  /\ renew = "wait" /\ wake = 0 /\ ~done /\ ~alive
  /\ lost' = TRUE
  /\ renew' = "ended"
  /\ UNCHANGED <<wake, deadline, done, procVars, netVars>> /\ RenewFrame

RenewLost ==
  /\ renew = "wait" /\ wake = 0 /\ ~done /\ ~alive
  /\ lost' = TRUE
  /\ IF known THEN kill_group ELSE UNCHANGED procVars
  /\ renew' = "ended"
  /\ UNCHANGED <<wake, deadline, done, netVars>> /\ RenewFrame

(* Mutant: time for the wait and a last call is set aside.                 *)
RenewSendReserved ==
  /\ renew = "wait" /\ wake = 0 /\ ~done /\ alive
  /\ renew' = "call"
  /\ Send("renew", "Heartbeat", least(MaxCall, deadline - Wait - MinCall))
  /\ UNCHANGED <<wake, procVars, leaseVars>> /\ RenewFrame

(* Mutant: the call is given its full time.                                *)
RenewSendUnclipped ==
  /\ renew = "wait" /\ wake = 0 /\ ~done /\ alive
  /\ renew' = "call"
  /\ Send("renew", "Heartbeat", MaxCall)
  /\ UNCHANGED <<wake, procVars, leaseVars>> /\ RenewFrame

RenewSend ==
  /\ renew = "wait" /\ wake = 0 /\ ~done /\ alive
  /\ renew' = "call"
  /\ Send("renew", "Heartbeat", least(MaxCall, most(MinCall, deadline)))
  /\ UNCHANGED <<wake, procVars, leaseVars>> /\ RenewFrame

(* Renewed, refused, or neither.                                           *)
RenewReturn ==
  /\ renew = "call"
  /\ \/ Return("renew") /\ deadline' = LocalDeadline("renew")
        /\ UNCHANGED lost
     \/ rpc["renew"].reply = "refused" /\ Raise("renew") /\ lost' = TRUE
        /\ UNCHANGED deadline
     \/ Raise("renew") /\ UNCHANGED <<deadline, lost>>
  /\ renew' = "wait" /\ wake' = Wait
  /\ UNCHANGED <<done, procVars>> /\ RenewFrame

Renew == RenewDone \/ RenewLost \/ RenewSend \/ RenewReturn

-----------------------------------------------------------------------------
(* Worker.run, for a worker with one slot and its first lease; later ones  *)
(* begin the same anew.                                                    *)

Signal ==
  /\ ~stopping /\ stopping' = TRUE
  /\ UNCHANGED <<agent, storeVars, netVars, execVars, procVars, leaseVars,
                 renewVars>>

(* One round.  Registration before it and the heartbeats of the worker     *)
(* within it touch no attempt; here they are part of the delay.            *)
AgentLoop ==
  /\ agent = "loop"
  /\ \/ /\ stopping /\ agent' = "release"
        /\ Send("agent", "ReleaseWorker", 0)
     \/ /\ ~stopping /\ execute = "none" /\ agent' = "leasing"
        /\ Send("agent", "LeaseJob", LeaseCall)
  /\ UNCHANGED <<stopping, storeVars, execVars, procVars, leaseVars,
                 renewVars>>

(* A lease is submitted to the pool, even if a signal came meanwhile.      *)
AgentLeased ==
  /\ agent = "leasing" /\ rpc["agent"].ttl > 0 /\ Return("agent")
  /\ agent' = "loop"
  /\ execute' = "begin" /\ deadline' = LocalDeadline("agent")
  /\ renew' = "wait" /\ wake' = Wait
  /\ UNCHANGED <<stopping, polled, known, lost, done, storeVars, procVars>>

AgentIdle ==
  /\ agent = "leasing"
  /\ \/ rpc["agent"].ttl = 0 /\ Return("agent")
     \/ Raise("agent")
  /\ agent' = "loop"
  /\ UNCHANGED <<stopping, storeVars, execVars, procVars, leaseVars,
                 renewVars>>

AgentReleased ==
  /\ agent = "release"
  /\ Return("agent") \/ Raise("agent")
  /\ agent' = "drain"
  /\ UNCHANGED <<stopping, storeVars, execVars, procVars, leaseVars,
                 renewVars>>

(* Mutant: the pool is left without waiting.                               *)
AgentDrainedAtOnce ==
  /\ agent = "drain"
  /\ agent' = "ended"
  /\ UNCHANGED <<stopping, storeVars, netVars, execVars, procVars, leaseVars,
                 renewVars>>

(* Leaving the pool waits for what it runs.                                *)
AgentDrained ==
  /\ agent = "drain" /\ execute \in {"none", "ended"}
  /\ agent' = "ended"
  /\ UNCHANGED <<stopping, storeVars, netVars, execVars, procVars, leaseVars,
                 renewVars>>

Agent == AgentLoop \/ AgentLeased \/ AgentIdle \/ AgentReleased \/ AgentDrained

-----------------------------------------------------------------------------
(* A tick passes, unless the renewing thread is due.                       *)
Due ==
  \/ renew = "wait" /\ (wake = 0 \/ done)
  \/ renew = "call" /\ rpc["renew"].age >= rpc["renew"].limit

Older(c) == [c EXCEPT !.age = IF @ < c.limit THEN @ + 1 ELSE @]

Tick ==
  /\ ~Due
  /\ rpc["agent"].limit > 0 => rpc["agent"].age < rpc["agent"].limit
  /\ attempt' = [attempt EXCEPT
       !.lease = IF @ > LeaseFloor THEN @ - 1 ELSE @,
       !.deadline = IF @ > 0 THEN @ - 1 ELSE @]
  /\ deadline' = IF deadline > LocalFloor THEN deadline - 1 ELSE deadline
  /\ wake' = IF wake > 0 THEN wake - 1 ELSE wake
  /\ rpc' = [t \in Thread |-> Older(rpc[t])]
  /\ UNCHANGED <<outputs, late, agentVars, execVars, procVars, lost, done,
                 renew>>

Next ==
  \/ Agent \/ Execute \/ Renew \/ Tick \/ Signal \/ Command \/ EndAttempt
  \/ \E t \in Thread : Serve(t)
  \/ \E m \in late : ServeLate(m)

Spec == Init /\ [][Next]_vars

(* The threads of an execution run and time passes.  Nothing makes the     *)
(* store answer, the command end, a late request arrive, a signal come or  *)
(* the loop of the worker go on.                                           *)
Fairness ==
  /\ WF_execute(Execute) /\ WF_renew(Renew)
  /\ WF_<<attempt, deadline, wake, rpc>>(Tick)

LiveSpec == Spec /\ Fairness

-----------------------------------------------------------------------------
(* Properties.                                                             *)

(* The worker never believes in more of the lease than the store grants,   *)
(* less the margin: whatever the delay of requests and answers, deadline   *)
(* is behind lease_expires_at.                                             *)
LocalDeadlineSafe ==
  execute # "none" => deadline + Margin <= attempt.lease

(* A command known to the renewing thread outlives the lease by less than  *)
(* the wait and the shortest call exceed the margin, although the main     *)
(* thread may hang in an upload or a report.                               *)
OverrunBounded ==
  known /\ group # {} /\ renew # "ended" =>
    attempt.lease + Wait + MinCall > Margin

(* A command that starts while the lease is lost, after the renewing       *)
(* thread found no process to kill and left, is met by the check of the    *)
(* main loop before any call, upload or sleep.                             *)
LateStartIsMet ==
  renew = "ended" /\ ~done /\ group # {} => execute \in {"assign", "loop"}

(* An attempt is SUCCEEDED only if its command ended with zero, its log    *)
(* and outputs are recorded, and nothing of its process group is left.     *)
SuccessIsEarned ==
  attempt.state = "SUCCEEDED" => code = "zero" /\ outputs /\ group = {}

(* Nothing of a process group outlives the execution, nor the worker.      *)
NothingLeftBehind ==
  /\ execute = "ended" \/ agent = "ended" => group = {}
  /\ agent = "ended" => execute \in {"none", "ended"}

(* Every execution ends, whether or not the store ever answers and the     *)
(* command ever ends: the deadline of the attempt sees to it.              *)
ExecutionEnds == execute = "begin" ~> execute = "ended"

(* What docs/design.md says: a worker that loses connection kills the      *)
(* process group before its lease is over.  Asked only while the main      *)
(* thread waits for the object store or for checkpoints to be recorded,    *)
(* calls that are not cut short by the lease.                              *)
KilledBeforeLease ==
  known /\ group # {} /\ renew # "ended" /\ execute \in {"progress", "record"}
    => attempt.lease >= 0
=============================================================================

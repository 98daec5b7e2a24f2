---------------------------- MODULE WorkerProofs ----------------------------
(***************************************************************************)
(* For every lease, timeout, margin and length of calls.  The deadline the *)
(* worker keeps is behind the lease of the store, and a command outlives   *)
(* the lease by less than a wait and a shortest call exceed the margin.    *)
(* Only an earned success is recorded, and no process outlives the         *)
(* execution that started it.                                              *)
(***************************************************************************)
EXTENDS Worker, TLAPS

(* The part of the type invariant the argument needs.                      *)
Types ==
  /\ attempt \in [state : AttemptState \cup {"ABSENT"}, lease : Int,
                  deadline : Nat]
  /\ attempt.lease >= LeaseFloor
  /\ rpc \in [Thread -> Call]
  /\ \A t \in Thread : rpc[t].age <= rpc[t].limit
  /\ deadline \in Int /\ wake \in Nat

(* The lease never exceeds what a renewal would give.                      *)
LeaseClipped ==
  attempt.state # "ABSENT" =>
    attempt.lease <= attempt.deadline /\ attempt.lease <= LeaseSeconds

(* An execution belongs to a lease that was granted.                       *)
Executed ==
  /\ execute # "none" => attempt.state # "ABSENT"
  /\ execute = "none" => ~known /\ group = {} /\ renew = "none"

(* What Worker.run waits for; a granted lease is at least as long as the   *)
(* worker will take it to be.                                              *)
Leasing ==
  /\ agent = "leasing" =>
       /\ execute = "none"
       /\ rpc["agent"].method = "LeaseJob" /\ rpc["agent"].limit = LeaseCall
  /\ agent = "release" => rpc["agent"].method = "ReleaseWorker"
  /\ agent \in {"loop", "drain", "ended"} => rpc["agent"] = NoCall
  /\ agent \in {"loop", "leasing", "release", "drain", "ended"}
  /\ rpc["agent"].ttl > 0 =>
       /\ agent = "leasing" /\ attempt.state # "ABSENT"
       /\ rpc["agent"].ttl - rpc["agent"].age <= attempt.lease

(* A lease that was over when it arrived: no command will be started.      *)
Doomed ==
  /\ deadline <= 0 /\ ~known /\ group = {}
  /\ execute \in {"begin", "finally", "leave", "ended"}

(* The renewing thread: its call ends, and its wait is over, early enough. *)
Renewing ==
  /\ renew \in {"none", "wait", "call", "ended"}
  /\ renew # "none" <=> execute # "none"
  /\ renew = "call" =>
       /\ rpc["renew"].method = "Heartbeat"
       /\ rpc["renew"].reply = "ok" =>
            rpc["renew"].ttl - rpc["renew"].age <= attempt.lease
       /\ attempt.lease - (rpc["renew"].limit - rpc["renew"].age)
            > Margin - MinCall
  /\ renew = "wait" =>
       attempt.lease - wake > Margin - Wait - MinCall \/ Doomed

WorkerInv ==
  /\ Types /\ LeaseClipped /\ Executed /\ Leasing /\ Renewing
  /\ LocalDeadlineSafe

(* Constants and the floor of the lease.                                   *)
LEMMA Constants ==
  /\ LeaseSeconds \in Nat \ {0} /\ Timeout \in Nat \ {0}
  /\ Margin \in Nat /\ Wait \in Nat \ {0} /\ LeaseCall \in Nat \ {0}
  /\ MinCall \in Nat \ {0} /\ MaxCall \in Nat /\ MinCall <= MaxCall
  /\ LeaseFloor \in Int /\ LocalFloor \in Int
  /\ LeaseFloor = 0 - (Wait + MinCall) /\ LocalFloor = LeaseFloor - Margin
  BY WorkerAssumption DEF LeaseFloor, LocalFloor

(* The fields of a row and of a call.                                      *)
LEMMA Fields ==
  ASSUME Types
  PROVE  /\ attempt.lease \in Int /\ attempt.deadline \in Nat
         /\ attempt.state \in AttemptState \cup {"ABSENT"}
         /\ \A t \in Thread :
              /\ rpc[t] \in Call
              /\ rpc[t].age \in Nat /\ rpc[t].limit \in Nat
              /\ rpc[t].ttl \in Nat /\ rpc[t].age <= rpc[t].limit
         /\ "agent" \in Thread /\ "execute" \in Thread /\ "renew" \in Thread
  BY DEF Types, Call, Thread

(* The fields of no call.                                                  *)
LEMMA NoCallFields ==
  /\ NoCall \in Call /\ NoCall.ttl = 0 /\ NoCall.age = 0 /\ NoCall.limit = 0
  /\ NoCall.method = "none" /\ NoCall.reply = "none"
  BY DEF NoCall, Call

(* Initially there is neither lease nor execution.                         *)
LEMMA WorkerInit == Init => WorkerInv
  <1> SUFFICES ASSUME Init PROVE WorkerInv
    OBVIOUS
  <1>1. rpc["agent"] = NoCall /\ rpc["renew"] = NoCall
    BY DEF Init, Thread
  <1>2. Types
    BY Constants, NoCallFields DEF Init, Types
  <1>3. LeaseClipped /\ Executed /\ LocalDeadlineSafe
    BY DEF Init, LeaseClipped, Executed, LocalDeadlineSafe
  <1>4. Leasing
    BY <1>1, NoCallFields DEF Init, Leasing
  <1>5. Renewing
    BY DEF Init, Renewing
  <1> QED
    BY <1>2, <1>3, <1>4, <1>5 DEF WorkerInv

(* A step of execute: it touches neither the row nor the lease nor the     *)
(* calls of the other threads.                                             *)
ExecuteOnly ==
  /\ attempt' = attempt /\ deadline' = deadline
  /\ agent' = agent /\ renew' = renew /\ wake' = wake
  /\ rpc' \in [Thread -> Call]
  /\ \A t \in Thread : rpc'[t].age <= rpc'[t].limit
  /\ rpc'["agent"] = rpc["agent"] /\ rpc'["renew"] = rpc["renew"]
  /\ execute # "none" /\ execute' # "none"
  /\ Doomed => Doomed'

(* Such a step preserves the invariant.                                    *)
LEMMA ExecuteOnlyKeeps ==
  ASSUME WorkerInv, ExecuteOnly PROVE WorkerInv'
  <1>1. Types' /\ LeaseClipped'
    BY DEF WorkerInv, Types, LeaseClipped, ExecuteOnly
  <1>2. Executed' /\ LocalDeadlineSafe'
    BY DEF WorkerInv, Executed, LocalDeadlineSafe, ExecuteOnly
  <1>3. Leasing'
    BY DEF WorkerInv, Leasing, ExecuteOnly
  <1>4. Renewing'
    BY DEF WorkerInv, Renewing, ExecuteOnly
  <1> QED
    BY <1>1, <1>2, <1>3, <1>4 DEF WorkerInv

(* What sending, returning and raising do to the calls.                    *)
LEMMA CallsOf ==
  ASSUME Types, NEW t \in Thread, NEW m \in Method, NEW limit \in Nat,
         Send(t, m, limit) \/ Return(t) \/ Raise(t) \/ UNCHANGED netVars
  PROVE  /\ rpc' \in [Thread -> Call]
         /\ \A u \in Thread : rpc'[u].age <= rpc'[u].limit
         /\ \A u \in Thread \ {t} : rpc'[u] = rpc[u]
  <1> DEFINE sent == [NoCall EXCEPT !.method = m, !.limit = limit]
  <1>1. sent \in Call /\ sent.age = 0 /\ sent.limit = limit
    BY DEF NoCall, Call
  <1>2. CASE Send(t, m, limit)
    BY <1>1, <1>2 DEF Types, Send
  <1>3. CASE Return(t) \/ Raise(t)
    BY <1>3, NoCallFields DEF Types, Return, Raise
  <1>4. CASE UNCHANGED netVars
    BY <1>4 DEF Types, netVars
  <1> QED
    BY <1>2, <1>3, <1>4

(* All steps of execute are of this kind: its calls, ...                   *)
LEMMA ExecuteCalls ==
  ASSUME Execute
  PROVE  \E m \in Method :
           \/ Send("execute", m, 0) \/ Return("execute") \/ Raise("execute")
           \/ UNCHANGED netVars
  <1> USE DEF Method, Attempted
  <1>1. CASE ExecBegin \/ ExecExcept
    BY <1>1 DEF ExecBegin, ExecExcept
  <1>2. CASE ExecStart \/ ExecResult \/ ExecFailing
    BY <1>2 DEF ExecStart, ExecResult, ExecFailing
  <1>3. CASE \/ ExecRestore \/ ExecSpawn \/ ExecPopen \/ ExecAssign
             \/ ExecLoop \/ ExecSleep \/ ExecJoin \/ ExecFinally \/ ExecLeave
    BY <1>3 DEF ExecRestore, ExecSpawn, ExecPopen, ExecAssign, ExecLoop,
                ExecSleep, ExecJoin, ExecFinally, ExecLeave, netVars
  <1>4. CASE ExecProgress \/ ExecReport \/ ExecRecord
    BY <1>4 DEF ExecProgress, ExecReport, ExecRecord
  <1>5. CASE ExecOutputs
    BY <1>5 DEF ExecOutputs
  <1>6. CASE ExecCommit
    BY <1>6 DEF ExecCommit
  <1> QED
    BY <1>1, <1>2, <1>3, <1>4, <1>5, <1>6 DEF Execute

(* ... what it leaves alone, ...                                           *)
LEMMA ExecuteFrame ==
  ASSUME Execute
  PROVE  /\ attempt' = attempt /\ deadline' = deadline /\ agent' = agent
         /\ renew' = renew /\ wake' = wake
         /\ execute # "none" /\ execute' # "none"
  <1> USE DEF ExecFrame, storeVars, agentVars, leaseVars, renewVars, Goto,
              AfterProgress
  <1>1. CASE ExecBegin \/ ExecStart \/ ExecRestore \/ ExecSpawn
    BY <1>1 DEF ExecBegin, ExecStart, ExecRestore, ExecSpawn
  <1>2. CASE ExecPopen \/ ExecAssign \/ ExecLoop \/ ExecSleep \/ ExecJoin
    BY <1>2 DEF ExecPopen, ExecAssign, ExecLoop, ExecSleep, ExecJoin
  <1>3. CASE ExecProgress \/ ExecReport \/ ExecRecord \/ ExecOutputs
    BY <1>3 DEF ExecProgress, ExecReport, ExecRecord, ExecOutputs
  <1>4. CASE ExecCommit \/ ExecResult \/ ExecExcept \/ ExecFailing
    BY <1>4 DEF ExecCommit, ExecResult, ExecExcept, ExecFailing
  <1>5. CASE ExecFinally \/ ExecLeave
    BY <1>5 DEF ExecFinally, ExecLeave
  <1> QED
    BY <1>1, <1>2, <1>3, <1>4, <1>5 DEF Execute

(* ... and that it starts nothing for a lease that was over.               *)
LEMMA ExecuteDoomed ==
  ASSUME Types, Execute, Doomed PROVE Doomed'
  <1>1. deadline' = deadline
    BY ExecuteFrame
  <1>2. ~alive
    BY DEF Doomed, alive, Types
  <1>3. ExecBegin \/ ExecFinally \/ ExecLeave
    BY DEF Execute, Doomed, ExecStart, ExecRestore, ExecSpawn, ExecPopen,
           ExecAssign, ExecLoop, ExecSleep, ExecJoin, ExecProgress, ExecReport,
           ExecRecord, ExecOutputs, ExecCommit, ExecResult, ExecExcept,
           ExecFailing
  <1>4. CASE ExecBegin
    BY <1>1, <1>2, <1>4 DEF Doomed, ExecBegin, Goto, procVars
  <1>5. CASE ExecFinally \/ ExecLeave
    BY <1>1, <1>5 DEF Doomed, ExecFinally, ExecLeave, Goto, procVars
  <1> QED
    BY <1>3, <1>4, <1>5

(* Steps of execute preserve the invariant.                                *)
LEMMA ExecuteKeeps == ASSUME WorkerInv, Execute PROVE WorkerInv'
  <1>1. Types /\ "execute" \in Thread /\ "agent" \in Thread
              /\ "renew" \in Thread
    BY DEF WorkerInv, Thread
  <1>2. PICK m \in Method :
           \/ Send("execute", m, 0) \/ Return("execute") \/ Raise("execute")
           \/ UNCHANGED netVars
    BY ExecuteCalls
  <1>3. /\ rpc' \in [Thread -> Call]
        /\ \A u \in Thread : rpc'[u].age <= rpc'[u].limit
        /\ \A u \in Thread \ {"execute"} : rpc'[u] = rpc[u]
    BY <1>1, <1>2, CallsOf
  <1>4. ExecuteOnly
    BY <1>1, <1>3, ExecuteFrame, ExecuteDoomed DEF ExecuteOnly
  <1> QED
    BY <1>4, ExecuteOnlyKeeps

-----------------------------------------------------------------------------
(* The row changes for the better: its lease is not shortened, and no      *)
(* execution loses its lease.                                              *)
RowOnly ==
  /\ attempt' \in [state : AttemptState \cup {"ABSENT"}, lease : Int,
                   deadline : Nat]
  /\ attempt'.lease >= LeaseFloor
  /\ attempt'.state # "ABSENT" =>
       attempt'.lease <= attempt'.deadline /\ attempt'.lease <= LeaseSeconds
  /\ attempt.state # "ABSENT" =>
       attempt'.state # "ABSENT" /\ attempt'.lease >= attempt.lease

(* Whatever request is applied changes the row so.                         *)
LEMMA EffectKeeps ==
  ASSUME Types, LeaseClipped, NEW m, Accepts(m), attempt' = Effect(m)
  PROVE  /\ RowOnly
         /\ Grants(m) => attempt'.state # "ABSENT" /\ attempt'.lease \in Nat
  <1> USE Fields, Constants
  <1>1. CASE m = "LeaseJob" /\ attempt.state = "ABSENT"
    <2>1. attempt' = [state |-> "LEASED", lease |-> least(LeaseSeconds, Timeout),
                      deadline |-> Timeout]
      BY <1>1 DEF Effect
    <2>2. /\ least(LeaseSeconds, Timeout) \in Nat
          /\ least(LeaseSeconds, Timeout) <= LeaseSeconds
          /\ least(LeaseSeconds, Timeout) <= Timeout
      BY DEF least
    <2> QED
      BY <1>1, <2>1, <2>2 DEF RowOnly, AttemptState, Active
  <1>2. CASE m = "Heartbeat"
    <2>1. attempt' = [attempt EXCEPT
                        !.lease = least(attempt.deadline, LeaseSeconds)]
      BY <1>2 DEF Effect
    <2>2. /\ least(attempt.deadline, LeaseSeconds) \in Nat
          /\ least(attempt.deadline, LeaseSeconds) <= LeaseSeconds
          /\ least(attempt.deadline, LeaseSeconds) <= attempt.deadline
          /\ \/ least(attempt.deadline, LeaseSeconds) = LeaseSeconds
             \/ least(attempt.deadline, LeaseSeconds) = attempt.deadline
      BY DEF least
    <2>3. attempt.state # "ABSENT"
      BY <1>2 DEF Accepts, Fenced, Active
    <2> QED
      BY <2>1, <2>2, <2>3 DEF RowOnly, Types, LeaseClipped
  <1>3. CASE m \in {"StartAttempt", "CompleteAttempt", "FailAttempt"}
    <2>1. PICK s \in AttemptState : attempt' = [attempt EXCEPT !.state = s]
      BY <1>3 DEF Effect, AttemptState, Active
    <2>2. attempt.state # "ABSENT"
      BY <1>3 DEF Accepts, Fenced, Active
    <2> QED
      BY <1>3, <2>1, <2>2
      DEF RowOnly, Types, LeaseClipped, Grants, AttemptState, Active
  <1>4. CASE \/ m \notin {"LeaseJob", "Heartbeat", "StartAttempt",
                          "CompleteAttempt", "FailAttempt"}
             \/ m = "LeaseJob" /\ attempt.state # "ABSENT"
    <2>1. attempt' = attempt
      BY <1>4 DEF Effect
    <2> QED
      BY <1>4, <2>1 DEF RowOnly, Types, LeaseClipped, Grants
  <1> QED
    BY <1>1, <1>2, <1>3, <1>4

(* Nothing but the row and the answers to calls changes; an answer that    *)
(* grants time grants what the row has.                                    *)
Answered ==
  /\ RowOnly
  /\ UNCHANGED <<agentVars, execVars, procVars, leaseVars, renewVars>>
  /\ rpc' \in [Thread -> Call]
  /\ \A t \in Thread : /\ rpc'[t].method = rpc[t].method
                       /\ rpc'[t].age = rpc[t].age
                       /\ rpc'[t].limit = rpc[t].limit
  /\ rpc["agent"].method = "none" => rpc'["agent"] = rpc["agent"]
  /\ rpc'["agent"].ttl > 0 =>
       \/ rpc'["agent"].ttl = rpc["agent"].ttl
       \/ /\ rpc["agent"].method = "LeaseJob" /\ attempt'.state # "ABSENT"
          /\ rpc'["agent"].ttl <= attempt'.lease
  /\ rpc'["renew"].reply = "ok" =>
       \/ rpc'["renew"] = rpc["renew"]
       \/ rpc["renew"].method = "Heartbeat"
            => rpc'["renew"].ttl <= attempt'.lease

(* Such a step preserves the invariant.                                    *)
LEMMA AnsweredKeeps == ASSUME WorkerInv, Answered PROVE WorkerInv'
  <1> USE Fields, Constants
  <1>1. /\ Types /\ LeaseClipped /\ Executed /\ Leasing /\ Renewing
        /\ LocalDeadlineSafe /\ RowOnly
        /\ agent' = agent /\ execute' = execute /\ known' = known
        /\ group' = group /\ deadline' = deadline /\ renew' = renew
        /\ wake' = wake
    BY DEF WorkerInv, Answered, agentVars, execVars, procVars, leaseVars,
           renewVars
  <1>2. /\ rpc' \in [Thread -> Call]
        /\ \A t \in Thread : /\ rpc'[t].method = rpc[t].method
                             /\ rpc'[t].age = rpc[t].age
                             /\ rpc'[t].limit = rpc[t].limit
    BY DEF Answered
  <1>3. /\ attempt.lease \in Int /\ attempt'.lease \in Int
        /\ attempt.state # "ABSENT" =>
             attempt'.state # "ABSENT" /\ attempt'.lease >= attempt.lease
    BY <1>1 DEF RowOnly
  <1>4. \A t \in Thread : rpc'[t].age \in Nat /\ rpc'[t].limit \in Nat
                          /\ rpc'[t].ttl \in Nat
    BY <1>2 DEF Call
  <1>5. Types' /\ LeaseClipped'
    BY <1>1, <1>2 DEF Types, LeaseClipped, RowOnly
  <1>6. Executed' /\ LocalDeadlineSafe'
    BY <1>1, <1>3 DEF Executed, LocalDeadlineSafe, Types
  <1>7. Leasing'
    <2>1. rpc["agent"].method = "none" => rpc'["agent"] = rpc["agent"]
      BY DEF Answered
    <2>2. ASSUME rpc'["agent"].ttl > 0
          PROVE  /\ agent = "leasing" /\ attempt'.state # "ABSENT"
                 /\ rpc'["agent"].ttl - rpc'["agent"].age <= attempt'.lease
      <3>1. CASE rpc'["agent"].ttl = rpc["agent"].ttl
        BY <1>1, <1>2, <1>3, <1>4, <2>2, <3>1 DEF Leasing
      <3>2. CASE /\ rpc["agent"].method = "LeaseJob"
                 /\ attempt'.state # "ABSENT"
                 /\ rpc'["agent"].ttl <= attempt'.lease
        BY <1>1, <1>3, <1>4, <3>2, NoCallFields DEF Leasing
      <3> QED
        BY <2>2, <3>1, <3>2 DEF Answered
    <2> QED
      BY <1>1, <1>2, <2>1, <2>2, NoCallFields DEF Leasing
  <1>8. Renewing'
    <2>1. ASSUME renew = "call"
          PROVE  /\ rpc'["renew"].method = "Heartbeat"
                 /\ rpc'["renew"].reply = "ok" =>
                      rpc'["renew"].ttl - rpc'["renew"].age <= attempt'.lease
                 /\ attempt'.lease - (rpc'["renew"].limit - rpc'["renew"].age)
                      > Margin - MinCall
      <3>1. attempt'.lease >= attempt.lease
        BY <1>1, <1>3, <2>1 DEF Executed, Renewing
      <3>2. rpc["renew"].method = "Heartbeat"
        BY <1>1, <2>1 DEF Renewing
      <3>3. ASSUME rpc'["renew"].reply = "ok"
            PROVE  rpc'["renew"].ttl - rpc'["renew"].age <= attempt'.lease
        <4>1. CASE rpc'["renew"] = rpc["renew"]
          BY <1>1, <1>3, <1>4, <2>1, <3>1, <3>3, <4>1 DEF Renewing
        <4>2. CASE rpc'["renew"].ttl <= attempt'.lease
          BY <1>1, <1>3, <1>4, <4>2
        <4>3. \/ rpc'["renew"] = rpc["renew"]
              \/ rpc["renew"].method = "Heartbeat"
                   => rpc'["renew"].ttl <= attempt'.lease
          BY <3>3 DEF Answered
        <4> QED
          BY <3>2, <4>1, <4>2, <4>3
      <3>4. attempt'.lease - (rpc'["renew"].limit - rpc'["renew"].age)
              > Margin - MinCall
        BY <1>1, <1>2, <1>3, <2>1, <3>1 DEF Renewing
      <3> QED
        BY <1>1, <1>2, <3>2, <3>3, <3>4
    <2>2. ASSUME renew = "wait"
          PROVE  attempt'.lease - wake > Margin - Wait - MinCall \/ Doomed'
      <3>1. attempt'.lease >= attempt.lease
        BY <1>1, <1>3, <2>2 DEF Executed, Renewing
      <3>2. Doomed => Doomed'
        BY <1>1 DEF Doomed
      <3> QED
        BY <1>1, <1>3, <2>2, <3>1, <3>2 DEF Renewing, Types
    <2> QED
      BY <1>1, <2>1, <2>2 DEF Renewing
  <1> QED
    BY <1>5, <1>6, <1>7, <1>8 DEF WorkerInv

(* The store answers a call ...                                            *)
LEMMA ServeKeeps ==
  ASSUME WorkerInv, NEW t \in Thread, Serve(t) PROVE WorkerInv'
  <1> DEFINE m == rpc[t].method
  <1>1. Types /\ LeaseClipped /\ Leasing
    BY DEF WorkerInv
  <1>2. m \in Method /\ rpc[t] \in Call /\ rpc[t].reply = "none"
    BY <1>1, Fields DEF Serve, Call
  <1>3. UNCHANGED <<agentVars, execVars, procVars, leaseVars, renewVars>>
    BY DEF Serve
  <1>4. CASE Accepts(m)
    <2>1. /\ attempt' = Effect(m)
          /\ rpc' = [rpc EXCEPT ![t].reply = "ok",
                                ![t].ttl = IF Grants(m) THEN Effect(m).lease
                                                        ELSE 0]
      BY <1>4 DEF Serve, Apply
    <2>2. RowOnly /\ (Grants(m) => attempt'.state # "ABSENT"
                                   /\ attempt'.lease \in Nat)
      BY <1>1, <1>2, <1>4, <2>1, EffectKeeps
    <2>3. /\ rpc' \in [Thread -> Call]
          /\ \A u \in Thread \ {t} : rpc'[u] = rpc[u]
          /\ rpc'[t].method = m /\ rpc'[t].age = rpc[t].age
          /\ rpc'[t].limit = rpc[t].limit
          /\ rpc'[t].ttl = IF Grants(m) THEN attempt'.lease ELSE 0
      BY <1>1, <1>2, <2>1, <2>2 DEF Types, Call
    <2>4. rpc["agent"].method # "Heartbeat"
      BY <1>1, NoCallFields DEF Leasing
    <2>5. ASSUME rpc'["agent"].ttl > 0
          PROVE  \/ rpc'["agent"].ttl = rpc["agent"].ttl
                 \/ /\ rpc["agent"].method = "LeaseJob"
                    /\ attempt'.state # "ABSENT"
                    /\ rpc'["agent"].ttl <= attempt'.lease
      BY <1>1, <2>2, <2>3, <2>4, <2>5, Fields DEF Grants
    <2>6. \/ rpc'["renew"] = rpc["renew"]
          \/ rpc["renew"].method = "Heartbeat"
               => rpc'["renew"].ttl <= attempt'.lease
      BY <1>1, <2>2, <2>3, Fields DEF Grants
    <2>7. rpc["agent"].method = "none" => rpc'["agent"] = rpc["agent"]
      BY <1>1, <1>2, <2>3, Fields DEF Method, Attempted
    <2>8. Answered
      BY <1>3, <2>2, <2>3, <2>5, <2>6, <2>7 DEF Answered
    <2> QED
      BY <2>8, AnsweredKeeps
  <1>5. CASE ~Accepts(m)
    <2>1. /\ attempt' = attempt
          /\ rpc' = [rpc EXCEPT ![t].reply = "refused"]
      BY <1>5 DEF Serve, storeVars
    <2>2. RowOnly
      BY <1>1, <2>1, Fields DEF RowOnly, Types, LeaseClipped
    <2>3. /\ rpc' \in [Thread -> Call]
          /\ \A u \in Thread \ {t} : rpc'[u] = rpc[u]
          /\ rpc'[t].method = m /\ rpc'[t].age = rpc[t].age
          /\ rpc'[t].limit = rpc[t].limit /\ rpc'[t].ttl = rpc[t].ttl
          /\ rpc'[t].reply = "refused"
      BY <1>1, <1>2, <2>1 DEF Types, Call
    <2>4. rpc["agent"].method = "none" => rpc'["agent"] = rpc["agent"]
      BY <1>1, <1>2, <2>3, Fields DEF Method, Attempted
    <2>5. /\ rpc'["agent"].ttl = rpc["agent"].ttl
          /\ rpc'["renew"].reply = "ok" => rpc'["renew"] = rpc["renew"]
      BY <1>1, <2>3, Fields
    <2>6. Answered
      BY <1>3, <2>2, <2>3, <2>4, <2>5 DEF Answered
    <2> QED
      BY <2>6, AnsweredKeeps
  <1> QED
    BY <1>4, <1>5

(* ... or a request nobody waits for, or ends the attempt.                 *)
LEMMA RowKeeps ==
  ASSUME WorkerInv, NEW m, ServeLate(m) \/ EndAttempt
  PROVE  WorkerInv'
  <1>1. Types /\ LeaseClipped
    BY DEF WorkerInv
  <1>2. /\ UNCHANGED <<agentVars, execVars, procVars, leaseVars, renewVars>>
        /\ rpc' = rpc
    BY DEF ServeLate, EndAttempt, netVars
  <1>3. RowOnly
    <2>1. CASE ServeLate(m) /\ Accepts(m)
      BY <1>1, <2>1, EffectKeeps DEF ServeLate, Apply
    <2>2. CASE ServeLate(m) /\ ~Accepts(m)
      BY <1>1, <2>2, Fields DEF ServeLate, storeVars, RowOnly, Types,
                                LeaseClipped
    <2>3. CASE EndAttempt
      BY <1>1, <2>3, Fields DEF EndAttempt, RowOnly, Types, LeaseClipped,
                                AttemptState, Active
    <2> QED
      BY <2>1, <2>2, <2>3
  <1>4. Answered
    BY <1>1, <1>2, <1>3 DEF Answered, Types
  <1> QED
    BY <1>4, AnsweredKeeps

(* The command runs: its group is not empty, so an execution has begun.    *)
LEMMA CommandKeeps == ASSUME WorkerInv, Command PROVE WorkerInv'
  <1>1. group # {} /\ execute # "none" /\ ~Doomed
    BY DEF WorkerInv, Executed, Doomed, Command
  <1>2. ExecuteOnly
    BY <1>1 DEF ExecuteOnly, Command, WorkerInv, Types, storeVars, netVars,
                agentVars, execVars, leaseVars, renewVars
  <1> QED
    BY <1>2, ExecuteOnlyKeeps

-----------------------------------------------------------------------------
(* The renewing thread gives a call no more time than the lease has left,  *)
(* or MinCall, and waits no longer than Wait.                              *)
LEMMA RenewKeeps == ASSUME WorkerInv, Renew PROVE WorkerInv'
  <1> USE Fields, Constants
  <1>1. /\ Types /\ LeaseClipped /\ Executed /\ Leasing /\ Renewing
        /\ LocalDeadlineSafe
    BY DEF WorkerInv
  <1>2. /\ attempt' = attempt /\ agent' = agent /\ execute' = execute
        /\ known' = known /\ renew # "none" /\ execute # "none"
    BY <1>1
    DEF Renew, RenewDone, RenewLost, RenewSend, RenewReturn, RenewFrame,
        storeVars, agentVars, execVars, Renewing
  <1>3. LeaseClipped' /\ Executed'
    BY <1>1, <1>2 DEF LeaseClipped, Executed
  <1> DEFINE limit == least(MaxCall, most(MinCall, deadline))
  <1>4. limit \in Nat /\ "Heartbeat" \in Method
    BY <1>1 DEF Types, least, most, Method, Attempted
  <1>5. \/ Send("renew", "Heartbeat", limit) \/ Return("renew")
        \/ Raise("renew") \/ UNCHANGED netVars
    BY DEF Renew, RenewDone, RenewLost, RenewSend, RenewReturn, netVars
  <1>6. /\ rpc' \in [Thread -> Call]
        /\ \A u \in Thread : rpc'[u].age <= rpc'[u].limit
        /\ rpc'["agent"] = rpc["agent"]
    BY <1>1, <1>4, <1>5, CallsOf
  <1>7. Leasing'
    BY <1>1, <1>2, <1>6 DEF Leasing
  <1>8. CASE RenewDone \/ RenewLost
    <2>1. renew' = "ended" /\ deadline' = deadline /\ wake' = wake
      BY <1>8 DEF RenewDone, RenewLost, leaseVars
    <2>2. Types' /\ Renewing' /\ LocalDeadlineSafe'
      BY <1>1, <1>2, <1>6, <2>1 DEF Types, Renewing, LocalDeadlineSafe
    <2> QED
      BY <1>3, <1>7, <2>2 DEF WorkerInv
  <1>9. CASE RenewSend
    <2>1. /\ renew' = "call" /\ deadline' = deadline /\ wake' = wake
          /\ deadline > 0
          /\ rpc' = [rpc EXCEPT !["renew"] =
                       [NoCall EXCEPT !.method = "Heartbeat", !.limit = limit]]
      BY <1>9 DEF RenewSend, Send, leaseVars, alive
    <2>2. /\ rpc'["renew"].method = "Heartbeat" /\ rpc'["renew"].age = 0
          /\ rpc'["renew"].limit = limit /\ rpc'["renew"].reply = "none"
      BY <1>1, <2>1 DEF Types, NoCall
    <2>3. attempt.lease - limit > Margin - MinCall
      BY <1>1, <1>2, <2>1 DEF LocalDeadlineSafe, Types, least, most
    <2>4. Renewing'
      BY <1>1, <1>2, <1>4, <2>1, <2>2, <2>3 DEF Renewing
    <2>5. Types' /\ LocalDeadlineSafe'
      BY <1>1, <1>2, <1>6, <2>1 DEF Types, LocalDeadlineSafe
    <2> QED
      BY <1>3, <1>7, <2>4, <2>5 DEF WorkerInv
  <1>10. CASE RenewReturn
    <2>1. /\ renew = "call" /\ renew' = "wait" /\ wake' = Wait
          /\ \/ /\ rpc["renew"].reply = "ok"
                /\ deadline' = rpc["renew"].ttl - Margin - rpc["renew"].age
             \/ deadline' = deadline
      BY <1>10 DEF RenewReturn, Return, LocalDeadline
    <2>2. deadline' \in Int /\ deadline' + Margin <= attempt.lease
      BY <1>1, <1>2, <2>1 DEF Types, Renewing, LocalDeadlineSafe
    <2>3. attempt.lease > Margin - MinCall
      BY <1>1, <2>1 DEF Renewing
    <2>4. Types' /\ LocalDeadlineSafe'
      BY <1>1, <1>2, <1>6, <2>1, <2>2 DEF Types, LocalDeadlineSafe
    <2>5. Renewing'
      BY <1>1, <1>2, <2>1, <2>3 DEF Renewing
    <2> QED
      BY <1>3, <1>7, <2>4, <2>5 DEF WorkerInv
  <1> QED
    BY <1>8, <1>9, <1>10 DEF Renew

(* A lease arrives: either there is time left for a command, or none will  *)
(* be started.                                                             *)
LEMMA LeasedKeeps == ASSUME WorkerInv, AgentLeased PROVE WorkerInv'
  <1> USE Fields, Constants
  <1>1. /\ Types /\ LeaseClipped /\ Executed /\ Leasing /\ Renewing
        /\ LocalDeadlineSafe
    BY DEF WorkerInv
  <1>2. /\ attempt' = attempt /\ known' = known /\ group' = group
        /\ agent' = "loop" /\ execute' = "begin" /\ renew' = "wait"
        /\ wake' = Wait /\ agent = "leasing" /\ rpc["agent"].ttl > 0
        /\ deadline' = rpc["agent"].ttl - Margin - rpc["agent"].age
        /\ rpc' = [rpc EXCEPT !["agent"] = NoCall]
    BY DEF AgentLeased, Return, LocalDeadline, storeVars, procVars
  <1>3. /\ execute = "none" /\ ~known /\ group = {}
        /\ attempt.state # "ABSENT"
        /\ rpc["agent"].ttl - rpc["agent"].age <= attempt.lease
    BY <1>1, <1>2 DEF Leasing, Executed
  <1>4. deadline' \in Int /\ deadline' + Margin <= attempt.lease
    BY <1>1, <1>2, <1>3
  <1>5. Types'
    BY <1>1, <1>2, <1>4, NoCallFields DEF Types
  <1>6. LeaseClipped' /\ Executed' /\ LocalDeadlineSafe'
    BY <1>1, <1>2, <1>3, <1>4 DEF LeaseClipped, Executed, LocalDeadlineSafe
  <1>7. rpc'["agent"] = NoCall
    BY <1>1, <1>2 DEF Types
  <1>8. Leasing'
    BY <1>2, <1>7, NoCallFields DEF Leasing
  <1>9. attempt.lease - Wait > Margin - Wait - MinCall \/ Doomed'
    BY <1>1, <1>2, <1>3, <1>4 DEF Doomed
  <1>10. Renewing'
    BY <1>2, <1>9 DEF Renewing
  <1> QED
    BY <1>5, <1>6, <1>8, <1>10 DEF WorkerInv

(* The other steps of Worker.run, and the signal.                          *)
LEMMA AgentKeeps ==
  ASSUME WorkerInv,
         AgentLoop \/ AgentIdle \/ AgentReleased \/ AgentDrained \/ Signal
  PROVE  WorkerInv'
  <1> USE Fields, Constants
  <1>1. /\ Types /\ LeaseClipped /\ Executed /\ Leasing /\ Renewing
        /\ LocalDeadlineSafe
    BY DEF WorkerInv
  <1>2. /\ attempt' = attempt /\ execute' = execute /\ known' = known
        /\ group' = group /\ deadline' = deadline /\ renew' = renew
        /\ wake' = wake
    BY DEF AgentLoop, AgentIdle, AgentReleased, AgentDrained, Signal,
           storeVars, execVars, procVars, leaseVars, renewVars
  <1>3. PICK m \in Method, limit \in Nat :
          \/ Send("agent", m, limit) \/ Return("agent") \/ Raise("agent")
          \/ UNCHANGED netVars
    BY DEF AgentLoop, AgentIdle, AgentReleased, AgentDrained, Signal, Method
  <1>4. /\ rpc' \in [Thread -> Call]
        /\ \A u \in Thread : rpc'[u].age <= rpc'[u].limit
        /\ rpc'["renew"] = rpc["renew"]
    BY <1>1, <1>3, CallsOf
  <1>5. Types' /\ LeaseClipped' /\ Executed' /\ LocalDeadlineSafe'
    BY <1>1, <1>2, <1>4
    DEF Types, LeaseClipped, Executed, LocalDeadlineSafe
  <1>6. Renewing'
    BY <1>1, <1>2, <1>4 DEF Renewing, Doomed
  <1>7. Leasing'
    <2>1. CASE AgentLoop
      <3>1. rpc'["agent"].ttl = 0
        BY <1>1, <2>1 DEF AgentLoop, Send, Types, NoCall
      <3>2. \/ agent' = "release" /\ rpc'["agent"].method = "ReleaseWorker"
            \/ /\ agent' = "leasing" /\ execute = "none"
               /\ rpc'["agent"].method = "LeaseJob"
               /\ rpc'["agent"].limit = LeaseCall
        <4>1. rpc \in [Thread -> Call]
          BY <1>1 DEF Types
        <4>2. \A sent, max : Send("agent", sent, max) =>
                /\ rpc'["agent"].method = sent
                /\ rpc'["agent"].limit = max
          BY <4>1 DEF Send, NoCall, Thread
        <4>3. \/ agent' = "release" /\ Send("agent", "ReleaseWorker", 0)
              \/ /\ agent' = "leasing" /\ execute = "none"
                 /\ Send("agent", "LeaseJob", LeaseCall)
          BY <2>1 DEF AgentLoop
        <4> QED
          BY <4>2, <4>3
      <3> QED
        BY <1>2, <3>1, <3>2, SMTT(30) DEF Leasing
    <2>2. CASE AgentIdle \/ AgentReleased
      <3>1. rpc'["agent"] = NoCall /\ agent' \in {"loop", "drain"}
        BY <1>1, <2>2 DEF AgentIdle, AgentReleased, Return, Raise, Types
      <3> QED
        BY <3>1, NoCallFields DEF Leasing
    <2>3. CASE AgentDrained \/ Signal
      BY <1>1, <1>2, <2>3
      DEF AgentDrained, Signal, Leasing, netVars
    <2> QED
      BY <2>1, <2>2, <2>3
  <1> QED
    BY <1>5, <1>6, <1>7 DEF WorkerInv

-----------------------------------------------------------------------------
(* A tick takes as much from the lease as from whatever relies on it.      *)
LEMMA TickKeeps == ASSUME WorkerInv, Tick PROVE WorkerInv'
  <1> USE Fields, Constants
  <1>1. /\ Types /\ LeaseClipped /\ Executed /\ Leasing /\ Renewing
        /\ LocalDeadlineSafe
    BY DEF WorkerInv
  <1>2. /\ agent' = agent /\ execute' = execute /\ known' = known
        /\ group' = group /\ renew' = renew
    BY DEF Tick, agentVars, execVars, procVars
  <1>3. /\ attempt' \in [state : AttemptState \cup {"ABSENT"}, lease : Int,
                         deadline : Nat]
        /\ attempt'.state = attempt.state
        /\ attempt'.lease = IF attempt.lease > LeaseFloor
                            THEN attempt.lease - 1 ELSE attempt.lease
        /\ attempt'.deadline = IF attempt.deadline > 0
                               THEN attempt.deadline - 1 ELSE attempt.deadline
    <2> DEFINE l == IF attempt.lease > LeaseFloor
                    THEN attempt.lease - 1 ELSE attempt.lease
               d == IF attempt.deadline > 0
                    THEN attempt.deadline - 1 ELSE attempt.deadline
    <2>1. l \in Int /\ d \in Nat
      BY <1>1
    <2>2. attempt' = [attempt EXCEPT !.lease = l, !.deadline = d]
      BY DEF Tick
    <2> HIDE DEF l, d
    <2>3. /\ attempt' \in [state : AttemptState \cup {"ABSENT"}, lease : Int,
                           deadline : Nat]
          /\ attempt'.state = attempt.state
          /\ attempt'.lease = l /\ attempt'.deadline = d
      BY <1>1, <2>1, <2>2 DEF Types
    <2> QED
      BY <2>3 DEF l, d
  <1>4. /\ attempt'.lease \in Int /\ attempt'.lease >= attempt.lease - 1
        /\ attempt'.lease <= attempt.lease /\ attempt'.lease >= LeaseFloor
    BY <1>1, <1>3 DEF Types
  <1>5. /\ deadline' = IF deadline > LocalFloor THEN deadline - 1 ELSE deadline
        /\ wake' = IF wake > 0 THEN wake - 1 ELSE wake
        /\ deadline' \in Int /\ wake' \in Nat
    BY <1>1 DEF Tick, Types
  <1>6. rpc' = [t \in Thread |-> Older(rpc[t])]
    BY DEF Tick
  <1>7. \A t \in Thread :
          /\ rpc'[t] \in Call /\ rpc'[t].method = rpc[t].method
          /\ rpc'[t].limit = rpc[t].limit /\ rpc'[t].reply = rpc[t].reply
          /\ rpc'[t].ttl = rpc[t].ttl
          /\ rpc'[t].age = IF rpc[t].age < rpc[t].limit
                           THEN rpc[t].age + 1 ELSE rpc[t].age
    <2> TAKE t \in Thread
    <2>1. rpc[t] \in Call /\ rpc'[t] = Older(rpc[t])
      BY <1>1, <1>6
    <2> QED
      BY <2>1 DEF Older, Call
  <1>8. Types'
    <2>1. rpc' \in [Thread -> Call]
      BY <1>6, <1>7
    <2>2. \A t \in Thread : rpc'[t].age <= rpc'[t].limit
      BY <1>1, <1>7
    <2> QED
      BY <1>3, <1>4, <1>5, <2>1, <2>2 DEF Types
  <1>9. LeaseClipped'
    BY <1>1, <1>3 DEF LeaseClipped
  <1>10. Executed'
    BY <1>1, <1>2, <1>3 DEF Executed
  <1>11. LocalDeadlineSafe'
    BY <1>1, <1>2, <1>3, <1>4, <1>5 DEF LocalDeadlineSafe, Types
  <1>12. Leasing'
    <2>1. rpc["agent"] = NoCall => rpc'["agent"] = NoCall
      BY <1>1, <1>6, NoCallFields DEF Older, NoCall
    <2>2. ASSUME rpc'["agent"].ttl > 0
          PROVE  /\ agent = "leasing" /\ attempt'.state # "ABSENT"
                 /\ rpc'["agent"].ttl - rpc'["agent"].age <= attempt'.lease
      <3>1. /\ agent = "leasing" /\ attempt.state # "ABSENT"
            /\ rpc["agent"].ttl - rpc["agent"].age <= attempt.lease
            /\ rpc["agent"].limit > 0
        BY <1>1, <1>7, <2>2, SMTT(40) DEF Leasing
      <3>2. rpc'["agent"].age = rpc["agent"].age + 1
        BY <1>1, <1>7, <3>1 DEF Tick
      <3> QED
        BY <1>1, <1>3, <1>4, <1>7, <3>1, <3>2
    <2> QED
      BY <1>1, <1>2, <1>7, <2>1, <2>2 DEF Leasing
  <1>13. Renewing'
    <2>1. ASSUME renew = "call"
          PROVE  /\ rpc'["renew"].method = "Heartbeat"
                 /\ rpc'["renew"].reply = "ok" =>
                      rpc'["renew"].ttl - rpc'["renew"].age <= attempt'.lease
                 /\ attempt'.lease - (rpc'["renew"].limit - rpc'["renew"].age)
                      > Margin - MinCall
      <3>1. rpc'["renew"].age = rpc["renew"].age + 1
        BY <1>1, <1>7, <2>1 DEF Tick, Due
      <3> QED
        BY <1>1, <1>4, <1>7, <2>1, <3>1, SMTT(30) DEF Renewing
    <2>2. ASSUME renew = "wait"
          PROVE  attempt'.lease - wake' > Margin - Wait - MinCall \/ Doomed'
      <3>1. wake' = wake - 1
        BY <1>1, <1>5, <2>2 DEF Tick, Due, Types
      <3>2. Doomed => Doomed'
        BY <1>1, <1>2, <1>5 DEF Doomed, Types
      <3> QED
        BY <1>1, <1>4, <2>2, <3>1, <3>2 DEF Renewing, Types
    <2> QED
      BY <1>1, <1>2, <2>1, <2>2 DEF Renewing
  <1> QED
    BY <1>8, <1>9, <1>10, <1>11, <1>12, <1>13 DEF WorkerInv

-----------------------------------------------------------------------------
(* Every step preserves the invariant.                                     *)
LEMMA WorkerStep == ASSUME WorkerInv, [Next]_vars PROVE WorkerInv'
  <1>1. CASE Execute
    BY <1>1, ExecuteKeeps
  <1>2. CASE Renew
    BY <1>2, RenewKeeps
  <1>3. CASE Agent \/ Signal
    BY <1>3, LeasedKeeps, AgentKeeps DEF Agent
  <1>4. CASE Tick
    BY <1>4, TickKeeps
  <1>5. CASE Command
    BY <1>5, CommandKeeps
  <1>6. CASE EndAttempt
    BY <1>6, RowKeeps
  <1>7. CASE \E t \in Thread : Serve(t)
    BY <1>7, ServeKeeps
  <1>8. CASE \E m \in late : ServeLate(m)
    BY <1>8, RowKeeps
  <1>9. CASE UNCHANGED vars
    BY <1>9 DEF vars, storeVars, netVars, agentVars, execVars, procVars,
                leaseVars, renewVars, WorkerInv, Types, LeaseClipped,
                Executed, Leasing, Renewing, Doomed, LocalDeadlineSafe
  <1> QED
    BY <1>1, <1>2, <1>3, <1>4, <1>5, <1>6, <1>7, <1>8, <1>9 DEF Next

(* The invariant holds throughout.                                         *)
THEOREM WorkerCorrect == Spec => []WorkerInv
  <1>1. Init => WorkerInv
    BY WorkerInit
  <1>2. WorkerInv /\ [Next]_vars => WorkerInv'
    BY WorkerStep
  <1> QED
    BY <1>1, <1>2, PTL DEF Spec

(* Worker.execute never takes its lease to be longer than the row of the   *)
(* store says, whatever requests and answers are delayed, lost or late.    *)
THEOREM DeadlineIsSafe == Spec => []LocalDeadlineSafe
  <1>1. WorkerInv => LocalDeadlineSafe
    BY DEF WorkerInv
  <1> QED
    BY <1>1, WorkerCorrect, PTL

(* The renewing thread kills a command it knows before it has outlived the *)
(* lease by as much as a wait and a shortest call exceed the margin.       *)
THEOREM OverrunIsBounded == Spec => []OverrunBounded
  <1>1. WorkerInv => OverrunBounded
    <2> SUFFICES ASSUME WorkerInv, known, group # {}, renew # "ended"
                 PROVE  attempt.lease + Wait + MinCall > Margin
      BY DEF OverrunBounded
    <2> USE Fields, Constants
    <2>1. Types /\ Executed /\ Renewing
      BY DEF WorkerInv
    <2>2. renew \in {"wait", "call"}
      BY <2>1 DEF Executed, Renewing
    <2>3. CASE renew = "wait"
      BY <2>1, <2>3 DEF Renewing, Doomed, Types
    <2>4. CASE renew = "call"
      BY <2>1, <2>4 DEF Renewing
    <2> QED
      BY <2>2, <2>3, <2>4
  <1> QED
    BY <1>1, WorkerCorrect, PTL

-----------------------------------------------------------------------------
(* The process group and the result.  This invariant follows the command   *)
(* instead of the lease.                                                   *)

(* Where Worker.execute is before there is a process, and where it may be  *)
(* once the command was seen to end.                                       *)
Before == {"none", "begin", "start", "restore", "spawn", "popen", "assign"}
Leaving == {"except", "failing", "finally", "leave", "ended"}
After == {"join", "progress", "report", "record", "outputs", "commit",
          "result"} \cup Leaving

(* The variables WorkerInv says nothing about, typed.                      *)
Moves ==
  /\ outputs \in BOOLEAN /\ late \subseteq Method /\ stopping \in BOOLEAN
  /\ execute \in Before \cup {"loop", "sleep"} \cup After
  /\ polled \in BOOLEAN /\ known \in BOOLEAN
  /\ group \subseteq {"command", "child"}
  /\ code \in {"none", "zero", "nonzero", "killed"}
  /\ lost \in BOOLEAN /\ done \in BOOLEAN

(* Who may find members of the process group.                              *)
Grouped ==
  /\ known => execute \notin Before
  /\ execute \in {"loop", "sleep", "progress", "report", "record"} => known
  /\ group # {} => known \/ execute = "assign"
  /\ polled => known /\ group = {} /\ execute \in After
  /\ execute \in {"join", "outputs", "commit", "result"} => polled
  /\ execute \in {"leave", "ended"} => group = {}
  /\ renew = "ended" => done \/ lost
  /\ agent = "ended" => execute \in {"none", "ended"}

(* The call execute waits for, and what an answer to it means.             *)
Calling ==
  /\ rpc["execute"].method \in
       CASE execute = "start" -> {"StartAttempt"}
         [] execute \in {"report", "record"} -> {"ReportProgress"}
         [] execute = "commit" -> {"ReportOutputs"}
         [] execute = "result" -> {"CompleteAttempt", "FailAttempt"}
         [] execute = "failing" -> {"FailAttempt"}
         [] OTHER -> {"none"}
  /\ execute = "commit" /\ rpc["execute"].reply = "ok" => outputs
  /\ execute = "result" => outputs
  /\ rpc["execute"].method = "CompleteAttempt" => code = "zero"
  /\ rpc["renew"].method \in {"none", "Heartbeat"}

(* A completion that was requested, or has been applied.                   *)
Completing ==
  "CompleteAttempt" \in late \/ attempt.state = "SUCCEEDED" =>
    /\ code = "zero" /\ outputs /\ polled
    /\ execute \in {"result"} \cup Leaving

ControlInv == Moves /\ Grouped /\ Calling /\ Completing /\ LateStartIsMet

(* What sending, returning and raising do to the call of a thread.         *)
LEMMA SendCall ==
  ASSUME Types, NEW t \in Thread, NEW m, NEW limit, Send(t, m, limit)
  PROVE  /\ rpc'[t].method = m /\ rpc'[t].reply = "none" /\ late' = late
         /\ \A u \in Thread \ {t} : rpc'[u] = rpc[u]
  BY DEF Types, Send, NoCall

LEMMA EndCall ==
  ASSUME Types, NEW t \in Thread, Return(t) \/ Raise(t)
  PROVE  /\ rpc'[t].method = "none" /\ rpc'[t].reply = "none"
         /\ \A u \in Thread \ {t} : rpc'[u] = rpc[u]
         /\ late \subseteq late' /\ late' \subseteq late \cup {rpc[t].method}
  BY DEF Types, Return, Raise, NoCall

(* Steps of execute.                                                       *)
LEMMA ControlExecute ==
  ASSUME WorkerInv, ControlInv, Execute PROVE ControlInv'
  <1>1. /\ Types /\ "execute" \in Thread /\ "renew" \in Thread
        /\ Moves /\ Grouped /\ Calling /\ Completing /\ LateStartIsMet
    BY DEF WorkerInv, ControlInv, Thread
  <1>2. /\ attempt' = attempt /\ agent' = agent /\ renew' = renew
    BY ExecuteFrame
  <1> USE <1>1, <1>2
      DEF ControlInv, Moves, Grouped, Calling, Completing, LateStartIsMet,
          Before, After, Leaving, ExecFrame, storeVars, agentVars, leaseVars,
          renewVars, netVars, procVars, Goto, AfterProgress, kill_group, alive
  <1>3. CASE ExecBegin
    BY <1>3, SendCall, EndCall DEF ExecBegin
  <1>4. CASE ExecStart
    <2>1. rpc["execute"].method = "StartAttempt"
      BY <1>4 DEF ExecStart
    <2>2. /\ rpc'["execute"].method = "none"
          /\ late' \subseteq late \cup {"StartAttempt"}
          /\ rpc'["execute"].reply = "none" /\ rpc'["renew"] = rpc["renew"]
      BY <1>4, <2>1, EndCall DEF ExecStart
    <2> QED
      BY <1>4, <2>1, <2>2 DEF ExecStart, Method, Attempted
  <1>5. CASE ExecRestore
    BY <1>5, SendCall, EndCall DEF ExecRestore
  <1>6. CASE ExecSpawn
    BY <1>6, SendCall, EndCall DEF ExecSpawn
  <1>7. CASE ExecPopen
    BY <1>7, SendCall, EndCall DEF ExecPopen
  <1>8. CASE ExecAssign
    BY <1>8, SendCall, EndCall DEF ExecAssign
  <1>9. CASE ExecLoop
    <2>1. rpc' = rpc /\ late' = late
      BY <1>9 DEF ExecLoop
    <2>2. CASE /\ code # "none" /\ execute' = "join" /\ polled' = TRUE
               /\ kill_group /\ UNCHANGED known
      BY <1>9, <2>1, <2>2 DEF ExecLoop
    <2>3. CASE code = "none" /\ ~alive /\ Goto("finally") /\ kill_group
      BY <1>9, <2>1, <2>3 DEF ExecLoop
    <2>4. CASE code = "none" /\ alive /\ Goto("progress") /\ UNCHANGED procVars
      BY <1>9, <2>1, <2>4 DEF ExecLoop
    <2> QED
      BY <1>9, <2>2, <2>3, <2>4 DEF ExecLoop
  <1>10. CASE ExecSleep
    BY <1>10, SendCall, EndCall DEF ExecSleep
  <1>11. CASE ExecJoin
    BY <1>11, SendCall, EndCall DEF ExecJoin
  <1>12. CASE ExecProgress
    <2>1. CASE AfterProgress /\ UNCHANGED netVars
      BY <1>12, <2>1 DEF ExecProgress
    <2>2. CASE Goto("except") /\ UNCHANGED netVars
      BY <1>12, <2>2 DEF ExecProgress
    <2>3. CASE Goto("report") /\ Send("execute", "ReportProgress", 0)
      <3>1. /\ rpc'["execute"].method = "ReportProgress" /\ late' = late
            /\ rpc'["execute"].reply = "none" /\ rpc'["renew"] = rpc["renew"]
        BY <2>3, SendCall
      <3> QED
        BY <1>12, <2>3, <3>1 DEF ExecProgress
    <2> QED
      BY <1>12, <2>1, <2>2, <2>3 DEF ExecProgress
  <1>13. CASE ExecReport \/ ExecRecord
    <2>1. /\ rpc["execute"].method = "ReportProgress" /\ UNCHANGED procVars
          /\ execute \in {"report", "record"} /\ ExecFrame
      BY <1>13 DEF ExecReport, ExecRecord
    <2>2. CASE Return("execute") /\ AfterProgress
      <3>1. /\ rpc'["execute"].method = "none"
            /\ rpc'["execute"].reply = "none" /\ rpc'["renew"] = rpc["renew"]
        BY <2>2, EndCall
      <3>2. late' = late
        BY <2>2 DEF Return
      <3> QED
        BY <2>1, <2>2, <3>1, <3>2
    <2>3. CASE Raise("execute") /\ Goto("except")
      <3>1. /\ rpc'["execute"].method = "none"
            /\ late' \subseteq late \cup {"ReportProgress"}
            /\ rpc'["execute"].reply = "none" /\ rpc'["renew"] = rpc["renew"]
        BY <2>1, <2>3, EndCall
      <3> QED
        BY <2>1, <2>3, <3>1 DEF Method, Attempted
    <2>4. CASE Goto("record") /\ Send("execute", "ReportProgress", 0)
      <3>1. /\ rpc'["execute"].method = "ReportProgress" /\ late' = late
            /\ rpc'["execute"].reply = "none" /\ rpc'["renew"] = rpc["renew"]
        BY <2>4, SendCall
      <3> QED
        BY <2>1, <2>4, <3>1
    <2> QED
      BY <1>13, <2>2, <2>3, <2>4 DEF ExecReport, ExecRecord
  <1>14. CASE ExecOutputs
    <2>1. CASE Goto("commit") /\ Send("execute", "ReportOutputs", 0)
      <3>1. /\ rpc'["execute"].method = "ReportOutputs" /\ late' = late
            /\ rpc'["execute"].reply = "none" /\ rpc'["renew"] = rpc["renew"]
        BY <2>1, SendCall
      <3> QED
        BY <1>14, <2>1, <3>1 DEF ExecOutputs
    <2>2. CASE Goto("except") /\ UNCHANGED netVars
      BY <1>14, <2>2 DEF ExecOutputs
    <2> QED
      BY <1>14, <2>1, <2>2 DEF ExecOutputs
  <1>15. CASE ExecCommit
    <2>1. CASE /\ rpc["execute"].reply = "ok" /\ Goto("result")
               /\ Send("execute", IF code = "zero" THEN "CompleteAttempt"
                                                   ELSE "FailAttempt", 0)
      <3>1. /\ rpc'["execute"].method = IF code = "zero"
                                        THEN "CompleteAttempt"
                                        ELSE "FailAttempt"
            /\ rpc'["execute"].reply = "none" /\ late' = late
            /\ rpc'["renew"] = rpc["renew"]
        BY <2>1, SendCall
      <3> QED
        BY <1>15, <2>1, <3>1 DEF ExecCommit
    <2>2. CASE Raise("execute") /\ Goto("except")
      <3>1. rpc["execute"].method = "ReportOutputs"
        BY <1>15 DEF ExecCommit
      <3> QED
        BY <1>15, <2>2, <3>1, EndCall DEF ExecCommit, Method, Attempted
    <2> QED
      BY <1>15, <2>1, <2>2 DEF ExecCommit
  <1>16. CASE ExecResult
    <2>1. rpc["execute"].method \in {"CompleteAttempt", "FailAttempt"}
      BY <1>16 DEF ExecResult
    <2>2. /\ rpc'["execute"].method = "none"
          /\ late' \subseteq late \cup {rpc["execute"].method}
          /\ rpc'["renew"] = rpc["renew"]
      <3>1. Return("execute") \/ Raise("execute")
        BY <1>16 DEF ExecResult
      <3> QED
        BY <3>1, EndCall
    <2>3. execute' \in {"finally", "except"} /\ execute = "result"
      BY <1>16 DEF ExecResult
    <2> QED
      BY <1>16, <2>1, <2>2, <2>3 DEF ExecResult, Method, Attempted
  <1>17. CASE ExecExcept
    BY <1>17, SendCall, EndCall DEF ExecExcept
  <1>18. CASE ExecFailing
    <2>1. rpc["execute"].method = "FailAttempt"
      BY <1>18 DEF ExecFailing
    <2>2. /\ rpc'["execute"].method = "none"
          /\ late' \subseteq late \cup {"FailAttempt"}
          /\ rpc'["execute"].reply = "none" /\ rpc'["renew"] = rpc["renew"]
      BY <1>18, <2>1, EndCall DEF ExecFailing
    <2> QED
      BY <1>18, <2>1, <2>2 DEF ExecFailing, Method, Attempted
  <1>19. CASE ExecFinally
    BY <1>19, SendCall, EndCall DEF ExecFinally
  <1>20. CASE ExecLeave
    BY <1>20, SendCall, EndCall DEF ExecLeave
  <1> QED
    BY <1>3, <1>4, <1>5, <1>6, <1>7, <1>8, <1>9, <1>10, <1>11, <1>12, <1>13,
       <1>14, <1>15, <1>16, <1>17, <1>18, <1>19, <1>20 DEF Execute

(* Steps of the renewing thread.                                           *)
LEMMA ControlRenew ==
  ASSUME WorkerInv, ControlInv, Renew PROVE ControlInv'
  <1>1. /\ Types /\ "execute" \in Thread /\ "renew" \in Thread
        /\ Moves /\ Grouped /\ Calling /\ Completing /\ LateStartIsMet
        /\ Executed /\ Renewing
    BY DEF WorkerInv, ControlInv, Thread
  <1>2. UNCHANGED <<storeVars, agentVars, execVars>> /\ UNCHANGED done
    BY DEF Renew, RenewDone, RenewLost, RenewSend, RenewReturn, RenewFrame,
           leaseVars
  <1>3. rpc'["execute"] = rpc["execute"]
    BY <1>1, SendCall, EndCall
    DEF Renew, RenewDone, RenewLost, RenewSend, RenewReturn, netVars
  <1> USE <1>1, <1>2, <1>3
      DEF ControlInv, Moves, Grouped, Calling, Completing, LateStartIsMet,
          Before, After, Leaving, storeVars, agentVars, execVars, leaseVars,
          netVars, procVars, kill_group
  <1>4. CASE RenewDone
    BY <1>4 DEF RenewDone
  <1>5. CASE RenewLost
    BY <1>5 DEF RenewLost
  <1>6. CASE RenewSend
    <2>1. rpc'["renew"].method = "Heartbeat" /\ late' = late
      BY <1>6, SendCall DEF RenewSend
    <2> QED
      BY <1>6, <2>1 DEF RenewSend
  <1>7. CASE RenewReturn
    <2>1. /\ Return("renew") \/ Raise("renew")
          /\ rpc["renew"].method = "Heartbeat"
      BY <1>7 DEF RenewReturn, Renewing
    <2>2. /\ rpc'["renew"].method = "none"
          /\ late' \subseteq late \cup {"Heartbeat"}
      BY <2>1, EndCall
    <2>3. late' \subseteq Method
      BY <2>2 DEF Method, Attempted
    <2>4. renew' = "wait" /\ lost' \in BOOLEAN /\ UNCHANGED procVars
      BY <1>7 DEF RenewReturn
    <2> QED
      BY <2>2, <2>3, <2>4
  <1> QED
    BY <1>4, <1>5, <1>6, <1>7 DEF Renew

(* Steps of Worker.run.                                                    *)
LEMMA ControlAgent ==
  ASSUME WorkerInv, ControlInv, Agent PROVE ControlInv'
  <1>1. /\ Types /\ "agent" \in Thread /\ "execute" \in Thread
        /\ "renew" \in Thread
        /\ Moves /\ Grouped /\ Calling /\ Completing /\ LateStartIsMet
        /\ Executed /\ Renewing /\ Leasing
    BY DEF WorkerInv, ControlInv, Thread
  <1>2. /\ UNCHANGED <<stopping, storeVars, procVars>>
        /\ UNCHANGED <<polled, known, lost, done>>
    BY DEF Agent, AgentLoop, AgentLeased, AgentIdle, AgentReleased,
           AgentDrained, execVars, leaseVars
  <1>3. rpc'["execute"] = rpc["execute"] /\ rpc'["renew"] = rpc["renew"]
    BY <1>1, SendCall, EndCall
    DEF Agent, AgentLoop, AgentLeased, AgentIdle, AgentReleased, AgentDrained,
        netVars
  <1> USE <1>1, <1>2, <1>3
      DEF ControlInv, Moves, Grouped, Calling, Completing, LateStartIsMet,
          Before, After, Leaving, storeVars, execVars, leaseVars, renewVars,
          netVars, procVars
  <1>4. CASE AgentLoop
    <2>1. late' = late
      BY <1>4, SendCall DEF AgentLoop
    <2> QED
      BY <1>4, <2>1 DEF AgentLoop
  <1>5. CASE AgentLeased
    <2>1. /\ late' = late /\ execute = "none" /\ execute' = "begin"
          /\ renew' = "wait" /\ agent' = "loop" /\ ~known /\ group = {}
      BY <1>5 DEF AgentLeased, Return, Leasing, Executed
    <2> QED
      BY <2>1
  <1>6. CASE AgentIdle
    <2>1. Return("agent") \/ Raise("agent")
      BY <1>6 DEF AgentIdle
    <2>2. late' \subseteq late \cup {"LeaseJob"}
      BY <1>6, <2>1, EndCall DEF AgentIdle, Leasing
    <2> QED
      BY <1>6, <2>2 DEF AgentIdle, Method
  <1>7. CASE AgentReleased
    <2>1. late' \subseteq late \cup {"ReleaseWorker"}
      BY <1>7, EndCall DEF AgentReleased, Leasing
    <2> QED
      BY <1>7, <2>1 DEF AgentReleased, Method
  <1>8. CASE AgentDrained
    BY <1>8 DEF AgentDrained
  <1> QED
    BY <1>4, <1>5, <1>6, <1>7, <1>8 DEF Agent

(* What the store does with a request.                                     *)
LEMMA Succeeding ==
  ASSUME Types, NEW m
  PROVE  Effect(m).state = "SUCCEEDED" =>
           attempt.state = "SUCCEEDED" \/ m = "CompleteAttempt"
  BY DEF Effect, Types, AttemptState

LEMMA ControlServe ==
  ASSUME WorkerInv, ControlInv,
         \/ \E t \in Thread : Serve(t)
         \/ \E m \in late : ServeLate(m)
  PROVE  ControlInv'
  <1>1. /\ Types /\ "execute" \in Thread /\ "renew" \in Thread
        /\ Moves /\ Grouped /\ Calling /\ Completing /\ LateStartIsMet
        /\ Leasing
    BY DEF WorkerInv, ControlInv, Thread
  <1>2. UNCHANGED <<agentVars, execVars, procVars, leaseVars, renewVars>>
    BY DEF Serve, ServeLate
  <1>3. \A t \in Thread : rpc'[t].method = rpc[t].method
    <2>1. CASE \E m \in late : ServeLate(m)
      BY <2>1 DEF ServeLate
    <2>2. CASE \E t \in Thread : Serve(t)
      <3>1. PICK t \in Thread : Serve(t)
        BY <2>2
      <3>2. \A u \in Thread : rpc[u] \in Call
        BY <1>1 DEF Types
      <3> QED
        BY <1>1, <3>1, <3>2 DEF Serve, Types, Call
    <2> QED
      BY <2>1, <2>2
  <1>4. /\ late' \subseteq late
        /\ outputs => outputs'
        /\ outputs' \in BOOLEAN
    BY <1>1 DEF Serve, ServeLate, Apply, storeVars, Moves
  <1>5. attempt'.state = "SUCCEEDED" =>
          \/ attempt.state = "SUCCEEDED" \/ "CompleteAttempt" \in late
          \/ rpc["execute"].method = "CompleteAttempt"
    <2>1. CASE \E m \in late : ServeLate(m)
      BY <1>1, <2>1, Succeeding DEF ServeLate, Apply, storeVars
    <2>2. CASE \E t \in Thread : Serve(t)
      <3>1. PICK t \in Thread : Serve(t)
        BY <2>2
      <3>2. t # "execute" => rpc[t].method # "CompleteAttempt"
        BY <1>1 DEF Thread, Leasing, Calling, NoCall
      <3> QED
        BY <1>1, <3>1, <3>2, Succeeding DEF Serve, Apply, storeVars
    <2> QED
      BY <2>1, <2>2
  <1>6. execute = "commit" /\ rpc'["execute"].reply = "ok" => outputs'
    <2> SUFFICES ASSUME execute = "commit", rpc'["execute"].reply = "ok",
                        rpc["execute"].reply # "ok"
                 PROVE  outputs'
      BY <1>1, <1>4 DEF Calling
    <2>1. rpc["execute"].method = "ReportOutputs"
      BY <1>1 DEF Calling
    <2>2. Serve("execute")
      <3>1. ~ \E m \in late : ServeLate(m)
        BY DEF ServeLate
      <3>2. \A t \in Thread \ {"execute"} : ~ Serve(t)
        BY <1>1 DEF Serve, Types, storeVars
      <3> QED
        BY <3>1, <3>2
    <2>3. Accepts("ReportOutputs")
      BY <1>1, <2>1, <2>2 DEF Serve, Types, Call
    <2> QED
      BY <2>1, <2>2, <2>3 DEF Serve, Apply
  <1> USE <1>1, <1>2 DEF agentVars, execVars, procVars, leaseVars, renewVars
  <1>7. Moves' /\ Grouped' /\ LateStartIsMet'
    BY <1>4 DEF Moves, Grouped, LateStartIsMet
  <1>8. Calling'
    BY <1>3, <1>4, <1>6 DEF Calling
  <1>9. Completing'
    BY <1>4, <1>5 DEF Completing, Calling, Grouped
  <1> QED
    BY <1>7, <1>8, <1>9 DEF ControlInv

(* The other steps.                                                        *)
LEMMA ControlOther ==
  ASSUME WorkerInv, ControlInv,
         Tick \/ Signal \/ Command \/ EndAttempt \/ UNCHANGED vars
  PROVE  ControlInv'
  <1>1. /\ Types /\ "execute" \in Thread /\ "renew" \in Thread
        /\ Moves /\ Grouped /\ Calling /\ Completing /\ LateStartIsMet
    BY DEF WorkerInv, ControlInv, Thread
  <1>2. UNCHANGED <<outputs, late, agent, execVars, lost, done, renew>>
    BY DEF Tick, Signal, Command, EndAttempt, vars, storeVars, netVars,
           agentVars, leaseVars, renewVars
  <1>3. \A t \in Thread : /\ rpc'[t].method = rpc[t].method
                          /\ rpc'[t].reply = rpc[t].reply
    <2>1. CASE Tick
      <3>1. \A t \in Thread : rpc[t] \in Call
        BY <1>1 DEF Types
      <3> QED
        BY <2>1, <3>1 DEF Tick, Older, Call
    <2> QED
      BY <2>1 DEF Signal, Command, EndAttempt, vars, netVars
  <1>4. attempt'.state = "SUCCEEDED" => attempt.state = "SUCCEEDED"
    BY <1>1 DEF Tick, Signal, Command, EndAttempt, vars, storeVars, Types
  <1>5. stopping' \in BOOLEAN
    BY <1>1 DEF Tick, Signal, Command, EndAttempt, vars, agentVars, Moves
  <1>6. \/ UNCHANGED procVars
        \/ /\ group # {} /\ group' \subseteq {"command", "child"}
           /\ code' \in {"none", "zero", "nonzero", "killed"}
    BY <1>1 DEF Tick, Signal, Command, EndAttempt, vars, Moves
  <1>7. polled => UNCHANGED procVars
    BY <1>1, <1>6 DEF Grouped
  <1> USE <1>1, <1>2 DEF execVars, procVars
  <1>8. Moves'
    BY <1>5, <1>6 DEF Moves
  <1>9. Grouped'
    BY <1>6, <1>7 DEF Grouped
  <1>10. Calling'
    BY <1>3, <1>6, <1>7 DEF Calling, Grouped
  <1>11. Completing'
    BY <1>4, <1>7 DEF Completing
  <1>12. LateStartIsMet'
    BY <1>6 DEF LateStartIsMet
  <1> QED
    BY <1>8, <1>9, <1>10, <1>11, <1>12 DEF ControlInv

LEMMA ControlStep ==
  ASSUME WorkerInv, ControlInv, [Next]_vars PROVE ControlInv'
  BY ControlExecute, ControlRenew, ControlAgent, ControlServe, ControlOther
  DEF Next

(* Both invariants hold throughout.                                        *)
THEOREM ControlCorrect == Spec => [](WorkerInv /\ ControlInv)
  <1>1. Init => WorkerInv /\ ControlInv
    <2>1. ASSUME Init PROVE ControlInv
      BY <2>1 DEF Init, ControlInv, Moves, Grouped, Calling, Completing,
         LateStartIsMet, Before, After, Thread, NoCall
    <2> QED
      BY <2>1, WorkerInit
  <1>2. WorkerInv /\ ControlInv /\ [Next]_vars => (WorkerInv /\ ControlInv)'
    BY WorkerStep, ControlStep
  <1> QED
    BY <1>1, <1>2, PTL DEF Spec

(* The store, the three threads, the process group and the calls under way *)
(* keep to their types.                                                    *)
THEOREM WorkerTyped == Spec => []TypeOK
  <1>1. WorkerInv /\ ControlInv => TypeOK
    BY DEF WorkerInv, ControlInv, Types, Moves, Leasing, Renewing, TypeOK,
           Before, After, Leaving
  <1> QED
    BY <1>1, ControlCorrect, PTL

(* A command that starts after the renewing thread has left is met by the  *)
(* check of the main loop of Worker.execute before any call or sleep.      *)
THEOREM LateStartsAreMet == Spec => []LateStartIsMet
  <1>1. ControlInv => LateStartIsMet
    BY DEF ControlInv
  <1> QED
    BY <1>1, ControlCorrect, PTL

(* No delay, loss or late arrival of a request makes an attempt SUCCEEDED  *)
(* whose command did not end with zero, whose outputs are not recorded, or *)
(* whose process group still runs.                                         *)
THEOREM SuccessesAreEarned == Spec => []SuccessIsEarned
  <1>1. ControlInv => SuccessIsEarned
    BY DEF ControlInv, Completing, Grouped, SuccessIsEarned
  <1> QED
    BY <1>1, ControlCorrect, PTL

(* Worker.execute leaves no process of its group, and Worker.run ends with *)
(* no execution under way.                                                 *)
THEOREM NothingIsLeftBehind == Spec => []NothingLeftBehind
  <1>1. WorkerInv /\ ControlInv => NothingLeftBehind
    BY DEF WorkerInv, ControlInv, Executed, Grouped, NothingLeftBehind
  <1> QED
    BY <1>1, ControlCorrect, PTL

=============================================================================

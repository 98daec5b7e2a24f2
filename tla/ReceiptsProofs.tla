--------------------------- MODULE ReceiptsProofs ---------------------------
(* Proofs about Receipts, for any number of callers, request ids,          *)
(* transmissions and concurrent transactions.                              *)
EXTENDS Receipts, TLAPS

(* What a transaction knows at each statement.  From its insertion on, and *)
(* while the row has no response, it holds the row; so nobody else can     *)
(* give the row a response before it does.                                 *)
Knows(t) ==
  LET i == IdOfTx(t) IN
  /\ tx[t].pc # "idle" => tx[t].call \in Call
  /\ tx[t].pc = "select" /\ receipts[i] = None => rlock[i] = t
  /\ tx[t].pc \in {"fn", "commit"} => receipts[i] = None /\ rlock[i] = t
  /\ tx[t].pc \in {"commit", "replay"} => tx[t].response \in Result
  /\ tx[t].pc = "replay" =>
       receipts[i] = [payload_hash |-> HashOfTx(t), response |-> tx[t].response]

OneEffect ==
  \A i \in Id : IF receipts[i] = None THEN applied[i] = 0 ELSE applied[i] = 1

Answered ==
  \A c \in Call : caller[c].state = "answered" => caller[c].answer \in Result

IInv == /\ TypeOK /\ OneEffect /\ Answered /\ AnswerIsDurable
        /\ \A t \in Tx : Knows(t)

LEMMA InitInv == Init => IInv
  BY ReceiptsAssumption
  DEF Init, IInv, TypeOK, Idle, OneEffect, Answered, AnswerIsDurable, Knows

(* The callers' and the network's steps leave the tables alone.            *)
LEMMA CallerSteps ==
  ASSUME IInv, NEW c \in Call, Send(c) \/ GiveUp(c)
  PROVE  IInv'
  <1>1. TypeOK'
    BY DEF IInv, TypeOK, Send, GiveUp, Message
  <1>2. OneEffect'
    BY DEF IInv, OneEffect, Send, GiveUp
  <1>3. Answered' /\ AnswerIsDurable'
    <2>1. \A d \in Call : /\ caller'[d].answer = caller[d].answer
                          /\ caller'[d].state = "answered" =>
                               caller[d].state = "answered"
      BY DEF IInv, TypeOK, Send, GiveUp
    <2>2. receipts' = receipts
      BY DEF Send, GiveUp
    <2> QED
      BY <2>1, <2>2 DEF IInv, Answered, AnswerIsDurable
  <1>4. \A t \in Tx : Knows(t)'
    BY DEF IInv, Knows, IdOfTx, HashOfTx, Send, GiveUp
  <1> QED
    BY <1>1, <1>2, <1>3, <1>4 DEF IInv

LEMMA LoseStep ==
  ASSUME IInv, NEW m \in net, Lose(m)
  PROVE  IInv'
  BY DEF IInv, TypeOK, OneEffect, Answered, AnswerIsDurable, Knows, IdOfTx,
         HashOfTx, Lose

LEMMA AcceptStep ==
  ASSUME IInv, NEW m \in net, NEW t \in Tx, Accept(t, m)
  PROVE  IInv'
  <1>1. m \in Message
    BY DEF IInv, TypeOK
  <1> DEFINE new == [pc |-> "insert", call |-> m.call, k |-> m.k,
                     response |-> None]
  <1>2. /\ m.call \in Call /\ m.k \in Nat
        /\ tx' = [tx EXCEPT ![t] = new]
    BY <1>1 DEF Accept, Message
  <1>3. TypeOK'
    <2>1. tx' \in [Tx -> [pc : {"idle", "insert", "select", "fn", "commit",
                                "replay"},
                          call : Call \cup {None}, k : Nat,
                          response : Result \cup {None}]]
      BY <1>2 DEF IInv, TypeOK
    <2> QED
      BY <2>1 DEF IInv, TypeOK, Accept
  <1>4. OneEffect' /\ Answered' /\ AnswerIsDurable'
    BY DEF IInv, OneEffect, Answered, AnswerIsDurable, Accept
  <1>5. \A s \in Tx : Knows(s)'
    BY <1>2 DEF IInv, TypeOK, Knows, IdOfTx, HashOfTx, Accept
  <1> QED
    BY <1>3, <1>4, <1>5 DEF IInv

(* One transaction goes on: its call stays, the others are not concerned.  *)
LEMMA MoveTx ==
  ASSUME TypeOK, NEW t \in Tx, NEW p \in {"select", "fn", "commit", "replay"},
         NEW v \in Result \cup {None},
         \/ tx' = [tx EXCEPT ![t].pc = p] /\ v = tx[t].response
         \/ tx' = [tx EXCEPT ![t].pc = p, ![t].response = v]
  PROVE  /\ tx' \in [Tx -> [pc : {"idle", "insert", "select", "fn", "commit",
                                  "replay"},
                            call : Call \cup {None}, k : Nat,
                            response : Result \cup {None}]]
         /\ tx'[t].pc = p /\ tx'[t].call = tx[t].call /\ tx'[t].response = v
         /\ \A s \in Tx \ {t} : tx'[s] = tx[s]
  BY SMTT(40) DEF TypeOK

LEMMA InsertStep ==
  ASSUME IInv, NEW t \in Tx, Insert(t)
  PROVE  IInv'
  <1>0. TypeOK /\ tx[t].call \in Call /\ IdOfTx(t) \in Id
    BY ReceiptsAssumption DEF IInv, Knows, Insert, IdOfTx
  <1>1. /\ tx' \in [Tx -> [pc : {"idle", "insert", "select", "fn", "commit",
                                 "replay"},
                           call : Call \cup {None}, k : Nat,
                           response : Result \cup {None}]]
        /\ tx'[t].pc = "select" /\ tx'[t].call = tx[t].call
        /\ \A s \in Tx \ {t} : tx'[s] = tx[s]
    <2>1. tx' = [tx EXCEPT ![t].pc = "select"] /\ tx[t].response \in Result \cup {None}
      BY <1>0 DEF Insert, TypeOK
    <2> QED
      BY <1>0, <2>1, MoveTx
  <1>2. TypeOK'
    BY <1>0, <1>1 DEF TypeOK, Insert
  <1>3. OneEffect' /\ Answered' /\ AnswerIsDurable'
    BY DEF IInv, OneEffect, Answered, AnswerIsDurable, Insert
  <1>4. ASSUME NEW s \in Tx PROVE Knows(s)'
    <2>1. CASE s = t
      BY <1>0, <1>1, <2>1 DEF TypeOK, Knows, Insert, IdOfTx, HashOfTx
    <2>2. CASE s # t
      <3>1. Knows(s) /\ tx'[s] = tx[s]
        BY <1>1, <2>2 DEF IInv
      <3>2. tx[s].pc # "idle" => IdOfTx(s) \in Id
        BY <3>1, ReceiptsAssumption DEF Knows, IdOfTx
      <3>3. \A i \in Id : rlock[i] = s => rlock'[i] = s
        BY <1>0, <2>2, ReceiptsAssumption DEF TypeOK, Insert
      <3> QED
        BY <3>1, <3>2, <3>3 DEF Knows, Insert, IdOfTx, HashOfTx
    <2> QED
      BY <2>1, <2>2
  <1> QED
    BY <1>2, <1>3, <1>4 DEF IInv

LEMMA SelectStep ==
  ASSUME IInv, NEW t \in Tx, Select(t)
  PROVE  IInv'
  <1> DEFINE i == IdOfTx(t)
  <1>0. TypeOK /\ tx[t].call \in Call /\ i \in Id
    BY ReceiptsAssumption DEF IInv, Knows, Select, IdOfTx
  <1>a. receipts[i] # None => receipts[i] \in Receipt
    BY <1>0 DEF TypeOK
  <1>1. /\ tx' \in [Tx -> [pc : {"idle", "insert", "select", "fn", "commit",
                                 "replay"},
                           call : Call \cup {None}, k : Nat,
                           response : Result \cup {None}]]
        /\ tx'[t].call = tx[t].call
        /\ receipts[i] = None => tx'[t].pc = "fn"
        /\ receipts[i] # None => /\ tx'[t].pc = "replay"
                                 /\ tx'[t].response = receipts[i].response
        /\ \A s \in Tx \ {t} : tx'[s] = tx[s]
    <2>1. CASE receipts[i] = None
      <3>1. tx' = [tx EXCEPT ![t].pc = "fn"] /\ tx[t].response \in Result \cup {None}
        BY <1>0, <2>1 DEF Select, TypeOK
      <3> QED
        BY <1>0, <2>1, <3>1, MoveTx
    <2>2. CASE receipts[i] # None
      <3>1. /\ tx' = [tx EXCEPT ![t].pc = "replay",
                                ![t].response = receipts[i].response]
            /\ receipts[i].response \in Result
        BY <1>a, <2>2 DEF Select, Receipt
      <3> DEFINE v == receipts[i].response
      <3> HIDE DEF v
      <3>2. v \in Result /\ tx' = [tx EXCEPT ![t].pc = "replay", ![t].response = v]
        BY <3>1 DEF v
      <3>3. /\ tx' \in [Tx -> [pc : {"idle", "insert", "select", "fn", "commit",
                                     "replay"},
                               call : Call \cup {None}, k : Nat,
                               response : Result \cup {None}]]
            /\ tx'[t].pc = "replay" /\ tx'[t].call = tx[t].call
            /\ tx'[t].response = v
            /\ \A s \in Tx \ {t} : tx'[s] = tx[s]
        BY <1>0, <3>2, MoveTx
      <3> QED
        BY <2>2, <3>3 DEF v
    <2> QED
      BY <2>1, <2>2
  <1>2. TypeOK'
    BY <1>0, <1>1 DEF TypeOK, Select
  <1>3. OneEffect' /\ Answered' /\ AnswerIsDurable'
    BY DEF IInv, OneEffect, Answered, AnswerIsDurable, Select
  <1>4. ASSUME NEW s \in Tx PROVE Knows(s)'
    <2>1. CASE s = t
      <3>1. IdOfTx(t)' = i /\ HashOfTx(t)' = HashOfTx(t) /\ rlock'[i] = t
        BY <1>0, <1>1 DEF IdOfTx, HashOfTx, Select, TypeOK
      <3>2. receipts[i] # None =>
              receipts[i] = [payload_hash |-> HashOfTx(t),
                             response |-> receipts[i].response]
        BY <1>a DEF Select, Receipt
      <3>3. receipts' = receipts /\ tx'[t].call \in Call
        BY <1>0, <1>1 DEF Select
      <3> HIDE DEF i
      <3>4. CASE receipts[i] = None
        BY <1>1, <2>1, <3>1, <3>3, <3>4 DEF Knows
      <3>5. CASE receipts[i] # None
        <4>1. /\ tx'[t].pc = "replay" /\ tx'[t].response \in Result
              /\ receipts'[i] = [payload_hash |-> HashOfTx(t)',
                                 response |-> tx'[t].response]
          BY <1>1, <1>a, <3>1, <3>2, <3>3, <3>5 DEF Receipt
        <4> QED
          BY <2>1, <3>1, <3>3, <4>1 DEF Knows
      <3> QED
        BY <3>4, <3>5
    <2>2. CASE s # t
      <3>1. Knows(s) /\ tx'[s] = tx[s]
        BY <1>1, <2>2 DEF IInv
      <3>2. tx[s].pc # "idle" => IdOfTx(s) \in Id
        BY <3>1, ReceiptsAssumption DEF Knows, IdOfTx
      <3>3. \A k \in Id : rlock[k] = s => rlock'[k] = s
        BY <1>0, <2>2, ReceiptsAssumption DEF TypeOK, Select
      <3> QED
        BY <3>1, <3>2, <3>3 DEF Knows, Select, IdOfTx, HashOfTx
    <2> QED
      BY <2>1, <2>2
  <1> QED
    BY <1>2, <1>3, <1>4 DEF IInv

LEMMA ApplyStep ==
  ASSUME IInv, NEW t \in Tx, Apply(t)
  PROVE  IInv'
  <1>0. TypeOK /\ Knows(t) /\ tx[t].pc = "fn"
    BY DEF IInv, Apply
  <1>1. PICK v \in Result :
          tx' = [tx EXCEPT ![t].pc = "commit", ![t].response = v]
    BY DEF Apply
  <1>2. /\ tx' \in [Tx -> [pc : {"idle", "insert", "select", "fn", "commit",
                                 "replay"},
                           call : Call \cup {None}, k : Nat,
                           response : Result \cup {None}]]
        /\ tx'[t].pc = "commit" /\ tx'[t].call = tx[t].call
        /\ tx'[t].response = v
        /\ \A s \in Tx \ {t} : tx'[s] = tx[s]
    BY <1>0, <1>1, MoveTx
  <1>3. TypeOK'
    BY <1>0, <1>2 DEF TypeOK, Apply
  <1>4. OneEffect' /\ Answered' /\ AnswerIsDurable'
    BY DEF IInv, OneEffect, Answered, AnswerIsDurable, Apply
  <1>5. ASSUME NEW s \in Tx PROVE Knows(s)'
    <2>1. CASE s = t
      BY <1>0, <1>2, <2>1 DEF Knows, Apply, IdOfTx, HashOfTx
    <2>2. CASE s # t
      BY <1>2, <2>2 DEF IInv, Knows, Apply, IdOfTx, HashOfTx
    <2> QED
      BY <2>1, <2>2
  <1> QED
    BY <1>3, <1>4, <1>5 DEF IInv

(* What the end of a transaction changes in the tables of locks,           *)
(* transactions and callers.                                               *)
LEMMA EndTx ==
  ASSUME TypeOK, NEW t \in Tx, Release(t),
         \/ UNCHANGED caller
         \/ \E st \in {"answered", "raised"}, v \in Result \cup {None} :
              tx[t].call \in Call /\ Deliver(t, st, v)
  PROVE  /\ tx' \in [Tx -> [pc : {"idle", "insert", "select", "fn", "commit",
                                  "replay"},
                            call : Call \cup {None}, k : Nat,
                            response : Result \cup {None}]]
         /\ rlock' \in [Id -> Tx \cup {None}]
         /\ caller' \in [Call -> [state : {"new", "waiting", "answered", "raised"},
                                  sends : Nat, answer : Result \cup {None}]]
         /\ tx'[t].pc = "idle"
         /\ \A s \in Tx \ {t} : tx'[s] = tx[s]
         /\ \A i \in Id, s \in Tx \ {t} : rlock[i] = s => rlock'[i] = s
  <1>1. /\ tx' = [tx EXCEPT ![t] = Idle]
        /\ rlock' = [i \in Id |-> IF rlock[i] = t THEN None ELSE rlock[i]]
    BY DEF Release
  <1>2. Idle \in [pc : {"idle", "insert", "select", "fn", "commit", "replay"},
                  call : Call \cup {None}, k : Nat,
                  response : Result \cup {None}]
        /\ Idle.pc = "idle"
    BY DEF Idle
  <1>3. caller' \in [Call -> [state : {"new", "waiting", "answered", "raised"},
                              sends : Nat, answer : Result \cup {None}]]
    <2>1. ASSUME NEW st \in {"answered", "raised"},
                 NEW v \in Result \cup {None}, NEW c \in Call,
                 caller' = [caller EXCEPT ![c].state = st, ![c].answer = v]
          PROVE  caller' \in [Call ->
                   [state : {"new", "waiting", "answered", "raised"},
                    sends : Nat, answer : Result \cup {None}]]
      <3>1. [caller[c] EXCEPT !.state = st, !.answer = v] \in
              [state : {"new", "waiting", "answered", "raised"},
               sends : Nat, answer : Result \cup {None}]
        <4>1. caller[c] \in [state : {"new", "waiting", "answered", "raised"},
                             sends : Nat, answer : Result \cup {None}]
          BY DEF TypeOK
        <4> QED
          BY <2>1, <4>1
      <3>2. caller' = [caller EXCEPT ![c] =
                         [caller[c] EXCEPT !.state = st, !.answer = v]]
        BY <2>1 DEF TypeOK
      <3> QED
        BY <3>1, <3>2 DEF TypeOK
    <2> QED
      BY <2>1 DEF TypeOK, Deliver
  <1> HIDE DEF Idle
  <1> QED
    BY <1>1, <1>2, <1>3 DEF TypeOK

(* Only the caller of the transaction hears of its end.                    *)
LEMMA Told ==
  ASSUME TypeOK, NEW t \in Tx, tx[t].call \in Call,
         NEW st \in {"answered", "raised"}, NEW v \in Result,
         Deliver(t, st, v)
  PROVE  \A c \in Call : \/ caller'[c] = caller[c]
                         \/ c = tx[t].call /\ caller'[c].answer = v
  <1> DEFINE c0 == tx[t].call
  <1>1. ASSUME caller' = [caller EXCEPT ![c0].state = st, ![c0].answer = v],
               c0 \in Call, NEW c \in Call
        PROVE  caller'[c] = caller[c] \/ (c = c0 /\ caller'[c].answer = v)
    <2> HIDE DEF c0
    <2>1. caller[c] \in [state : {"new", "waiting", "answered", "raised"},
                         sends : Nat, answer : Result \cup {None}]
      BY DEF TypeOK
    <2>2. c # c0 => caller'[c] = caller[c]
      BY <1>1 DEF TypeOK
    <2>3. c = c0 => caller'[c].answer = v
      BY <1>1, <2>1 DEF TypeOK
    <2> QED
      BY <2>2, <2>3
  <1> QED
    BY <1>1 DEF Deliver

LEMMA RollbackStep ==
  ASSUME IInv, NEW t \in Tx, Rollback(t)
  PROVE  IInv'
  <1>1. TypeOK'
    BY EndTx DEF IInv, TypeOK, Rollback
  <1>2. OneEffect' /\ Answered' /\ AnswerIsDurable'
    BY DEF IInv, OneEffect, Answered, AnswerIsDurable, Rollback
  <1>3. ASSUME NEW s \in Tx PROVE Knows(s)'
    <2>1. CASE s = t
      BY <2>1, EndTx DEF IInv, Rollback, Knows
    <2>2. CASE s # t
      <3>1. Knows(s) /\ tx'[s] = tx[s]
        BY <2>2, EndTx DEF IInv, Rollback
      <3>2. tx[s].pc # "idle" => IdOfTx(s) \in Id
        BY <3>1, ReceiptsAssumption DEF Knows, IdOfTx
      <3>3. \A i \in Id : rlock[i] = s => rlock'[i] = s
        BY <2>2, EndTx DEF IInv, Rollback
      <3> QED
        BY <3>1, <3>2, <3>3 DEF Knows, Rollback, IdOfTx, HashOfTx
    <2> QED
      BY <2>1, <2>2
  <1> QED
    BY <1>1, <1>2, <1>3 DEF IInv

(* Nothing is written, and the caller may be told of an error.             *)
LEMMA RefuseStep ==
  ASSUME IInv, NEW t \in Tx, Refuse(t)
  PROVE  IInv'
  <1>0. TypeOK /\ Knows(t) /\ tx[t].call \in Call
    BY DEF IInv, Refuse, Knows
  <1>1. /\ Release(t) /\ Deliver(t, "raised", None)
        /\ UNCHANGED <<receipts, applied, net>>
    BY DEF Refuse
  <1>2. TypeOK'
    BY <1>0, <1>1, EndTx DEF TypeOK
  <1>3. OneEffect'
    BY <1>1 DEF IInv, OneEffect
  <1>4. ASSUME NEW c \in Call, caller'[c].state = "answered"
        PROVE  caller'[c] = caller[c]
    BY <1>0, <1>1, <1>4 DEF Deliver, TypeOK
  <1>5. Answered' /\ AnswerIsDurable'
    BY <1>1, <1>4 DEF IInv, Answered, AnswerIsDurable
  <1>6. ASSUME NEW s \in Tx PROVE Knows(s)'
    <2>1. CASE s = t
      BY <1>0, <1>1, <2>1, EndTx DEF Knows
    <2>2. CASE s # t
      <3>1. Knows(s) /\ tx'[s] = tx[s]
        BY <1>0, <1>1, <2>2, EndTx DEF IInv
      <3>2. tx[s].pc # "idle" => IdOfTx(s) \in Id
        BY <3>1, ReceiptsAssumption DEF Knows, IdOfTx
      <3>3. \A i \in Id : rlock[i] = s => rlock'[i] = s
        BY <1>0, <1>1, <2>2, EndTx
      <3> QED
        BY <1>1, <3>1, <3>2, <3>3 DEF Knows, IdOfTx, HashOfTx
    <2> QED
      BY <2>1, <2>2
  <1> QED
    BY <1>2, <1>3, <1>5, <1>6 DEF IInv

(* The caller is told what the receipt says.                               *)
LEMMA ReplayStep ==
  ASSUME IInv, NEW t \in Tx, Replay(t)
  PROVE  IInv'
  <1> DEFINE c0 == tx[t].call
             v == tx[t].response
  <1>0. /\ TypeOK /\ Knows(t) /\ c0 \in Call /\ v \in Result
        /\ receipts[IdOf[c0]] = [payload_hash |-> PayloadOf[c0], response |-> v]
    BY DEF IInv, Replay, Knows, IdOfTx, HashOfTx
  <1>1. /\ Release(t) /\ Deliver(t, "answered", v)
        /\ UNCHANGED <<receipts, applied, net>>
    BY DEF Replay
  <1>2. TypeOK'
    BY <1>0, <1>1, EndTx DEF TypeOK
  <1>3. OneEffect'
    BY <1>1 DEF IInv, OneEffect
  <1>4. \A c \in Call : caller'[c] = caller[c] \/ (c = c0 /\ caller'[c].answer = v)
    BY <1>0, <1>1, Told
  <1> HIDE DEF c0, v
  <1>5. Answered' /\ AnswerIsDurable'
    BY <1>0, <1>1, <1>4 DEF IInv, Answered, AnswerIsDurable
  <1>6. ASSUME NEW s \in Tx PROVE Knows(s)'
    <2>1. /\ tx'[t].pc = "idle"
          /\ \A q \in Tx \ {t} : tx'[q] = tx[q]
          /\ \A i \in Id, q \in Tx \ {t} : rlock[i] = q => rlock'[i] = q
      BY <1>0, <1>1, EndTx DEF c0, v
    <2>2. CASE s = t
      BY <2>1, <2>2 DEF Knows
    <2>3. CASE s # t
      <3>1. Knows(s) /\ tx'[s] = tx[s]
        BY <2>1, <2>3 DEF IInv
      <3>2. tx[s].pc # "idle" => IdOfTx(s) \in Id
        BY <3>1, ReceiptsAssumption DEF Knows, IdOfTx
      <3> QED
        BY <1>1, <2>1, <2>3, <3>1, <3>2 DEF Knows, IdOfTx, HashOfTx
    <2> QED
      BY <2>2, <2>3
  <1> QED
    BY <1>2, <1>3, <1>5, <1>6 DEF IInv

(* Only here does a receipt appear.  The transaction holds the row, so no  *)
(* other one is past its insertion, and nobody has been answered yet.      *)
LEMMA CommitStep ==
  ASSUME IInv, NEW t \in Tx, Commit(t)
  PROVE  IInv'
  <1> DEFINE c0 == tx[t].call
             v == tx[t].response
             i0 == IdOf[c0]
             new == [payload_hash |-> PayloadOf[c0], response |-> v]
  <1>0. /\ TypeOK /\ Knows(t) /\ c0 \in Call /\ v \in Result /\ i0 \in Id
        /\ receipts[i0] = None /\ rlock[i0] = t
        /\ new \in Receipt /\ new # None
    BY ReceiptsAssumption DEF IInv, Commit, Knows, IdOfTx, Receipt
  <1>1. /\ Release(t) /\ Deliver(t, "answered", v) /\ net' = net
        /\ receipts' = [receipts EXCEPT ![i0] = new]
        /\ applied' = [applied EXCEPT ![i0] = applied[i0] + 1]
    BY DEF Commit, IdOfTx, HashOfTx
  <1>a. /\ tx' \in [Tx -> [pc : {"idle", "insert", "select", "fn", "commit",
                                 "replay"},
                           call : Call \cup {None}, k : Nat,
                           response : Result \cup {None}]]
        /\ rlock' \in [Id -> Tx \cup {None}]
        /\ caller' \in [Call -> [state : {"new", "waiting", "answered", "raised"},
                                 sends : Nat, answer : Result \cup {None}]]
        /\ tx'[t].pc = "idle"
        /\ \A q \in Tx \ {t} : tx'[q] = tx[q]
        /\ \A i \in Id, q \in Tx \ {t} : rlock[i] = q => rlock'[i] = q
    BY <1>0, <1>1, EndTx
  <1>4. \A c \in Call : caller'[c] = caller[c] \/ (c = c0 /\ caller'[c].answer = v)
    BY <1>0, <1>1, Told
  <1>b. new.payload_hash = PayloadOf[c0] /\ new.response = v
    OBVIOUS
  <1> HIDE DEF new, c0, v, i0
  <1>2. TypeOK'
    <2>1. receipts' \in [Id -> Receipt \cup {None}]
      BY <1>0, <1>1 DEF TypeOK
    <2>2. applied' \in [Id -> Nat] /\ net' \subseteq Message
      BY <1>0, <1>1 DEF TypeOK
    <2> QED
      BY <1>a, <2>1, <2>2 DEF TypeOK
  <1>3. OneEffect'
    BY <1>0, <1>1 DEF IInv, OneEffect, TypeOK
  <1>5. Answered'
    BY <1>0, <1>4 DEF IInv, Answered
  <1>6. AnswerIsDurable'
    <2> SUFFICES ASSUME NEW c \in Call, caller'[c].state = "answered"
                 PROVE  receipts'[IdOf[c]] = [payload_hash |-> PayloadOf[c],
                                              response |-> caller'[c].answer]
      BY DEF AnswerIsDurable
    <2>1. CASE c = c0 /\ caller'[c].answer = v
      BY <1>0, <1>1, <2>1 DEF new, i0, TypeOK
    <2>2. CASE caller'[c] = caller[c]
      <3>1. /\ receipts[IdOf[c]] = [payload_hash |-> PayloadOf[c],
                                    response |-> caller[c].answer]
            /\ caller[c].answer \in Result
        BY <2>2 DEF IInv, AnswerIsDurable, Answered
      <3>2. receipts[IdOf[c]] \in Receipt
        BY <3>1, ReceiptsAssumption DEF Receipt
      <3>3. IdOf[c] # i0
        BY <1>0, <3>2, ReceiptsAssumption
      <3> QED
        BY <1>0, <1>1, <2>2, <3>1, <3>3, ReceiptsAssumption DEF TypeOK
    <2> QED
      BY <1>4, <2>1, <2>2
  <1>7. ASSUME NEW s \in Tx PROVE Knows(s)'
    <2>1. CASE s = t
      BY <1>a, <2>1 DEF Knows
    <2>2. CASE s # t
      <3>1. Knows(s) /\ tx'[s] = tx[s]
        BY <1>a, <2>2 DEF IInv
      <3>2. tx[s].pc # "idle" => IdOfTx(s) \in Id
        BY <3>1, ReceiptsAssumption DEF Knows, IdOfTx
      <3>3. \A i \in Id : i # i0 => receipts'[i] = receipts[i]
        BY <1>0, <1>1 DEF TypeOK
      <3>4. receipts'[i0] # None
        BY <1>0, <1>1 DEF TypeOK
      <3>5. CASE IdOfTx(s) = i0
        <4>1. tx[s].pc \notin {"fn", "commit"}
          BY <1>0, <2>2, <3>1, <3>5 DEF Knows
        <4>2. tx[s].pc # "replay"
          <5>1. SUFFICES ASSUME tx[s].pc = "replay" PROVE FALSE
            OBVIOUS
          <5>2. [payload_hash |-> HashOfTx(s), response |-> tx[s].response]
                  \in Receipt
            BY <3>1, <5>1, ReceiptsAssumption DEF Knows, HashOfTx, Receipt
          <5> QED
            BY <1>0, <3>1, <3>5, <5>1, <5>2, ReceiptsAssumption DEF Knows
        <4> QED
          BY <3>1, <3>4, <3>5, <4>1, <4>2 DEF Knows, IdOfTx, HashOfTx
      <3>6. CASE IdOfTx(s) # i0
        BY <1>a, <2>2, <3>1, <3>2, <3>3, <3>6, SMTT(40)
        DEF Knows, IdOfTx, HashOfTx
      <3> QED
        BY <3>5, <3>6
    <2> QED
      BY <2>1, <2>2
  <1> QED
    BY <1>2, <1>3, <1>5, <1>6, <1>7 DEF IInv

LEMMA Inductive == Spec => []IInv
  <1>1. IInv /\ [Next]_vars => IInv'
    <2> SUFFICES ASSUME IInv, [Next]_vars PROVE IInv'
      OBVIOUS
    <2>1. CASE UNCHANGED vars
      BY <2>1 DEF vars, IInv, TypeOK, OneEffect, Answered, AnswerIsDurable,
                  Knows, IdOfTx, HashOfTx
    <2> QED
      BY <2>1, CallerSteps, LoseStep, AcceptStep, InsertStep, SelectStep,
         ApplyStep, CommitStep, ReplayStep, RefuseStep, RollbackStep DEF Next
  <1> QED
    BY <1>1, InitInv, PTL DEF Spec

(* The state keeps its types: receipts, transactions and callers never     *)
(* hold anything the code could not have stored.                           *)
THEOREM TypeCorrect == Spec => []TypeOK
  <1>1. IInv => TypeOK
    BY DEF IInv
  <1> QED
    BY <1>1, Inductive, PTL

(* The effect of a request is committed at most once.                      *)
THEOREM AtMostOnceCorrect == Spec => []AtMostOnce
  <1>1. IInv => AtMostOnce
    BY DEF IInv, TypeOK, OneEffect, AtMostOnce
  <1> QED
    BY <1>1, Inductive, PTL

(* Every answer a caller got is the durable receipt for its payload.       *)
THEOREM AnswerIsDurableCorrect == Spec => []AnswerIsDurable
  <1>1. IInv => AnswerIsDurable
    BY DEF IInv
  <1> QED
    BY <1>1, Inductive, PTL

(* Receipt and effect are durable together or not at all.                  *)
THEOREM ReceiptIffEffectCorrect == Spec => []ReceiptIffEffect
  <1>1. IInv => ReceiptIffEffect
    BY DEF IInv, OneEffect, ReceiptIffEffect
  <1> QED
    BY <1>1, Inductive, PTL
=============================================================================

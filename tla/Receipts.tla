------------------------------ MODULE Receipts ------------------------------
(***************************************************************************)
(* Durable request receipts: Store.Mutate (internal/store/store.go) and    *)
(* the caller that retries through it (worker/python/rungrid_worker/       *)
(* rpc.py).  A call may be sent several times under one request id;        *)
(* messages and answers get lost or arrive late, copies of a request run   *)
(* side by side, and a transaction may end without commit at any point.    *)
(*                                                                         *)
(* What the operation itself does is left open: it is refused, or it has   *)
(* some effect and some result.                                            *)
(***************************************************************************)
EXTENDS Naturals

CONSTANTS
  Call,        \* calls of RPC.call, each with its own retries
  Id,          \* pairs of scope and request id
  Payload,     \* payload hashes
  IdOf, PayloadOf,
  Result,      \* what an operation may return
  Tx,          \* transactions of the servers
  None,
  MaxSends     \* transmissions of one call before its time is over

Receipt == [payload_hash : Payload, response : Result]

ASSUME ReceiptsAssumption ==
  /\ IdOf \in [Call -> Id] /\ PayloadOf \in [Call -> Payload]
  /\ None \notin Result \cup Tx \cup Call \cup Receipt
  /\ MaxSends \in Nat

VARIABLES
  receipts,   \* receipts[i]: committed payload_hash and response, or None
  applied,    \* applied[i]: committed effects of request i
  rlock,      \* rlock[i]: who is inserting or has locked the row of i
  tx,         \* tx[t]: next statement, message being served, response
  net,        \* requests on their way: call and number of transmission
  caller      \* caller[c]: state, transmissions so far, answer

vars == <<receipts, applied, rlock, tx, net, caller>>

Message == [call : Call, k : Nat]
Idle == [pc |-> "idle", call |-> None, k |-> 0, response |-> None]

TypeOK ==
  /\ receipts \in [Id -> Receipt \cup {None}]
  /\ applied \in [Id -> Nat]
  /\ rlock \in [Id -> Tx \cup {None}]
  /\ tx \in [Tx -> [pc : {"idle", "insert", "select", "fn", "commit",
                          "replay"},
                    call : Call \cup {None}, k : Nat,
                    response : Result \cup {None}]]
  /\ net \subseteq Message
  /\ caller \in [Call -> [state : {"new", "waiting", "answered", "raised"},
                          sends : Nat, answer : Result \cup {None}]]

Init ==
  /\ receipts = [i \in Id |-> None]
  /\ applied = [i \in Id |-> 0]
  /\ rlock = [i \in Id |-> None]
  /\ tx = [t \in Tx |-> Idle]
  /\ net = {}
  /\ caller = [c \in Call |-> [state |-> "new", sends |-> 0, answer |-> None]]

-----------------------------------------------------------------------------
(* The caller.                                                             *)

(* The first transmission, or the next one after UNAVAILABLE or            *)
(* DEADLINE_EXCEEDED; the previous one may still be on its way.            *)
Send(c) ==
  /\ caller[c].state \in {"new", "waiting"} /\ caller[c].sends < MaxSends
  /\ caller' = [caller EXCEPT ![c].state = "waiting", ![c].sends = @ + 1]
  /\ net' = net \cup {[call |-> c, k |-> caller[c].sends + 1]}
  /\ UNCHANGED <<receipts, applied, rlock, tx>>

(* The time of the call is over.                                           *)
GiveUp(c) ==
  /\ caller[c].state = "waiting"
  /\ caller' = [caller EXCEPT ![c].state = "raised"]
  /\ UNCHANGED <<receipts, applied, rlock, tx, net>>

Lose(m) ==
  /\ net' = net \ {m}
  /\ UNCHANGED <<receipts, applied, rlock, tx, caller>>

-----------------------------------------------------------------------------
(* The server.                                                             *)

IdOfTx(t) == IdOf[tx[t].call]
HashOfTx(t) == PayloadOf[tx[t].call]

Accept(t, m) ==
  /\ tx[t] = Idle
  /\ net' = net \ {m}
  /\ tx' = [tx EXCEPT ![t] = [pc |-> "insert", call |-> m.call, k |-> m.k,
                              response |-> None]]
  /\ UNCHANGED <<receipts, applied, rlock, caller>>

(* Mutant: a duplicate does not wait for the one that is being inserted.   *)
InsertBlindly(t) ==
  /\ tx[t].pc = "insert"
  /\ rlock' = [rlock EXCEPT ![IdOfTx(t)] = t]
  /\ tx' = [tx EXCEPT ![t].pc = "select"]
  /\ UNCHANGED <<receipts, applied, net, caller>>

(* INSERT ... ON CONFLICT DO NOTHING: waits for a concurrent insertion of  *)
(* the same key, inserts if there is no row then, else does nothing.       *)
Insert(t) ==
  LET i == IdOfTx(t) IN
  /\ tx[t].pc = "insert"
  /\ \/ receipts[i] = None /\ rlock[i] = None
        /\ rlock' = [rlock EXCEPT ![i] = t]
     \/ receipts[i] # None /\ UNCHANGED rlock
  /\ tx' = [tx EXCEPT ![t].pc = "select"]
  /\ UNCHANGED <<receipts, applied, net, caller>>

(* Mutant: a response is replayed whatever was asked.                      *)
SelectAnswersAny(t) ==
  LET i == IdOfTx(t) IN
  /\ tx[t].pc = "select" /\ rlock[i] \in {None, t}
  /\ rlock' = [rlock EXCEPT ![i] = t]
  /\ tx' = IF receipts[i] = None THEN [tx EXCEPT ![t].pc = "fn"]
           ELSE [tx EXCEPT ![t].pc = "replay",
                           ![t].response = receipts[i].response]
  /\ UNCHANGED <<receipts, applied, net, caller>>

(* SELECT ... FOR UPDATE.  A row with the caller's hash and a response     *)
(* answers the call; one without response is the caller's own insertion.   *)
Select(t) ==
  LET i == IdOfTx(t) IN
  /\ tx[t].pc = "select" /\ rlock[i] \in {None, t}
  /\ receipts[i] # None => receipts[i].payload_hash = HashOfTx(t)
  /\ rlock' = [rlock EXCEPT ![i] = t]
  /\ tx' = IF receipts[i] = None THEN [tx EXCEPT ![t].pc = "fn"]
           ELSE [tx EXCEPT ![t].pc = "replay",
                           ![t].response = receipts[i].response]
  /\ UNCHANGED <<receipts, applied, net, caller>>

(* Mutant: an operation may return no result, to be stored as null.        *)
ApplyNull(t) ==
  /\ tx[t].pc = "fn"
  /\ tx' = [tx EXCEPT ![t].pc = "commit", ![t].response = None]
  /\ UNCHANGED <<receipts, applied, rlock, net, caller>>

(* The operation succeeds with some result.                                *)
Apply(t) ==
  /\ tx[t].pc = "fn"
  /\ \E v \in Result : tx' = [tx EXCEPT ![t].pc = "commit", ![t].response = v]
  /\ UNCHANGED <<receipts, applied, rlock, net, caller>>

Release(t) ==
  /\ rlock' = [i \in Id |-> IF rlock[i] = t THEN None ELSE rlock[i]]
  /\ tx' = [tx EXCEPT ![t] = Idle]

(* An answer reaches the caller if it still waits for this transmission.   *)
Waiting(t) ==
  /\ caller[tx[t].call].state = "waiting"
  /\ caller[tx[t].call].sends = tx[t].k

Deliver(t, state, answer) ==
  \/ UNCHANGED caller
  \/ /\ Waiting(t)
     /\ caller' = [caller EXCEPT ![tx[t].call].state = state,
                                 ![tx[t].call].answer = answer]

(* Mutant: the effect is committed without its receipt.                    *)
CommitEffectOnly(t) ==
  /\ tx[t].pc = "commit"
  /\ applied' = [applied EXCEPT ![IdOfTx(t)] = @ + 1]
  /\ Release(t) /\ Deliver(t, "answered", tx[t].response)
  /\ UNCHANGED <<receipts, net>>

(* UPDATE requests SET response, and the commit: effect and receipt become *)
(* durable together.                                                       *)
Commit(t) ==
  /\ tx[t].pc = "commit"
  /\ receipts' = [receipts EXCEPT ![IdOfTx(t)] =
       [payload_hash |-> HashOfTx(t), response |-> tx[t].response]]
  /\ applied' = [applied EXCEPT ![IdOfTx(t)] = @ + 1]
  /\ Release(t) /\ Deliver(t, "answered", tx[t].response)
  /\ UNCHANGED net

Replay(t) ==
  /\ tx[t].pc = "replay"
  /\ Release(t) /\ Deliver(t, "answered", tx[t].response)
  /\ UNCHANGED <<receipts, applied, net>>

(* The hash differs, or the operation is refused: no receipt is kept.      *)
Refuse(t) ==
  LET i == IdOfTx(t) IN
  /\ \/ /\ tx[t].pc = "select" /\ rlock[i] \in {None, t}
        /\ receipts[i] # None /\ receipts[i].payload_hash # HashOfTx(t)
     \/ tx[t].pc = "fn"
  /\ Release(t) /\ Deliver(t, "raised", None)
  /\ UNCHANGED <<receipts, applied, net>>

(* The context is cancelled, the connection or the server goes away.       *)
Rollback(t) ==
  /\ tx[t].pc # "idle"
  /\ Release(t)
  /\ UNCHANGED <<receipts, applied, net, caller>>

Next ==
  \/ \E c \in Call : Send(c) \/ GiveUp(c)
  \/ \E m \in net : Lose(m) \/ \E t \in Tx : Accept(t, m)
  \/ \E t \in Tx : \/ Insert(t) \/ Select(t) \/ Apply(t) \/ Commit(t) \/ Replay(t)
                   \/ Refuse(t) \/ Rollback(t)

Spec == Init /\ [][Next]_vars

-----------------------------------------------------------------------------
(* Properties.                                                             *)

(* However often a request is sent, and however many copies of it run at   *)
(* the same time, its effect is committed at most once.                    *)
AtMostOnce == \A i \in Id : applied[i] <= 1

(* Whoever got an answer got the durable one: it was sent in reply to this *)
(* very payload, it survives every crash, and all callers of one request   *)
(* id were told the same.                                                  *)
AnswerIsDurable ==
  \A c \in Call : caller[c].state = "answered" =>
    receipts[IdOf[c]] = [payload_hash |-> PayloadOf[c],
                         response |-> caller[c].answer]

(* A request has a receipt exactly when its effect is durable, so that a   *)
(* retry after a crash neither repeats the effect nor acknowledges one     *)
(* that was lost.                                                          *)
ReceiptIffEffect == \A i \in Id : receipts[i] # None <=> applied[i] > 0
=============================================================================

---------------------------- MODULE MCJobStore ----------------------------
(* Small instances of JobStore for TLC.                                   *)
EXTENDS JobStore, TLC

CONSTANTS j1, j2, w1, w2

(* Two jobs that do not fit on a worker together, and a second resource   *)
(* only j2 needs and only w1 has.                                         *)
MCNeed == [j \in Job |-> IF j = j1 THEN [cpu |-> 1, gpu |-> 0]
                                    ELSE [cpu |-> 2, gpu |-> 1]]
MCCapacity == [w \in Worker |-> [cpu |-> 2, gpu |-> IF w = w1 THEN 1 ELSE 0]]

MCMaxAttempts == [j \in Job |-> IF j = j1 THEN 2 ELSE 1]
MCTimeout == [j \in Job |-> 2]

(* One timeout longer than the lease and one shorter.                     *)
MixedTimeout == [j \in Job |-> IF j = j1 THEN 3 ELSE 1]

Checkpoint(k) == [object_key |-> k, checksum |-> "c", kind |-> "checkpoint"]
Output(k) == [object_key |-> k, checksum |-> "c", kind |-> "output"]

NoUpload == {<<>>}

(* Reports with nothing, a checkpoint and an output, another checkpoint,  *)
(* and the first object with other contents.                              *)
Reports ==
  LET a == Checkpoint("a") IN
  {<<>>, <<a, Output("d")>>, <<Checkpoint("b")>>,
   <<[a EXCEPT !.checksum = "e"]>>}

SessionSymmetry == Permutations(Session)
=============================================================================

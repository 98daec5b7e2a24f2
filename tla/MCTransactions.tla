--------------------------- MODULE MCTransactions ---------------------------
(* Small instances of Transactions for TLC.                                *)
EXTENDS Transactions, TLC

CONSTANTS w1, w2

(* Each job fits on a worker alone, both together do not.                  *)
MCNeed == [j \in Job |-> 1]
MCCapacity == [w \in Worker |-> 1]
MCMaxAttempts == [j \in Job |-> 1]
TwoAttempts == [j \in Job |-> 2]
MCTimeout == [j \in Job |-> IF j = 1 THEN 2 ELSE 1]

ShortTimeout == [j \in Job |-> 1]

Symmetry == Permutations(Tx) \cup Permutations(Worker)
=============================================================================

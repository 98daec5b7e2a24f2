----------------------------- MODULE MCReceipts -----------------------------
(* Small instances of Receipts for TLC.                                    *)
EXTENDS Receipts, TLC

CONSTANTS c1, c2, c3, i1

(* c1 and c2 are one request; c3 reuses its id for something else.         *)
MCIdOf == [c \in Call |-> i1]
MCPayloadOf == [c \in Call |-> IF c = c3 THEN "q" ELSE "p"]

TxSymmetry == Permutations(Tx)
=============================================================================

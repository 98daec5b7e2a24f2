--------------------------- MODULE MCCheckpoints ---------------------------
(* Model values for Checkpoints.  Nothing tells one content of the data    *)
(* file from another but their being different.                            *)
EXTENDS Checkpoints, TLC

DataSymmetry == Permutations(Data)
=============================================================================

---------------------------- MODULE MCSubmission ----------------------------
(* Batches for Submission: crossed, repeated, overlapping, with the same   *)
(* key twice, with another definition for a key, empty and too long.       *)
EXTENDS Submission

CONSTANTS v, w

J(k, d) == [key |-> k, def |-> d]

MCBatches ==
  { <<>>, <<J(1, v), J(2, v), J(3, v), J(4, v)>>,
    <<J(1, v), J(2, v)>>, <<J(2, v), J(1, v)>>, <<J(3, v), J(1, v)>>,
    <<J(2, v), J(3, v), J(2, v)>>, <<J(3, v), J(3, w)>>, <<J(4, w), J(2, w)>> }

MCHash == <<1, 2, 2, 3>>
=============================================================================

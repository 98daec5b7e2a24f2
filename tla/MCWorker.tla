------------------------------ MODULE MCWorker ------------------------------
(* Model values for Worker.                                                *)
EXTENDS Worker
=============================================================================

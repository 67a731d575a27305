----------------------------- MODULE MCFilumPool -----------------------------
(* Three workers and two callers, three jobs: both callers can be inside   *)
(* pool_wait, or one waits while the other submits, and jobs can submit.   *)
EXTENDS FilumPool
=============================================================================

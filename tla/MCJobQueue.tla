----------------------------- MODULE MCJobQueue -----------------------------
(* Small instances of the job queue for TLC. *)
EXTENDS JobQueue

CONSTANTS j1, j2, w1, w2, local

MCDeviceOf == [w \in Workers |-> local]
MCMaxRunning == [w \in Workers |-> IF w = w1 THEN 1 ELSE 2]
=============================================================================

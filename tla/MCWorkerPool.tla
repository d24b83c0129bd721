---------------------------- MODULE MCWorkerPool ----------------------------
(* Instances of WorkerPool for TLC.                                          *)
EXTENDS WorkerPool

MCThreads == Users \union Control
=============================================================================

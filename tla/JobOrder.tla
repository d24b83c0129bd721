------------------------------ MODULE JobOrder ------------------------------
(* The order in which queued jobs are served: jobTypeScore and Less of       *)
(* pkg/engine/queue.go.                                                      *)
(*                                                                           *)
(* A job is a record [id, type, prio, created, run]: PriorityScore is prio,  *)
(* CreatedAt is created (0 is the zero time: Submit's plain jobs carry none) *)
(* and RunID is run; id stands for the rest (path, method, headers).         *)
EXTENDS Naturals

(* JobType; "" is a wordlist job, any other action name scores 0.            *)
JobType == {"validation", "paramfuzz", "discovery", "fuzz", "", "other"}

jobTypeScore(t) ==
    CASE t = "validation"    -> 40
      [] t = "paramfuzz"     -> 30
      [] t = "discovery"     -> 20
      [] t \in {"fuzz", ""}  -> 10
      [] OTHER               -> 0

(* The part of Less that no tie-break can override.                          *)
Outranks(a, b) ==
    \/ jobTypeScore(a.type) > jobTypeScore(b.type)
    \/ /\ jobTypeScore(a.type) = jobTypeScore(b.type)
       /\ a.prio > b.prio

(* Less(i, j): by type, then PriorityScore, then CreatedAt when both jobs    *)
(* have one, and by RunID otherwise.                                         *)
Less(a, b) ==
    \/ Outranks(a, b)
    \/ /\ ~Outranks(b, a)
       /\ IF a.created # 0 /\ b.created # 0
          THEN a.created < b.created
          ELSE a.run < b.run
=============================================================================

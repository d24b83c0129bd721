----------------------------- MODULE MCJobQueue -----------------------------
(* Instances of JobQueue for TLC: jobs of two ranks, so that Pop has both a  *)
(* forced and a free choice.                                                 *)
EXTENDS JobQueue, TLC

MCJob == {[id |-> 1, type |-> "validation", prio |-> 0],
          [id |-> 2, type |-> "", prio |-> 0],
          [id |-> 3, type |-> "fuzz", prio |-> 0]}

(* Enough to block two producers on a full queue of two.                     *)
MCFourJobs == MCJob \union {[id |-> 4, type |-> "fuzz", prio |-> 0]}

MCSymmetry == Permutations(Producers) \union Permutations(Consumers)
=============================================================================

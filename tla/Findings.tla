------------------------------- MODULE Findings -------------------------------
(* What a scan claims about a path beyond its answer: hidden parameters, a     *)
(* difference between roles, a delay.  The three searches share no state.      *)
EXTENDS ParamDiscovery, AuthMatrix, TimingOracle

(* A claim is true of the page whatever order answers come in, whichever       *)
(* requests fail and whichever one is slow, and none is missed for company,    *)
(* for another role's failure or for one sample (FuzzParams,                   *)
(* evaluateAuthMatrixResponses, IsAnomaly).                                    *)
FindingsTrue == ParamsSound /\ MatrixSound /\ TimingSound
=============================================================================

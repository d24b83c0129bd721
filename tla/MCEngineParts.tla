---------------------------- MODULE MCEngineParts ----------------------------
(* Parts of the engine beside the queue for TLC: the hidden-parameter pool,  *)
(* the discovery graph with its harvesters, the resume files, the path of a  *)
(* result to the output file and the screen, the order of the queue's heap,  *)
(* and the limiter round a tool that starts an engine.  They share no state; *)
(* a behaviour moves one of them.                                            *)
EXTENDS ParamPool, Resume, ResultPipeline, DiscoveryGraph, PriorityHeap, McpGate, TLC

VARIABLE part

MCOwn == {{"q"}}
MCExists == ("t1" :> {"p"}) @@ ("t2" :> {"q"})
MCResponses == {[status |-> s, interesting |-> FALSE, variant |-> 0] : s \in {403, 404}}
-----------------------------------------------------------------------------
(* As in the engine, wordlist and harvest jobs are undated with PriorityScore *)
(* 0, and the jobs of graph actions are dated with a positive PriorityScore.  *)
Plain(id, type) == [id |-> id, type |-> type, prio |-> 0, created |-> 0, run |-> 1]
Action(id, type, prio) == [id |-> id, type |-> type, prio |-> prio, created |-> id, run |-> 1]
MCJobs ==
    {Plain(1, ""), Plain(2, "fuzz"), Plain(3, "discovery"), Action(4, "validation", 85),
     Action(5, "validation", 85), Action(6, "validation", 90), Action(7, "paramfuzz", 50),
     Plain(8, "other")}

Init ==
    /\ part \in {"pool", "graph", "resume", "pipe", "heap", "gate"}
    /\ PoolInit /\ GraphInit /\ ResumeInit
    /\ PipeInit /\ (part = "pipe" \/ tuiMode = TRUE)
    /\ HeapInit /\ GateInit

Next ==
    \/ part = "pool" /\ PoolNext
       /\ UNCHANGED <<part, graphVars, resumeVars, pipeVars, heapVars, gateVars>>
    \/ part = "graph" /\ GraphNext
       /\ UNCHANGED <<part, poolVars, resumeVars, pipeVars, heapVars, gateVars>>
    \/ part = "resume" /\ ResumeNext
       /\ UNCHANGED <<part, poolVars, graphVars, pipeVars, heapVars, gateVars>>
    \/ part = "pipe" /\ PipeNext
       /\ UNCHANGED <<part, poolVars, graphVars, resumeVars, heapVars, gateVars>>
    \/ part = "heap" /\ HeapNext
       /\ UNCHANGED <<part, poolVars, graphVars, resumeVars, pipeVars, gateVars>>
    \/ part = "gate" /\ GateNext
       /\ UNCHANGED <<part, poolVars, graphVars, resumeVars, pipeVars, heapVars>>

(* Goroutines that can go on do.                                             *)
Spec ==
    /\ Init /\ [][Next]_<<part, poolVars, graphVars, resumeVars, pipeVars, heapVars, gateVars>>
    /\ \A w \in Reporters :
          WF_poolVars(part = "pool" /\ (rememberPHPParamTarget(w) \/ Enqueue(w)))
    /\ \A f \in Fuzzers : WF_poolVars(part = "pool" /\ (Enqueue(f) \/ Fuzzer(f)))
    /\ WF_poolVars(part = "pool" /\ Waits)
    /\ WF_pipeVars(part = "pipe" /\ Reader) /\ WF_pipeVars(part = "pipe" /\ Stopper)
    /\ \A r \in Hits \union SideHits : WF_pipeVars(part = "pipe" /\ Sender(r))

-----------------------------------------------------------------------------
(* Shutdown gets past the hidden-parameter pool, and after it the reader of   *)
(* results and the screen end.                                                *)
EngineEnds == ParamShutdownReturns /\ PipeEnds
=============================================================================

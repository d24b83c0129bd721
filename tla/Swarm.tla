-------------------------------- MODULE Swarm --------------------------------
(* The swarm controller (cmd/dirfuzz/swarm.go, executeSwarm): a chunker cuts *)
(* the wordlist, node goroutines hand the chunks to the provider, a closer   *)
(* waits for them and the controller collects.  Three channels and a context *)
(* connect them; every select over ready cases may take any of them.         *)
EXTENDS Naturals, Sequences, FiniteSets, SequencesExt

CONSTANTS
    Nodes,       \* swarmNodes goroutines
    NumLines, ChunkSize, StartLine

(* executeSwarm raises a node count or a chunk size below one to one.        *)
ASSUME SwarmAssumption ==
    /\ IsFiniteSet(Nodes) /\ Nodes # {}
    /\ NumLines \in Nat /\ ChunkSize \in Nat \ {0} /\ StartLine \in Nat

VARIABLES
    cut,         \* the chunker: "run", "send", "end"
    lineNum,     \* lines it has read
    current,     \* lines of the chunk it fills
    chunkCh, chunkShut,
    nodePc,      \* each node: "idle", "invoke", "hung", "fail", "send", "end"
    nodeChunk,   \* the chunk it works on
    resultCh, resultShut,
    errCh,       \* errors under way, at most one
    cancelled,   \* the context
    ctl,         \* the controller: "run", or how it returned: "ok", "error", "cancelled"
    collected,   \* chunks whose results it has
    failedChunks, \* history: chunks whose invocation failed
    interrupted   \* history: the user interrupted the scan

swarmVars == <<cut, lineNum, current, chunkCh, chunkShut, nodePc, nodeChunk, resultCh,
               resultShut, errCh, cancelled, ctl, collected, failedChunks, interrupted>>
cutVars == <<cut, lineNum, current, chunkShut>>
nodeVars == <<nodePc, nodeChunk, failedChunks>>
ctlVars == <<ctl, collected, interrupted>>

(* The capacity of chunkCh and resultCh.                                     *)
NodeCap == Cardinality(Nodes)

SwarmInit ==
    /\ cut = "run" /\ lineNum = 0 /\ current = <<>> /\ chunkCh = <<>> /\ chunkShut = FALSE
    /\ nodePc = [n \in Nodes |-> "idle"] /\ nodeChunk = [n \in Nodes |-> <<>>]
    /\ resultCh = <<>> /\ resultShut = FALSE /\ errCh = {} /\ cancelled = FALSE
    /\ ctl = "run" /\ collected = <<>> /\ failedChunks = {} /\ interrupted = FALSE

Full(lines) == Len(lines) >= ChunkSize
NeverLast == FALSE

(* A short last chunk is sent when the list ends.                            *)
SendsLast == current # <<>>

(* The chunker reads a line, or finds the end of the list or an error in it. *)
ChunkRead ==
    /\ cut = "run"
    /\ \/ /\ ~cancelled /\ lineNum < NumLines
          /\ lineNum' = lineNum + 1
          /\ current' = IF lineNum' <= StartLine THEN current ELSE Append(current, lineNum')
          /\ cut' = IF Full(current') THEN "send" ELSE "run"
          /\ UNCHANGED <<chunkShut, errCh>>
       \/ /\ lineNum = NumLines
          /\ cut' = IF SendsLast THEN "send" ELSE "end"
          /\ chunkShut' = ~SendsLast
          /\ UNCHANGED <<lineNum, current, errCh>>
       \/ /\ cancelled /\ lineNum < NumLines
          /\ cut' = "end" /\ chunkShut' = TRUE /\ UNCHANGED <<lineNum, current, errCh>>
       \/ /\ lineNum < NumLines   \* scanner.Err: the error is dropped when one is under way
          /\ cut' = "end" /\ chunkShut' = TRUE
          /\ errCh' = IF errCh = {} THEN {"scan"} ELSE errCh
          /\ UNCHANGED <<lineNum, current>>
    /\ UNCHANGED <<chunkCh, nodeVars, resultCh, resultShut, cancelled, ctlVars>>

ChunkSend ==
    /\ cut = "send"
    /\ \/ /\ Len(chunkCh) < NodeCap
          /\ chunkCh' = Append(chunkCh, current) /\ current' = <<>>
          /\ cut' = "run" /\ UNCHANGED chunkShut
       \/ cancelled /\ cut' = "end" /\ chunkShut' = TRUE /\ UNCHANGED <<chunkCh, current>>
    /\ UNCHANGED <<lineNum, nodeVars, resultCh, resultShut, errCh, cancelled, ctlVars>>

NodeTake(n) ==
    /\ nodePc[n] = "idle"
    /\ \/ /\ chunkCh # <<>>
          /\ nodeChunk' = [nodeChunk EXCEPT ![n] = Head(chunkCh)] /\ chunkCh' = Tail(chunkCh)
          /\ nodePc' = [nodePc EXCEPT ![n] = "invoke"]
       \/ /\ chunkCh = <<>> /\ chunkShut
          /\ nodePc' = [nodePc EXCEPT ![n] = "end"] /\ UNCHANGED <<nodeChunk, chunkCh>>
    /\ UNCHANGED <<cutVars, resultCh, resultShut, errCh, cancelled, ctlVars, failedChunks>>

(* provider.Invoke: RunSwarmWorker in this process or on Lambda.  A worker   *)
(* whose context ends stops its engine and reports the context's error.      *)
Invoke(n) ==
    /\ nodePc[n] = "invoke"
    /\ \E ok \in IF cancelled THEN {FALSE} ELSE BOOLEAN :
          /\ nodePc' = [nodePc EXCEPT ![n] = IF ok THEN "send" ELSE "fail"]
          /\ failedChunks' = IF ok THEN failedChunks ELSE failedChunks \union {nodeChunk[n]}
    /\ UNCHANGED <<cutVars, chunkCh, nodeChunk, resultCh, resultShut, errCh, cancelled, ctlVars>>

(* The worker reads its engine's Results until they close, and Shutdown,     *)
(* which closes them, may wait for ever.                                     *)
InvokeHangs(n) ==
    /\ nodePc[n] = "invoke" /\ nodePc' = [nodePc EXCEPT ![n] = "hung"]
    /\ UNCHANGED <<cutVars, chunkCh, nodeChunk, failedChunks, resultCh, resultShut, errCh, cancelled, ctlVars>>

(* A node that fails gives up for good; only the first error is kept.        *)
NodeFail(n) ==
    /\ nodePc[n] = "fail" /\ nodePc' = [nodePc EXCEPT ![n] = "end"]
    /\ errCh' = IF errCh = {} THEN {"chunk"} ELSE errCh
    /\ UNCHANGED <<cutVars, chunkCh, nodeChunk, failedChunks, resultCh, resultShut, cancelled, ctlVars>>

NodeSend(n) ==
    /\ nodePc[n] = "send"
    /\ \/ /\ Len(resultCh) < NodeCap
          /\ resultCh' = Append(resultCh, nodeChunk[n])
          /\ nodePc' = [nodePc EXCEPT ![n] = "idle"]
       \/ cancelled /\ nodePc' = [nodePc EXCEPT ![n] = "end"] /\ UNCHANGED resultCh
    /\ UNCHANGED <<cutVars, chunkCh, nodeChunk, failedChunks, resultShut, errCh, cancelled, ctlVars>>

CloserReady == \A n \in Nodes : nodePc[n] = "end"
Closer ==
    /\ CloserReady /\ ~resultShut /\ resultShut' = TRUE
    /\ UNCHANGED <<cutVars, chunkCh, nodeVars, resultCh, errCh, cancelled, ctlVars>>

(* The controller's select.  Every way out ends in runSwarm's deferred       *)
(* cancel.  A closed result channel and a waiting error may be ready at the  *)
(* same time, and either case may be taken.                                  *)
Controller ==
    /\ ctl = "run"
    /\ \/ errCh # {} /\ errCh' = {} /\ ctl' = "error" /\ cancelled' = TRUE
          /\ UNCHANGED <<resultCh, collected>>
       \/ /\ resultCh # <<>>
          /\ collected' = Append(collected, Head(resultCh)) /\ resultCh' = Tail(resultCh)
          /\ UNCHANGED <<errCh, ctl, cancelled>>
       \/ /\ resultCh = <<>> /\ resultShut /\ ctl' = "ok" /\ cancelled' = TRUE
          /\ UNCHANGED <<errCh, resultCh, collected>>
       \/ cancelled /\ ctl' = "cancelled" /\ UNCHANGED <<errCh, resultCh, collected, cancelled>>
    /\ UNCHANGED <<cutVars, chunkCh, nodeVars, resultShut, interrupted>>

Interrupt ==
    /\ ctl = "run" /\ ~cancelled /\ cancelled' = TRUE /\ interrupted' = TRUE
    /\ UNCHANGED <<cutVars, chunkCh, nodeVars, resultCh, resultShut, errCh, ctl, collected>>

Node(n) == NodeTake(n) \/ Invoke(n) \/ NodeFail(n) \/ NodeSend(n)
SwarmNext == ChunkRead \/ ChunkSend \/ (\E n \in Nodes : Node(n) \/ InvokeHangs(n)) \/ Closer \/ Controller \/ Interrupt

SwarmTypeOK ==
    /\ Len(chunkCh) <= NodeCap /\ Len(resultCh) <= NodeCap /\ Cardinality(errCh) <= 1
    /\ \A n \in Nodes : nodePc[n] \in {"idle", "invoke", "hung", "fail", "send", "end"}

Collected == UNION {Range(collected[i]) : i \in DOMAIN collected}

(* No line of the list is reported by two chunks, and none before the line   *)
(* the scan resumes from.                                                    *)
SwarmLinesOnce ==
    /\ \A i, j \in DOMAIN collected : i # j => Range(collected[i]) \cap Range(collected[j]) = {}
    /\ \A l \in Collected : l > StartLine

(* A swarm scan that reports success has every line of the list, unless it   *)
(* was interrupted, a chunk failed or the list could not be read: there the  *)
(* select may see the closed result channel first and report success.        *)
SwarmLossExplained ==
    ctl = "ok" /\ failedChunks = {} /\ errCh = {} /\ ~interrupted =>
        Collected = (StartLine + 1)..NumLines

(* The swarm gives out no line twice, and if it reports success it has every *)
(* line that no failure explains (cmd/dirfuzz/swarm.go:252-356).             *)
SwarmSound == SwarmTypeOK /\ SwarmLinesOnce /\ SwarmLossExplained

(* executeSwarm returns whatever fails, and after its cancel every goroutine *)
(* it started ends, unless the Shutdown of a worker's engine hangs.          *)
Hung == \E n \in Nodes : nodePc[n] = "hung"
SwarmReturns ==
    /\ <>(ctl # "run" \/ Hung)
    /\ <>(Hung \/ (cut = "end" /\ \A n \in Nodes : nodePc[n] = "end"))
=============================================================================

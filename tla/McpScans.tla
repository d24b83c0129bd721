------------------------------ MODULE McpScans ------------------------------
(* The scans of the MCP server (cmd/mcp/main.go): the registry with its      *)
(* limit, the goroutine that runs a scan on an engine of its own, the        *)
(* watchers that stop that engine, the cancel and status tools that reach    *)
(* into a scan from other calls, and dirfuzz_expand's sub-scans.  The engine *)
(* is external: it emits results until it ends or is shut down, and then     *)
(* closes its channel, unless its Shutdown hangs (module ScanLifecycle).     *)
EXTENDS Naturals, Sequences, FiniteSets, SequencesExt

CONSTANTS
    Scans,        \* calls of dirfuzz_scan, by scan_id
    Expands,      \* calls of dirfuzz_expand
    Cancels,      \* calls of dirfuzz_cancel
    ScanLimit,    \* maxConcurrentScans
    ResultCap,    \* maxResults
    MaxFound,     \* bound: results an engine can emit
    MaxLost,      \* bound: writes of a scan that fail
    Mixes         \* bound: the sets of calls made together

Runs == Scans \cup Expands

(* loadConfig refuses limits below one.                                      *)
ASSUME McpAssumption ==
    /\ Scans \cap Expands = {} /\ Runs \cap Cancels = {}
    /\ ScanLimit \in Nat \ {0} /\ ResultCap \in Nat \ {0}
    /\ MaxFound \in Nat /\ MaxLost \in Nat

VARIABLES
    pc,        \* of every call
    reg,       \* scanRegistry.scans
    st,        \* per scan: scanState
    eng,       \* per run: the engine: "none", "idle", "run", "stopping", "hung",
               \* "closed"
    found,     \* per run: results the engine emitted
    taken,     \* per run: len(collected)
    lines,     \* per scan: lines of its results file
    lost,      \* history: lines whose write failed
    ctx,       \* per run: "live", "cancelled", "expired"
    answer,    \* per call: what it replied
    subject,   \* per cancel: the scan it asks for
    saw        \* per cancel: what it read of the scan, [cancel, running]

scanVars == <<pc, reg, st, eng, found, taken, lines, lost, ctx, answer, subject, saw>>
callVars == <<subject, saw>>

NoState == [running |-> FALSE, finished |-> FALSE, canceled |-> FALSE, capped |-> FALSE,
            hasFile |-> FALSE, hasEngine |-> FALSE, hasCancel |-> FALSE]
Answers == {"none", "rejected", "limit", "failed", "ok", "sent", "not_running", "unknown", "panic"}

ScansInit ==
    /\ \E made \in Mixes : pc = [c \in Runs \cup Cancels |-> IF c \in made THEN "new" ELSE "absent"]
    /\ reg = {} /\ st = [s \in Scans |-> NoState]
    /\ eng = [r \in Runs |-> "none"] /\ found = [r \in Runs |-> 0] /\ taken = [r \in Runs |-> 0]
    /\ lines = [s \in Scans |-> 0] /\ lost = [s \in Scans |-> 0] /\ ctx = [r \in Runs |-> "live"]
    /\ answer = [c \in Runs \cup Cancels |-> "none"]
    /\ subject \in [Cancels -> Scans] /\ saw = [c \in Cancels |-> [cancel |-> FALSE, running |-> FALSE]]

Running == {s \in reg : st[s].running}

(* scanState.finish, and the deferred function of handleScan, which leaves a *)
(* time that is set already.                                                 *)
Finished(s, file) ==
    [st[s] EXCEPT !.running = FALSE, !.finished = TRUE, !.hasFile = file, !.hasEngine = FALSE,
                  !.capped = taken[s] >= ResultCap]
SlotBack(s) == [st[s] EXCEPT !.finished = TRUE, !.running = FALSE]

(* Approval, scope, wordlist and parameters: any of the checks may refuse.   *)
Check(r) ==
    /\ pc[r] = "new"
    /\ \/ pc' = [pc EXCEPT ![r] = IF r \in Scans THEN "register" ELSE "engine"] /\ UNCHANGED answer
       \/ pc' = [pc EXCEPT ![r] = "over"] /\ answer' = [answer EXCEPT ![r] = "rejected"]
    /\ UNCHANGED <<reg, st, eng, found, taken, lines, lost, ctx, callVars>>

(* registry.register: scans that ended an hour ago are dropped, the running  *)
(* ones are counted, and the new one takes a slot, in one critical section.  *)
AtLimit == Cardinality(Running) >= ScanLimit

Register(s) ==
    /\ pc[s] = "register"
    /\ \E old \in SUBSET {o \in reg : ~st[o].running /\ st[o].finished} :
          LET left == reg \ old
          IN IF AtLimit
             THEN /\ reg' = left /\ pc' = [pc EXCEPT ![s] = "over"]
                  /\ answer' = [answer EXCEPT ![s] = "limit"] /\ UNCHANGED st
             ELSE /\ reg' = left \cup {s} /\ pc' = [pc EXCEPT ![s] = "attach"]
                  /\ st' = [st EXCEPT ![s] = [NoState EXCEPT !.running = TRUE]] /\ UNCHANGED answer
    /\ UNCHANGED <<eng, found, taken, lines, lost, ctx, callVars>>

(* attachCancel, then the results file, whose creation may fail.             *)
AttachCancel(s) ==
    /\ pc[s] = "attach"
    /\ st' = [st EXCEPT ![s].hasCancel = TRUE] /\ pc' = [pc EXCEPT ![s] = "file"]
    /\ UNCHANGED <<reg, eng, found, taken, lines, lost, ctx, answer, callVars>>

CreateFile(s) ==
    /\ pc[s] = "file"
    /\ \/ pc' = [pc EXCEPT ![s] = "engine"] /\ UNCHANGED <<st, ctx, answer>>
       \/ /\ pc' = [pc EXCEPT ![s] = "over"] /\ answer' = [answer EXCEPT ![s] = "failed"]
          /\ st' = [st EXCEPT ![s] = Finished(s, FALSE)] /\ ctx' = [ctx EXCEPT ![s] = "cancelled"]
    /\ UNCHANGED <<reg, eng, found, taken, lines, lost, callVars>>

(* runScan: the engine is created and attached; its target may be invalid.   *)
NewEngine(r) ==
    /\ pc[r] = "engine"
    /\ eng' = [eng EXCEPT ![r] = "idle"] /\ pc' = [pc EXCEPT ![r] = "target"]
    /\ st' = IF r \in Scans THEN [st EXCEPT ![r].hasEngine = TRUE, ![r].running = TRUE] ELSE st
    /\ UNCHANGED <<reg, found, taken, lines, lost, ctx, answer, callVars>>

Start(r) ==
    /\ pc[r] = "target"
    /\ \/ /\ eng' = [eng EXCEPT ![r] = "run"] /\ pc' = [pc EXCEPT ![r] = "collect"]
          /\ UNCHANGED <<st, ctx, answer>>
       \/ /\ pc' = [pc EXCEPT ![r] = "over"] /\ answer' = [answer EXCEPT ![r] = "failed"]
          /\ ctx' = [ctx EXCEPT ![r] = "cancelled"]
          /\ st' = IF r \in Scans THEN [st EXCEPT ![r] = Finished(r, FALSE)] ELSE st
          /\ eng' = IF r \in Expands THEN [eng EXCEPT ![r] = "closed"] ELSE eng   \* defer Shutdown
    /\ UNCHANGED <<reg, found, taken, lines, lost, callVars>>

(* The engine (external): it emits while somebody reads, it comes to its end *)
(* and it closes Results, or its Shutdown waits for ever.                    *)
Emit(r) ==
    /\ eng[r] \in {"run", "stopping", "hung"} /\ pc[r] \in {"collect", "drain"} /\ found[r] < MaxFound
    /\ found' = [found EXCEPT ![r] = @ + 1]
    /\ UNCHANGED <<pc, reg, st, eng, taken, lines, lost, ctx, answer, callVars>>

Close(r) ==
    /\ eng[r] = "stopping" /\ eng' = [eng EXCEPT ![r] = "closed"]
    /\ UNCHANGED <<pc, reg, st, found, taken, lines, lost, ctx, answer, callVars>>

ShutdownHangs(r) ==
    /\ eng[r] = "stopping" /\ eng' = [eng EXCEPT ![r] = "hung"]
    /\ UNCHANGED <<pc, reg, st, found, taken, lines, lost, ctx, answer, callVars>>

Stopped(r) == IF eng[r] = "run" THEN [eng EXCEPT ![r] = "stopping"] ELSE eng

(* The first watcher: Wait returns when the scan is complete; it cancels the *)
(* context and shuts the engine down.                                        *)
WaitReturns(r) ==
    /\ eng[r] = "run"
    /\ ctx' = [ctx EXCEPT ![r] = IF @ = "live" THEN "cancelled" ELSE @] /\ eng' = Stopped(r)
    /\ UNCHANGED <<pc, reg, st, found, taken, lines, lost, answer, callVars>>

(* The second watcher waits for the context and shuts the engine down.       *)
Watcher(r) ==
    /\ eng[r] = "run" /\ ctx[r] # "live" /\ eng' = Stopped(r)
    /\ UNCHANGED <<pc, reg, st, found, taken, lines, lost, ctx, answer, callVars>>

(* max_duration, or an expansion's thirty seconds.                           *)
Expire(r) ==
    /\ pc[r] = "collect" /\ ctx[r] = "live" /\ ctx' = [ctx EXCEPT ![r] = "expired"]
    /\ UNCHANGED <<pc, reg, st, eng, found, taken, lines, lost, answer, callVars>>

CollectPastCap(s) ==
    /\ s \in Scans /\ pc[s] = "collect" /\ taken[s] < found[s]
    /\ lines' = [lines EXCEPT ![s] = @ + 1] /\ UNCHANGED lost
    /\ IF taken[s] >= ResultCap
       THEN /\ pc' = [pc EXCEPT ![s] = "drain"] /\ st' = [st EXCEPT ![s].capped = TRUE]
            /\ eng' = Stopped(s) /\ UNCHANGED taken
       ELSE taken' = [taken EXCEPT ![s] = @ + 1] /\ UNCHANGED <<pc, st, eng>>
    /\ UNCHANGED <<reg, found, ctx, answer, callVars>>

(* The collecting loop: a result is counted, then written (the error of the  *)
(* write is ignored); at the cap the engine is shut down and drained.        *)
Collect(s) ==
    /\ s \in Scans /\ pc[s] = "collect" /\ taken[s] < found[s]
    /\ taken' = [taken EXCEPT ![s] = @ + 1]
    /\ \/ lines' = [lines EXCEPT ![s] = @ + 1] /\ UNCHANGED lost
       \/ lost[s] < MaxLost /\ lost' = [lost EXCEPT ![s] = @ + 1] /\ UNCHANGED lines
    /\ IF taken'[s] >= ResultCap
       THEN /\ pc' = [pc EXCEPT ![s] = "drain"] /\ st' = [st EXCEPT ![s].capped = TRUE]
            /\ eng' = Stopped(s)
       ELSE UNCHANGED <<pc, st, eng>>
    /\ UNCHANGED <<reg, found, ctx, answer, callVars>>

(* handleExpand's collector keeps the first results and drains the others.   *)
CollectExpansion(r) ==
    /\ r \in Expands /\ pc[r] = "collect" /\ taken[r] < found[r] /\ taken[r] < ResultCap
    /\ taken' = [taken EXCEPT ![r] = @ + 1]
    /\ UNCHANGED <<pc, reg, st, eng, found, lines, lost, ctx, answer, callVars>>

(* The channel is closed and empty: runScan returns, finish is called and    *)
(* the call answers.  An expired scan answers an error, and its file is not  *)
(* recorded; an expired expansion answers what it has.                       *)
Return(r) ==
    /\ eng[r] = "closed"
    /\ \/ pc[r] = "drain"
       \/ /\ pc[r] = "collect"
          /\ taken[r] = found[r] \/ (r \in Expands /\ taken[r] = ResultCap)
    /\ LET failed == ctx[r] = "expired" /\ r \in Scans
       IN /\ answer' = [answer EXCEPT ![r] = IF failed THEN "failed" ELSE "ok"]
          /\ st' = IF r \in Scans THEN [st EXCEPT ![r] = Finished(r, ~failed)] ELSE st
    /\ pc' = [pc EXCEPT ![r] = "over"] /\ ctx' = [ctx EXCEPT ![r] = IF @ = "live" THEN "cancelled" ELSE @]
    /\ UNCHANGED <<reg, eng, found, taken, lines, lost, callVars>>

(* A panic in the handler after the scan was registered: the deferred        *)
(* functions cancel the context and give the slot back.                      *)
Panic(s) ==
    /\ s \in Scans /\ pc[s] \in {"attach", "file", "engine", "target", "collect"}
    /\ pc' = [pc EXCEPT ![s] = "over"] /\ answer' = [answer EXCEPT ![s] = "panic"]
    /\ st' = [st EXCEPT ![s] = SlotBack(s)]
    /\ ctx' = [ctx EXCEPT ![s] = IF @ = "live" THEN "cancelled" ELSE @]
    /\ UNCHANGED <<reg, eng, found, taken, lines, lost, callVars>>

(* handleCancelScan: cancelRunning reads under a lock, calls cancel without  *)
(* one, and sets the flag under a second.                                    *)
CancelRead(c) ==
    /\ pc[c] = "new"
    /\ IF subject[c] \in reg
       THEN /\ saw' = [saw EXCEPT ![c] = [cancel |-> st[subject[c]].hasCancel,
                                         running |-> st[subject[c]].running]]
            /\ pc' = [pc EXCEPT ![c] = "cancel"] /\ UNCHANGED answer
       ELSE /\ answer' = [answer EXCEPT ![c] = "unknown"] /\ pc' = [pc EXCEPT ![c] = "over"] /\ UNCHANGED saw
    /\ UNCHANGED <<reg, st, eng, found, taken, lines, lost, ctx, subject>>

CancelCall(c) ==
    /\ pc[c] = "cancel"
    /\ IF saw[c].cancel /\ saw[c].running
       THEN /\ ctx' = [ctx EXCEPT ![subject[c]] = IF @ = "live" THEN "cancelled" ELSE @]
            /\ pc' = [pc EXCEPT ![c] = "flag"] /\ UNCHANGED answer
       ELSE answer' = [answer EXCEPT ![c] = "not_running"] /\ pc' = [pc EXCEPT ![c] = "over"] /\ UNCHANGED ctx
    /\ UNCHANGED <<reg, st, eng, found, taken, lines, lost, callVars>>

CancelFlag(c) ==
    /\ pc[c] = "flag" /\ st' = [st EXCEPT ![subject[c]].canceled = TRUE]
    /\ answer' = [answer EXCEPT ![c] = "sent"] /\ pc' = [pc EXCEPT ![c] = "over"]
    /\ UNCHANGED <<reg, eng, found, taken, lines, lost, ctx, callVars>>

Handler(r) ==
    Check(r) \/ NewEngine(r) \/ Start(r) \/ Collect(r) \/ CollectExpansion(r) \/ Return(r)
ScanHandler(s) == Register(s) \/ AttachCancel(s) \/ CreateFile(s)
Engine(r) == Close(r) \/ ShutdownHangs(r) \/ Watcher(r)

ScansNext ==
    \/ \E r \in Runs : Handler(r) \/ Engine(r) \/ Emit(r) \/ WaitReturns(r) \/ Expire(r)
    \/ \E s \in Scans : ScanHandler(s) \/ Panic(s)
    \/ \E c \in Cancels : CancelRead(c) \/ CancelCall(c) \/ CancelFlag(c)

-----------------------------------------------------------------------------
ScansTypeOK ==
    /\ reg \subseteq Scans /\ st \in [Scans -> [DOMAIN NoState -> BOOLEAN]]
    /\ eng \in [Runs -> {"none", "idle", "run", "stopping", "hung", "closed"}]
    /\ found \in [Runs -> 0..MaxFound] /\ \A r \in Runs : taken[r] <= found[r]
    /\ ctx \in [Runs -> {"live", "cancelled", "expired"}]
    /\ answer \in [Runs \cup Cancels -> Answers]

InHand == {s \in Scans : pc[s] \in {"attach", "file", "engine", "target", "collect", "drain"}}

(* No more scans are in progress than the limit allows, and every slot that  *)
(* is taken belongs to a call still in progress, whatever cancels, failures  *)
(* and panics came between (main.go:220, 856).                               *)
McpScanLimit == Cardinality(InHand) <= ScanLimit /\ Running = InHand

(* A scan that answered has counted every line of its file and every line it *)
(* lost, never more than the cap; its record says capped exactly when it     *)
(* stopped at the cap, and names a file exactly when it answered its results *)
(* (main.go:1048, 264).                                                      *)
McpAnswerMatches ==
    \A s \in Scans :
        /\ lines[s] + lost[s] = taken[s] /\ taken[s] <= ResultCap
        /\ answer[s] \in {"ok", "failed"} /\ s \in reg =>
              (st[s].capped <=> taken[s] = ResultCap) /\ (st[s].hasFile <=> answer[s] = "ok")

(* Scans in progress stay below the limit, slots come back, and what a scan  *)
(* answers agrees with its file and its record (cmd/mcp/main.go:815-949).    *)
ScansSound == ScansTypeOK /\ McpScanLimit /\ McpAnswerMatches

(* A scan told to cancel, or out of time, comes to its end unless the        *)
(* Shutdown of its engine hangs: nothing else in the server has to happen    *)
(* for its engine to stop and its call to answer (main.go:275, 1042).        *)
McpCancelEnds == \A s \in Scans : ctx[s] # "live" ~> (pc[s] = "over" \/ eng[s] = "hung")

(* No more engines scan at once than maxConcurrentScans                      *)
(* (docs/MCP_README.md:403: "Maximum number of concurrent scans the MCP      *)
(* server will allow at once").                                              *)
McpEngineLimit == Cardinality({r \in Runs : eng[r] = "run"}) <= ScanLimit
=============================================================================

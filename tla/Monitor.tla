------------------------------- MODULE Monitor -------------------------------
(* The monitor (cmd/monitor/main.go): scan the target, write the results as  *)
(* the next baseline, report what changed against the last one, sleep.  The  *)
(* main loop, the signal handler that shuts the running engine down, the     *)
(* state file on disk and a target that changes are the actors; the process  *)
(* may crash between any two steps and start again.                          *)
(* A row of the file is the answer to one method on one path; what it says   *)
(* is a version of that answer.  Body hashes are left out: loadConfigFromEnv *)
(* never sets SaveRaw, no raw answer is kept, and every hash is empty.       *)
EXTENDS Integers, FiniteSets

CONSTANTS
    Paths,       \* paths of the wordlist
    MethodLists, \* values of METHOD, as sets
    Served,      \* what the target says by method and version, [status, size]
    MaxVersion,  \* bound: versions an answer goes through; 0 is "no hit"
    MaxCrashes,  \* bound: crashes
    MaxSignals,  \* bound: signals sent
    MaxWriteRetries

AllMethods == UNION MethodLists

ASSUME MonitorAssumption ==
    /\ MaxVersion \in Nat \ {0} /\ MaxCrashes \in Nat /\ MaxSignals \in Nat
    /\ MaxWriteRetries \in Nat \ {0}
    /\ Served \in [AllMethods \X (1..MaxVersion) -> [status : Nat, size : Int]]

VARIABLES
    methods,     \* cfg.Methods
    forceBaseline, \* BASELINE_RUN
    site,        \* what the target serves at each path, by method, now
    main,        \* the main loop: "top", "load", "enlist", "scan", "delist", "write", "copy",
                 \* "notify", "after", "jitter", "sleep", "exit"
    handler,     \* the signal goroutine: "wait", "flag", "lock", "stop", "hung", "end"
    signals,     \* signals in sigCh (capacity 1) and signals sent so far
    stopAsked,   \* shutdownRequested
    currentEngine, \* currentEngine is set
    engineUp,    \* its Results channel is open
    previous,    \* the row of each path read at the start of the cycle
    hadState,    \* the state file existed then
    results,     \* hits collected; 0 where the scan has none
    stateFile,   \* [exists, rows]
    attempts,    \* writes tried in this cycle
    retrying,    \* persistState was called after the signal
    crashes,     \* crashes so far
    told,        \* history: changes <<path, old row, new row>> of a method that a message described
    repeated,    \* history: those that a second message described
    accounted    \* history: rows that a message described, that a baseline brought, that stood
                 \* within the tolerance of the row they were compared with, or whose report a
                 \* crash, a failed copy or a refused message cost

monitorVars == <<methods, forceBaseline, site, main, handler, signals, stopAsked, currentEngine, engineUp,
                 previous, hadState, results, stateFile, attempts, retrying, crashes, told,
                 repeated, accounted>>
cycleVars == <<previous, hadState, results, attempts, retrying>>
reportVars == <<told, repeated, accounted>>
envVars == <<methods, forceBaseline, crashes>>
worldVars == <<envVars, site, stateFile, reportVars>>
signalVars == <<handler, signals, stopAsked>>

Versions == 0..MaxVersion
Keys == Paths \X AllMethods
NoRows == [k \in Keys |-> 0]
Row(m, v) == [method |-> m, version |-> v]
NoRow == Row("", 0)
NoBaseline == [p \in Paths |-> NoRow]
Said(row) == Served[<<row.method, row.version>>]

MonitorInit ==
    /\ methods \in MethodLists /\ forceBaseline \in BOOLEAN
    /\ site \in [Keys -> {0, 1}]
    /\ main = "top" /\ handler = "wait" /\ signals = [queued |-> 0, sent |-> 0]
    /\ stopAsked = FALSE /\ currentEngine = FALSE /\ engineUp = FALSE
    /\ previous = NoBaseline /\ hadState = FALSE /\ results = NoRows
    /\ stateFile = [exists |-> FALSE, rows |-> NoRows]
    /\ attempts = 0 /\ retrying = FALSE /\ crashes = 0
    /\ told = {} /\ repeated = {} /\ accounted = {}

LoopTop ==
    /\ main = "top" /\ main' = IF stopAsked THEN "exit" ELSE "load"
    /\ UNCHANGED <<signalVars, currentEngine, engineUp, cycleVars, worldVars>>

(* The baseline is keyed by path: of the rows read, the last of each path.   *)
(* Workers wrote them in any order, and the reading stops at a line that is  *)
(* too long or an error, at once when the file cannot be opened.             *)
Read(p) ==
    {NoRow} \union
    {Row(m, stateFile.rows[<<p, m>>]) : m \in {n \in AllMethods : stateFile.rows[<<p, n>>] # 0}}

(* runScanCycle up to the engine: an unreadable wordlist or a bad target     *)
(* ends the cycle.                                                           *)
LoadState ==
    /\ main = "load"
    /\ main' \in {"enlist", "after"}
    /\ hadState' = stateFile.exists
    /\ previous' \in {f \in [Paths -> UNION {Read(p) : p \in Paths}] : \A p \in Paths : f[p] \in Read(p)}
    /\ results' = NoRows /\ attempts' = 0
    /\ UNCHANGED <<retrying, signalVars, currentEngine, engineUp, worldVars>>

(* The engine is published under engineMu, then started.                     *)
LockFree == handler \notin {"stop", "hung"}

Enlist ==
    /\ main = "enlist" /\ LockFree
    /\ currentEngine' = TRUE /\ engineUp' = TRUE /\ main' = "scan"
    /\ UNCHANGED <<signalVars, cycleVars, worldVars>>

(* collectScanCycleResults: hits arrive until Results is closed (at the end  *)
(* of the list, or because the handler shut the engine down) or the maximal  *)
(* duration is over; what was collected until then is the result.            *)
ScanPath(p, m) ==
    /\ main = "scan" /\ engineUp /\ m \in methods /\ results[<<p, m>>] = 0 /\ site[<<p, m>>] # 0
    /\ results' = [results EXCEPT ![<<p, m>>] = site[<<p, m>>]]
    /\ UNCHANGED <<main, signalVars, currentEngine, engineUp, previous, hadState, attempts, retrying, worldVars>>

collectScanCycleResults ==
    /\ main = "scan" /\ main' = "delist"
    /\ engineUp' = FALSE   \* closed, timed out and aborted, or shut down before
    /\ UNCHANGED <<signalVars, currentEngine, cycleVars, worldVars>>

Delist ==
    /\ main = "delist" /\ LockFree
    /\ currentEngine' = FALSE /\ main' = "write" /\ retrying' = stopAsked
    /\ UNCHANGED <<signalVars, engineUp, previous, hadState, results, attempts, worldVars>>

-----------------------------------------------------------------------------
(* The rows of the cycle, each beside the row its path is compared with.     *)
Compared ==
    {<<k[1], previous[k[1]], Row(k[2], results[k])>> : k \in {j \in Keys : results[j] # 0}}

(* 1.5 percent or more, 2000 bytes, or 100 bytes of a page below 500.        *)
SizeChanged(old, new) ==
    LET delta == IF new > old THEN new - old ELSE old - new
    IN  \/ old > 0 /\ 200 * delta >= 3 * old
        \/ delta > 2000
        \/ delta > 100 /\ old < 500

Differs(old, new) ==
    \/ Said(old).status # Said(new).status
    \/ Said(old).size >= 0 /\ Said(new).size >= 0 /\ SizeChanged(Said(old).size, Said(new).size)

findInterestingNewOnly == {c \in Compared : c[2] = NoRow}

(* findInteresting: a hit on a path without a previous row is new, a row     *)
(* that differs from it changed; a path that is no hit any more, or moved    *)
(* within the tolerance, is not reported.                                    *)
findInteresting == {c \in Compared : c[2] = NoRow \/ Differs(c[2], c[3])}

(* Without a file, or under BASELINE_RUN, the cycle only sets the baseline.  *)
Reporting == hadState /\ ~forceBaseline

(* What the histories keep of a write, and of a report that is lost.         *)
Account(changes) ==
    /\ accounted' = accounted \union {<<c[1], c[3]>> : c \in changes}
    /\ UNCHANGED <<told, repeated>>

Tolerated == {c \in Compared : c[2] \notin {NoRow, c[3]} /\ ~Differs(c[2], c[3])}
NoteWrite == Account(IF Reporting THEN Tolerated ELSE Compared)
NoteLoss == Account(IF Reporting THEN findInteresting ELSE {})

(* writeStateAtomic writes a temporary file and renames it over the state    *)
(* file; where the rename fails it truncates the state file and copies.      *)
RenameState ==
    /\ main = "write" /\ main' = "notify"
    /\ stateFile' = [exists |-> TRUE, rows |-> results] /\ NoteWrite
    /\ UNCHANGED <<envVars, site, signalVars, currentEngine, engineUp, cycleVars>>

CopyBegins ==
    /\ main = "write" /\ main' = "copy"
    /\ \E kept \in SUBSET Keys :   \* the rows copied before a crash or an error would cut the copy off
          stateFile' = [exists |-> TRUE, rows |-> [k \in Keys |-> IF k \in kept THEN results[k] ELSE 0]]
    /\ NoteWrite
    /\ UNCHANGED <<envVars, site, signalVars, currentEngine, engineUp, cycleVars>>

CopyEnds ==
    /\ main = "copy" /\ main' = "notify"
    /\ stateFile' = [exists |-> TRUE, rows |-> results]
    /\ UNCHANGED <<envVars, site, reportVars, signalVars, currentEngine, engineUp, cycleVars>>

(* A failed write ends the cycle without a report; after a signal it is      *)
(* tried again first.                                                        *)
Retries ==
    /\ attempts' = attempts + 1
    /\ main' = IF retrying /\ attempts' < MaxWriteRetries THEN "write" ELSE "after"

WriteFails ==
    /\ main = "write" /\ Retries
    /\ UNCHANGED <<retrying, previous, hadState, results, signalVars, currentEngine, engineUp, worldVars>>

(* A copy that fails leaves the file with the rows it has.                   *)
CopyFails ==
    /\ main = "copy" /\ Retries /\ NoteLoss
    /\ UNCHANGED <<envVars, site, stateFile, retrying, previous, hadState, results, signalVars,
                   currentEngine, engineUp>>

OfOneMethod == {c \in findInteresting : c[2] # NoRow /\ c[2].method = c[3].method}

(* A message may be refused, which is logged and not retried.                *)
Notify ==
    /\ main = "notify" /\ main' = "after"
    /\ IF ~Reporting THEN UNCHANGED reportVars
       ELSE /\ accounted' = accounted \union {<<c[1], c[3]>> : c \in findInteresting}
            /\ \/ /\ told' = told \union OfOneMethod
                  /\ repeated' = repeated \union (told \intersect OfOneMethod)
               \/ findInteresting # {} /\ UNCHANGED <<told, repeated>>   \* refused
    /\ UNCHANGED <<envVars, site, stateFile, signalVars, currentEngine, engineUp, cycleVars>>

(* What runScanCycle held is gone when it has returned.                      *)
CycleOver ==
    /\ previous' = NoBaseline /\ hadState' = FALSE /\ results' = NoRows
    /\ attempts' = 0 /\ retrying' = FALSE

AfterCycle ==
    /\ main = "after" /\ main' = IF stopAsked THEN "exit" ELSE "jitter"
    /\ CycleOver
    /\ UNCHANGED <<signalVars, currentEngine, engineUp, worldVars>>

(* Both sleeps end by their timer or by a signal the handler did not take.   *)
Sleep ==
    /\ main \in {"jitter", "sleep"}
    /\ \/ main' = (IF main = "jitter" THEN "sleep" ELSE "top") /\ UNCHANGED <<signals, stopAsked>>
       \/ /\ signals.queued > 0 /\ signals' = [signals EXCEPT !.queued = 0]
          /\ stopAsked' = TRUE /\ main' = "exit"
    /\ UNCHANGED <<handler, currentEngine, engineUp, cycleVars, worldVars>>

Signal ==
    /\ signals.sent < MaxSignals /\ main # "exit"
    /\ signals' = [queued |-> 1, sent |-> signals.sent + 1]
    /\ UNCHANGED <<main, handler, stopAsked, currentEngine, engineUp, cycleVars, worldVars>>

HandlerForgetsFlag ==
    /\ main # "exit"
    /\ \/ /\ handler = "wait" /\ signals.queued > 0
          /\ signals' = [signals EXCEPT !.queued = 0] /\ handler' = "lock"
          /\ UNCHANGED <<stopAsked, engineUp>>
       \/ /\ handler = "lock" /\ handler' = (IF currentEngine THEN "stop" ELSE "end")
          /\ UNCHANGED <<signals, stopAsked, engineUp>>
       \/ /\ handler = "stop"
          /\ \/ handler' = "end" /\ engineUp' = FALSE
             \/ handler' = "hung" /\ UNCHANGED engineUp
          /\ UNCHANGED <<signals, stopAsked>>
    /\ UNCHANGED <<main, currentEngine, cycleVars, worldVars>>

(* The handler takes one signal, sets the flag, and shuts the engine down    *)
(* while it holds engineMu; Shutdown may wait for ever (shutdown_hangs)      *)
(* and then the lock is never given back.                                    *)
SignalHandler ==
    /\ main # "exit"
    /\ \/ /\ handler = "wait" /\ signals.queued > 0
          /\ signals' = [signals EXCEPT !.queued = 0] /\ handler' = "flag"
          /\ UNCHANGED <<stopAsked, engineUp>>
       \/ handler = "flag" /\ handler' = "lock" /\ stopAsked' = TRUE /\ UNCHANGED <<signals, engineUp>>
       \/ /\ handler = "lock" /\ handler' = (IF currentEngine THEN "stop" ELSE "end")
          /\ UNCHANGED <<signals, stopAsked, engineUp>>
       \/ /\ handler = "stop"
          /\ \/ handler' = "end" /\ engineUp' = FALSE
             \/ handler' = "hung" /\ UNCHANGED engineUp
          /\ UNCHANGED <<signals, stopAsked>>
    /\ UNCHANGED <<main, currentEngine, cycleVars, worldVars>>

SiteChanges ==
    \E k \in Keys :
        /\ site[k] < MaxVersion /\ site' = [site EXCEPT ![k] = @ + 1]
        /\ UNCHANGED <<envVars, main, signalVars, currentEngine, engineUp, cycleVars, stateFile, reportVars>>

(* A crash after the write and before the report costs the report; the       *)
(* monitor starts again, with BASELINE_RUN as the operator then has it.      *)
Crash ==
    /\ crashes < MaxCrashes /\ main # "exit" /\ crashes' = crashes + 1
    /\ IF main \in {"copy", "notify"} THEN NoteLoss ELSE UNCHANGED reportVars
    /\ main' = "top" /\ handler' = "wait" /\ signals' = [signals EXCEPT !.queued = 0]
    /\ stopAsked' = FALSE /\ currentEngine' = FALSE /\ engineUp' = FALSE
    /\ forceBaseline' \in BOOLEAN /\ CycleOver
    /\ UNCHANGED <<methods, site, stateFile>>

Main ==
    \/ LoopTop \/ LoadState \/ Enlist \/ collectScanCycleResults \/ Delist \/ RenameState
    \/ CopyBegins \/ CopyEnds \/ CopyFails \/ WriteFails \/ Notify \/ AfterCycle \/ Sleep
MonitorNext ==
    Main \/ (\E p \in Paths, m \in AllMethods : ScanPath(p, m)) \/ SignalHandler \/ Signal \/ SiteChanges \/ Crash

-----------------------------------------------------------------------------
MonitorTypeOK ==
    /\ site \in [Keys -> Versions] /\ stateFile.rows \in [Keys -> Versions]
    /\ results \in [Keys -> Versions] /\ attempts \in 0..MaxWriteRetries
    /\ handler \in {"wait", "flag", "lock", "stop", "hung", "end"}

(* A change of what a path answers to a method is described by one message   *)
(* at most, whatever crashes, failed writes and cut-off scans come in        *)
(* between: the new baseline is on disk before the message goes out.  With   *)
(* several methods a row is also compared with another method's, and that    *)
(* difference, which is no change, may be told in every cycle.               *)
MonitorReportsOnce == repeated = {}

(* No change slips into the baseline unreported: every row of the state file *)
(* was in a message, came with a baseline, is about to be reported, belongs  *)
(* to a cycle whose report was lost, or stood within the tolerance of        *)
(* another row of its path that it replaced as the baseline.                 *)
MonitorNothingSlips ==
    \A p \in Paths, m \in AllMethods :
        LET v == stateFile.rows[<<p, m>>]
        IN  v = 0 \/ main \in {"copy", "notify"} \/ <<p, Row(m, v)>> \in accounted

(* The monitor reports a change once, and none beyond the tolerance enters   *)
(* its baseline unreported but through a crash or a failure (main.go:321,    *)
(* 377-395, 526).                                                            *)
MonitorSound == MonitorTypeOK /\ MonitorReportsOnce /\ MonitorNothingSlips

(* After a signal that the process survives, the monitor exits, unless the   *)
(* engine's Shutdown hangs: the handler and the sleeping loop may race for   *)
(* the signal, and the scan that runs or starts meanwhile is finished first. *)
MonitorStops == signals.queued > 0 ~> (main = "exit" \/ crashes = MaxCrashes \/ handler = "hung")
=============================================================================

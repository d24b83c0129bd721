--------------------------- MODULE ResultPipeline ----------------------------
(* The way of a result from a worker to the output file and the screen: the  *)
(* engine's Results and LogEvents channels (pkg/engine/worker.go, Shutdown)  *)
(* and their readers in cmd/dirfuzz/scan.go, the loop of runPlain or the     *)
(* fan-out goroutine of runTUI in front of the terminal program.             *)
EXTENDS Naturals, Sequences, FiniteSets, SequencesExt

CONSTANTS
    Hits,        \* results of workers, sent while the context lives
    SideHits,    \* results of auxiliary tasks, sent without blocking
    Logs,        \* log events
    ResultsCap, TuiCap, LogCap  \* capacities of Results, tuiCh and the log channels

ASSUME PipeAssumption ==
    /\ IsFiniteSet(Hits) /\ IsFiniteSet(SideHits)
    /\ ResultsCap \in Nat /\ TuiCap \in Nat /\ LogCap \in Nat

VARIABLES
    tuiMode,     \* runTUI rather than runPlain
    sender,      \* each result: "todo", "done" (sent), "lost" (given up or dropped)
    logTodo,     \* log events nobody emitted yet
    results, resultsShut,     \* eng.Results
    logs, logsShut,           \* eng.LogEvents
    tuiCh, tuiShut,           \* the channel of the terminal program
    ctxDone,     \* the scan context was cancelled
    shutPc,      \* Shutdown: "idle", "cancelled", "logs", "done"
    fan,         \* the reader: "run", "show" (a result still to pass on), "end"
    inFan,       \* the result it passes on
    screen,      \* the terminal program: "run", "quit", "end"
    written,     \* results in the output file
    tuiDropped   \* TUIDropped

pipeVars == <<tuiMode, sender, logTodo, results, resultsShut, logs, logsShut, tuiCh, tuiShut,
              ctxDone, shutPc, fan, inFan, screen, written, tuiDropped>>
engineVars == <<sender, logTodo, ctxDone, tuiMode>>
channelVars == <<results, resultsShut, logs, logsShut>>
outVars == <<tuiCh, tuiShut, fan, inFan, screen, written>>

PipeInit ==
    /\ tuiMode \in BOOLEAN
    /\ sender = [r \in Hits \union SideHits |-> "todo"] /\ logTodo = Logs
    /\ results = <<>> /\ resultsShut = FALSE /\ logs = <<>> /\ logsShut = FALSE
    /\ tuiCh = <<>> /\ tuiShut = FALSE /\ ctxDone = FALSE /\ shutPc = "idle"
    /\ fan = "run" /\ inFan = <<>> /\ screen = "run" /\ written = <<>> /\ tuiDropped = 0

Send(r) ==
    /\ Len(results) < ResultsCap
    /\ results' = Append(results, r) /\ sender' = [sender EXCEPT ![r] = "done"]
    /\ UNCHANGED tuiDropped

(* A worker blocks until there is room or its context ends; with both ready  *)
(* either may happen.                                                        *)
handleResultWithContext(r) ==
    /\ r \in Hits /\ sender[r] = "todo"
    /\ \/ Send(r)
       \/ /\ ctxDone /\ sender' = [sender EXCEPT ![r] = "lost"]
          /\ UNCHANGED <<results, tuiDropped>>
    /\ UNCHANGED <<tuiMode, logTodo, ctxDone, resultsShut, logs, logsShut, shutPc, outVars>>

handleResultNonBlocking(r) ==
    /\ r \in SideHits /\ sender[r] = "todo"
    /\ \/ Send(r)
       \/ /\ Len(results) = ResultsCap
          /\ sender' = [sender EXCEPT ![r] = "lost"] /\ tuiDropped' = tuiDropped + 1
          /\ UNCHANGED results
    /\ UNCHANGED <<tuiMode, logTodo, ctxDone, resultsShut, logs, logsShut, shutPc, outVars>>

(* emitLogEvent drops what does not fit and recovers from a closed channel.  *)
emitLogEvent ==
    \E l \in logTodo :
        /\ logTodo' = logTodo \ {l}
        /\ logs' = IF ~logsShut /\ Len(logs) < LogCap THEN Append(logs, l) ELSE logs
        /\ UNCHANGED <<sender, tuiMode, ctxDone, results, resultsShut, logsShut, shutPc, outVars,
                       tuiDropped>>

AllSent == \A r \in Hits \union SideHits : sender[r] # "todo"

(* Shutdown: cancel, wait for everybody who sends, close the two channels.   *)
ShutdownCancel(by) ==
    /\ by /\ shutPc = "idle"
    /\ ctxDone' = TRUE /\ shutPc' = "cancelled"
    /\ UNCHANGED <<sender, logTodo, tuiMode, channelVars, outVars, tuiDropped>>

ShutdownClose ==
    /\ \/ shutPc = "cancelled" /\ AllSent /\ shutPc' = "logs"
          /\ logsShut' = TRUE /\ UNCHANGED resultsShut
       \/ shutPc = "logs" /\ shutPc' = "done" /\ resultsShut' = TRUE /\ UNCHANGED logsShut
    /\ UNCHANGED <<engineVars, results, logs, outVars, tuiDropped>>

(* runPlain: eng.Wait then Shutdown in a goroutine of its own.  runTUI: the  *)
(* user quits, Shutdown follows; -max-duration may end either at any time.   *)
WaitDone == ~tuiMode /\ AllSent
QuitScreen ==
    /\ tuiMode /\ screen = "run" /\ screen' = "quit"
    /\ UNCHANGED <<engineVars, channelVars, shutPc, tuiCh, tuiShut, fan, inFan, written, tuiDropped>>

FanResult ==
    /\ fan = "run" /\ results # <<>>
    /\ results' = Tail(results) /\ written' = Append(written, Head(results))
    /\ IF tuiMode THEN fan' = "show" /\ inFan' = <<Head(results)>> ELSE UNCHANGED <<fan, inFan>>
    /\ UNCHANGED <<engineVars, resultsShut, logs, logsShut, shutPc, tuiCh, tuiShut, screen, tuiDropped>>

FanShowBlocks ==
    /\ fan = "show" /\ fan' = "run" /\ inFan' = <<>>
    /\ Len(tuiCh) < TuiCap /\ tuiCh' = Append(tuiCh, Head(inFan)) /\ UNCHANGED tuiDropped
    /\ UNCHANGED <<engineVars, channelVars, shutPc, tuiShut, screen, written>>

FanShow ==
    /\ fan = "show" /\ fan' = "run" /\ inFan' = <<>>
    /\ IF Len(tuiCh) < TuiCap THEN tuiCh' = Append(tuiCh, Head(inFan)) /\ UNCHANGED tuiDropped
       ELSE tuiDropped' = tuiDropped + 1 /\ UNCHANGED tuiCh
    /\ UNCHANGED <<engineVars, channelVars, shutPc, tuiShut, screen, written>>

(* Log events reach a channel of their own, or are dropped; runPlain never   *)
(* reads them.                                                               *)
FanLog ==
    /\ tuiMode /\ fan = "run" /\ logs # <<>> /\ logs' = Tail(logs)
    /\ UNCHANGED <<engineVars, results, resultsShut, logsShut, shutPc, outVars, tuiDropped>>

FanMayEndEarly == resultsShut

FanMayEnd == resultsShut /\ results = <<>> /\ (tuiMode => logsShut /\ logs = <<>>)

FanEnd ==
    /\ fan = "run" /\ FanMayEnd
    /\ fan' = "end" /\ tuiShut' = tuiMode
    /\ UNCHANGED <<engineVars, channelVars, shutPc, tuiCh, inFan, screen, written, tuiDropped>>

ScreenRead ==
    /\ tuiMode /\ screen = "run" /\ tuiCh # <<>> /\ tuiCh' = Tail(tuiCh)
    /\ UNCHANGED <<engineVars, channelVars, shutPc, tuiShut, fan, inFan, screen, written, tuiDropped>>

(* The program returns once Shutdown and the reader are through.             *)
Finished == shutPc = "done" /\ fan = "end"
RunReturns ==
    /\ Finished /\ screen # "end" /\ (tuiMode => screen = "quit") /\ screen' = "end"
    /\ UNCHANGED <<engineVars, channelVars, shutPc, tuiCh, tuiShut, fan, inFan, written, tuiDropped>>

Reader == FanResult \/ FanShow \/ FanLog \/ FanEnd
Stopper == ShutdownCancel(WaitDone \/ screen = "quit") \/ ShutdownClose \/ RunReturns
Sender(r) == handleResultWithContext(r) \/ handleResultNonBlocking(r)

PipeNext ==
    \/ \E r \in Hits \union SideHits : Sender(r)
    \/ emitLogEvent \/ Reader \/ Stopper \/ ShutdownCancel(TRUE) \/ QuitScreen \/ ScreenRead

PipeTypeOK ==
    /\ Len(results) <= ResultsCap /\ Len(logs) <= LogCap /\ Len(tuiCh) <= TuiCap
    /\ tuiDropped \in 0..(2 * Cardinality(Hits \union SideHits))
    /\ fan \in {"run", "show", "end"} /\ shutPc \in {"idle", "cancelled", "logs", "done"}

(* When the program returns, the output file holds exactly the results that  *)
(* entered the Results channel, each once: nothing is left in a closed       *)
(* channel, whatever the screen did and whoever called Shutdown.             *)
PipeWritesAll ==
    screen = "end" =>
        /\ Range(written) = {r \in Hits \union SideHits : sender[r] = "done"}
        /\ IsInjective(written)

(* The file and the channels are as the summary of a scan relies on.         *)
PipeSound == PipeTypeOK /\ PipeWritesAll

(* Once the user quits or everything was sent, the program returns, although *)
(* nobody reads the screen's channel any more.                               *)
PipeEnds == (screen = "quit" \/ WaitDone) ~> (screen = "end")

(* What the header comment of runTUI says of the output file: it receives    *)
(* every result, never dropped.  A worker may give a result up when the scan  *)
(* is cancelled; an auxiliary task has no such excuse.                       *)
FileGetsEveryResult ==
    screen = "end" => SideHits \subseteq Range(written)
=============================================================================

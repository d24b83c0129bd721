------------------------------- MODULE Resume --------------------------------
(* Resume files (pkg/engine/engine_resume.go) and the wordlist scanner that  *)
(* writes them (StartWordlistScanner): a line number every 30 seconds, the   *)
(* line number and the dump of the filter of seen requests when the scan is  *)
(* cancelled.  os.WriteFile truncates and then writes, so a crash may leave  *)
(* a torn file; LoadResumeState refuses one.  A scan may be interrupted and  *)
(* resumed, or started afresh over the old files, any number of times.       *)
EXTENDS Naturals, FiniteSets

CONSTANTS
    NumLines,    \* lines of the wordlist, each one request
    MaxRuns      \* bound: starts of the program

ASSUME ResumeAssumption == NumLines \in Nat /\ MaxRuns \in Nat

VARIABLES
    up,          \* the scanner: "down", "next", "line", "saving", "dump", "dumping", "exit"
    afterSave,   \* where the scanner goes when the line file is written
    lineNum,     \* lines read
    startLine,   \* line of the resumed state
    filter,      \* shardedFilter
    waiting,     \* queued lines
    ended,       \* the context was cancelled
    lineFile,    \* the resume file: [set, torn, line]
    bloomFile,   \* the filter dump: [set, torn, seen]
    runs,        \* starts so far
    requested,   \* history: lines that were requested
    offered,     \* history: lines handed to Submit
    pushed,      \* history: how often a line was queued
    inHand,      \* history: lines a periodic save named before they were submitted
    clean        \* history: one fresh start, only complete graceful stops since

resumeVars == <<up, afterSave, lineNum, startLine, filter, waiting, ended, lineFile, bloomFile,
                runs, requested, offered, pushed, inHand, clean>>
fileVars == <<lineFile, bloomFile>>
historyVars == <<requested, offered, pushed, inHand>>

Lines == 1..NumLines

ResumeInit ==
    /\ up = "down" /\ afterSave = "exit" /\ lineNum = 0 /\ startLine = 0
    /\ filter = {} /\ waiting = {} /\ ended = FALSE
    /\ lineFile = [set |-> FALSE, torn |-> FALSE, line |-> 0]
    /\ bloomFile = [set |-> FALSE, torn |-> FALSE, seen |-> {}]
    /\ runs = 0 /\ requested = {} /\ offered = {}
    /\ pushed = [l \in Lines |-> 0] /\ inHand = {} /\ clean = TRUE

Launch(from, seenThen) ==
    /\ up = "down" /\ runs < MaxRuns
    /\ up' = "next" /\ lineNum' = 0 /\ startLine' = from /\ filter' = seenThen
    /\ waiting' = {} /\ ended' = FALSE /\ runs' = runs + 1
    /\ UNCHANGED <<afterSave, lineFile, bloomFile>>

(* A scan without -resume keeps whatever files lie there.                    *)
StartAfresh ==
    /\ Launch(0, {})
    /\ clean' = (runs = 0)
    /\ UNCHANGED historyVars

RestoredFilter == bloomFile.seen

(* LoadResumeState: a missing dump is no error, a torn file of either kind   *)
(* is, and the program ends.                                                 *)
LoadResumeState ==
    /\ lineFile.set /\ ~lineFile.torn /\ ~bloomFile.torn
    /\ Launch(lineFile.line, RestoredFilter)
    /\ UNCHANGED <<historyVars, clean>>

(* The end of the list, or the next line, which a due tick saves first.      *)
ScanLine ==
    /\ up = "next" /\ ~ended /\ lineNum < NumLines
    /\ lineNum' = lineNum + 1
    /\ \/ up' = "line" /\ UNCHANGED <<afterSave, lineFile, inHand>>
       \/ /\ up' = "saving" /\ afterSave' = "line"
          /\ lineFile' = [lineFile EXCEPT !.set = TRUE, !.torn = TRUE]
          /\ inHand' = inHand \union {lineNum'}
    /\ UNCHANGED <<startLine, filter, waiting, ended, bloomFile, runs, requested, offered, pushed, clean>>

ScanEnds ==
    /\ up = "next" /\ ~ended /\ lineNum = NumLines /\ waiting = {}
    /\ up' = "down"
    /\ clean' = FALSE    \* the files, if any, are older than this scan's end
    /\ UNCHANGED <<afterSave, lineNum, startLine, filter, waiting, ended, fileVars, runs, historyVars>>

Cancelled ==
    /\ up = "next" /\ ended
    /\ up' = "saving" /\ afterSave' = "dump"
    /\ lineFile' = [lineFile EXCEPT !.set = TRUE, !.torn = TRUE]
    /\ UNCHANGED <<lineNum, startLine, filter, waiting, ended, bloomFile, runs, historyVars, clean>>

SavedLineAhead == lineNum + 1

SavedLine == lineNum

SaveLine ==
    /\ up = "saving"
    /\ lineFile' = [set |-> TRUE, torn |-> FALSE, line |-> SavedLine]
    /\ up' = afterSave
    /\ UNCHANGED <<afterSave, lineNum, startLine, filter, waiting, ended, bloomFile, runs,
                   historyVars, clean>>

saveBloomResumeState ==
    /\ \/ /\ up = "dump" /\ up' = "dumping"
          /\ bloomFile' = [bloomFile EXCEPT !.set = TRUE, !.torn = TRUE]
       \/ /\ up = "dumping" /\ up' = "exit"
          /\ bloomFile' = [set |-> TRUE, torn |-> FALSE, seen |-> filter]
    /\ UNCHANGED <<afterSave, lineNum, startLine, filter, waiting, ended, lineFile, runs, historyVars, clean>>

Exit ==
    /\ up = "exit" /\ up' = "down" /\ waiting' = {}
    /\ UNCHANGED <<afterSave, lineNum, startLine, filter, ended, fileVars, runs, historyVars, clean>>

Skips == lineNum <= startLine

(* Submit marks the line in the filter before it looks at the context: a     *)
(* line that races with the cancellation is marked and dropped.              *)
SubmitLine ==
    /\ up = "line"
    /\ IF Skips THEN UNCHANGED <<filter, waiting, offered, pushed>>
       ELSE /\ offered' = offered \union {lineNum}
            /\ filter' = filter \union {lineNum}
            /\ IF lineNum \in filter \/ ended THEN UNCHANGED <<waiting, pushed>>
               ELSE /\ waiting' = waiting \union {lineNum}
                    /\ pushed' = [pushed EXCEPT ![lineNum] = @ + 1]
    /\ up' = "next"
    /\ UNCHANGED <<afterSave, lineNum, startLine, ended, fileVars, runs, requested, inHand, clean>>

(* A worker requests a queued line; a cancelled one throws it away.          *)
Work ==
    \E l \in waiting :
        /\ waiting' = waiting \ {l}
        /\ requested' = IF ended THEN requested ELSE requested \union {l}
        /\ UNCHANGED <<up, afterSave, lineNum, startLine, filter, ended, fileVars, runs, offered,
                       pushed, inHand, clean>>

Interrupt ==
    /\ up \notin {"down", "exit"} /\ ~ended /\ ended' = TRUE
    /\ UNCHANGED <<up, afterSave, lineNum, startLine, filter, waiting, fileVars, runs, historyVars, clean>>

Crash ==
    /\ up # "down" /\ up' = "down" /\ waiting' = {} /\ clean' = FALSE
    /\ UNCHANGED <<afterSave, lineNum, startLine, filter, ended, fileVars, runs, historyVars>>

ResumeNext ==
    \/ StartAfresh \/ LoadResumeState \/ ScanLine \/ ScanEnds \/ Cancelled \/ SaveLine
    \/ saveBloomResumeState \/ Exit \/ SubmitLine \/ Work \/ Interrupt \/ Crash

ResumeTypeOK ==
    /\ up \in {"down", "next", "line", "saving", "dump", "dumping", "exit"}
    /\ lineNum \in Nat /\ startLine \in Nat /\ lineFile.line \in Nat
    /\ filter \subseteq Lines /\ waiting \subseteq filter /\ bloomFile.seen \subseteq Lines

(* A resumed scan that reads the whole list misses nothing without a trace:  *)
(* a line it leaves out was handed to Submit by an earlier scan (queued or   *)
(* cancelled there), or was the one line a periodic save named too early.    *)
(* A crash between any two of the writes changes nothing about that.         *)
ResumeMissesNothing ==
    up = "next" /\ lineNum = NumLines =>
        \A l \in Lines : l \in offered \/ l \in inHand

(* While every interruption was a complete graceful stop, no line is queued  *)
(* twice, even when a scan is stopped again before it reaches the line it    *)
(* resumes from and so saves a smaller one: the filter dump covers the gap.  *)
ResumeExactlyOnce == clean => \A l \in Lines : pushed[l] <= 1

(* An interrupted scan can be resumed as if it had not been interrupted.     *)
ResumeSound == ResumeTypeOK /\ ResumeMissesNothing /\ ResumeExactlyOnce
=============================================================================

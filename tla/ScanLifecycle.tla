--------------------------- MODULE ScanLifecycle ----------------------------
(* The life of a scan in pkg/engine: the wordlist scanner, the workers, the  *)
(* recursive branches and auxiliary tasks they spawn, Submit's admission     *)
(* gate, and the three calls that must agree about when work is finished:    *)
(* Wait, ChangeWordlist (Restart) and Shutdown.                              *)
(*                                                                           *)
(* The goroutines share three WaitGroups (activeJobs, scannerWg,             *)
(* submissionWg), the scanner context, the RunID, the job queue (here by its *)
(* contract: JobQueue shows that the real queue implements it) and the       *)
(* Results channel.  A context is named by the generation it was made for;   *)
(* 0 is the already cancelled sentinel that a restart installs.              *)
EXTENDS Naturals, Sequences, FiniteSets

CONSTANTS Workers,        \* the worker goroutines
          Tasks,          \* names for recursive branches and auxiliary tasks
          Scanner,        \* the wordlist scanner goroutine
          NumWords,       \* lines in the wordlist (one job per line)
          MaxDepth,       \* Config.MaxDepth
          QueueCap,       \* capacity of e.jobs
          ResultsCap,     \* capacity of e.Results
          MaxRecursions,  \* MaxConcurrentRecursions
          MaxRun,         \* bound: last RunID a restart may reach
          Features,       \* configured features, see below
          UserActs        \* what the user does, see below

(* Features: "spider" (a worker submits links it found, or a feedback job,   *)
(* before publishing), "mutate" (it submits mutations after publishing),     *)
(* "recurse" (hits spawn branches), "aux" (source-map and 403-bypass tasks), *)
(* "ioerror" (the wordlist may fail to open or to read).                     *)
(* UserActs: "pause"; "restart"; "stop" (Shutdown at any time: a signal, the *)
(* end of the TUI, -max-duration); "finish" (Shutdown after Wait, runPlain). *)
ASSUME LifecycleAssumption ==
    /\ IsFiniteSet(Workers) /\ IsFiniteSet(Tasks)
    /\ NumWords \in Nat /\ MaxDepth \in Nat
    /\ QueueCap \in Nat \ {0}
    /\ ResultsCap \in Nat
    /\ MaxRecursions \in Nat \ {0}
    /\ MaxRun \in Nat \ {0}
    /\ Features \subseteq {"spider", "mutate", "recurse", "aux", "ioerror"}
    /\ UserActs \subseteq {"pause", "restart", "stop", "finish"}
    /\ Scanner \notin Workers \union Tasks
    /\ Workers \intersect Tasks = {}

VARIABLES runID,        \* e.RunID
          restarting,   \* e.restarting
          ctx,          \* e.scannerCtx: generation of the current context
          cancelled,    \* the contexts that are cancelled
          queue,        \* e.jobs
          queueClosed,  \* e.jobs is closed
          filter,       \* e.shardedFilter: the paths submitted so far
          activeJobs,   \* e.activeJobs
          scannerWg,    \* e.scannerWg
          submissionWg, \* e.submissionWg
          results,      \* number of results in e.Results
          chansClosed,  \* which of "replay", "results" Shutdown has closed
          paused,       \* IsPaused in the config snapshot
          sub,          \* sub[t]: the Submit call goroutine t is in
          wk,           \* wk[w]: worker w
          scan,         \* the wordlist scanner
          tk,           \* tk[b]: branch or auxiliary task b
          cw,           \* where ChangeWordlist is
          sd,           \* where Shutdown is
          wt,           \* where Wait is
          tested        \* history: jobs whose request was made since the filter was reset

gateVars == <<runID, restarting, ctx, cancelled>>
wgVars == <<activeJobs, scannerWg, submissionWg>>
queueVars == <<queue, queueClosed>>
chanVars == <<results, chansClosed>>
callVars == <<cw, sd, wt>>
vars == <<gateVars, queueVars, filter, wgVars, chanVars, paused,
          sub, wk, scan, tk, callVars, tested>>

Threads == Workers \union Tasks \union {Scanner}

(* A path is the sequence of the words it is made of.  Paths that an exclude *)
(* pattern matches are left out: Submit returns before it does anything.     *)
Word == 1..NumWords
Path == UNION {[1..d -> Word] : d \in 1..(MaxDepth + 1)}
Job == [path : Path, run : 1..MaxRun]

Cancelled(c) == c \in cancelled
-----------------------------------------------------------------------------
(* Goroutine states.                                                         *)
NoCall == [stage |-> "none"]
Running(t) == sub[t] = NoCall

Popping == [pc |-> "pop"]
Exited == [pc |-> "exit"]
Off == [pc |-> "off"]
NewScan(c, r) == [pc |-> "open", ctx |-> c, run |-> r, next |-> 1]

(* The state after Start and KickoffScanner, with the caller inside Wait.    *)
Init ==
    /\ runID = 1
    /\ restarting = FALSE
    /\ ctx = 1
    /\ cancelled = {0}
    /\ queue = {}
    /\ queueClosed = FALSE
    /\ filter = {}
    /\ activeJobs = 0
    /\ scannerWg = 1
    /\ submissionWg = 0
    /\ results = 0
    /\ chansClosed = {}
    /\ paused = FALSE
    /\ sub = [t \in Threads |-> NoCall]
    /\ wk = [w \in Workers |-> Popping]
    /\ scan = NewScan(1, 1)
    /\ tk = [b \in Tasks |-> Off]
    /\ cw = "idle"
    /\ sd = "idle"
    /\ wt = "scanners"
    /\ tested = {}
-----------------------------------------------------------------------------
(* Submit, called by scanner, workers and tasks.  Call starts it; the steps  *)
(* below are its gate, filter, context and push sections.                    *)
Call(t, p, r) ==
    sub' = [sub EXCEPT ![t] = [stage |-> "gate", job |-> [path |-> p, run |-> r]]]

Return(t) == sub' = [sub EXCEPT ![t] = NoCall]

SubmitRejected(t) ==
    /\ sub[t].stage = "gate"
    /\ restarting \/ sub[t].job.run # runID
    /\ Return(t)
    /\ UNCHANGED <<submissionWg>>

SubmitAdmitted(t) ==
    /\ sub[t].stage = "gate"
    /\ ~restarting /\ sub[t].job.run = runID
    /\ submissionWg' = submissionWg + 1
    /\ sub' = [sub EXCEPT ![t].stage = "filter"]

(* e.submissionMu section.                                                   *)
SubmitGate(t) ==
    /\ SubmitRejected(t) \/ SubmitAdmitted(t)
    /\ UNCHANGED <<gateVars, queueVars, filter, activeJobs, scannerWg, chanVars, paused,
                   wk, scan, tk, callVars, tested>>

(* TestAndAddString: a path goes through once per generation.                *)
SubmitFilter(t) ==
    /\ sub[t].stage = "filter"
    /\ \/ /\ sub[t].job.path \in filter
          /\ Return(t)
          /\ submissionWg' = submissionWg - 1
          /\ UNCHANGED filter
       \/ /\ sub[t].job.path \notin filter
          /\ filter' = filter \union {sub[t].job.path}
          /\ sub' = [sub EXCEPT ![t].stage = "ctx"]
          /\ UNCHANGED submissionWg
    /\ UNCHANGED <<gateVars, queueVars, activeJobs, scannerWg, chanVars, paused,
                   wk, scan, tk, callVars, tested>>

(* The context is loaded and tested; the job is reserved before the Push.    *)
SubmitReserve(t) ==
    /\ sub[t].stage = "ctx"
    /\ \/ /\ Cancelled(ctx)
          /\ Return(t)
          /\ submissionWg' = submissionWg - 1
          /\ UNCHANGED activeJobs
       \/ /\ ~Cancelled(ctx)
          /\ activeJobs' = activeJobs + 1
          /\ sub' = [sub EXCEPT ![t] = [stage |-> "push", job |-> sub[t].job, ctx |-> ctx]]
          /\ UNCHANGED submissionWg
    /\ UNCHANGED <<gateVars, queueVars, filter, scannerWg, chanVars, paused,
                   wk, scan, tk, callVars, tested>>

QueueHasRoom == Cardinality(queue) < QueueCap

(* Mutant: a failed Push does not give its reservation back.                 *)
SubmitPushLeaks(t) ==
    /\ sub[t].stage \in {"push", "blocked"}
    /\ \/ /\ ~queueClosed /\ QueueHasRoom
          /\ queue' = queue \union {sub[t].job}
          /\ Return(t)
          /\ submissionWg' = submissionWg - 1
       \/ /\ ~queueClosed /\ ~QueueHasRoom /\ sub[t].stage = "push"
          /\ sub' = [sub EXCEPT ![t].stage = "blocked"]
          /\ UNCHANGED <<queue, submissionWg>>
       \/ /\ queueClosed \/ (sub[t].stage = "blocked" /\ Cancelled(sub[t].ctx))
          /\ Return(t)
          /\ submissionWg' = submissionWg - 1
          /\ UNCHANGED queue
    /\ UNCHANGED <<gateVars, queueClosed, filter, activeJobs, scannerWg, chanVars, paused,
                   wk, scan, tk, callVars, tested>>

(* Mutant: a Push that finds the queue full gives up.                        *)
SubmitPushDropsWhenFull(t) ==
    /\ sub[t].stage = "push"
    /\ \/ /\ ~queueClosed /\ QueueHasRoom
          /\ queue' = queue \union {sub[t].job}
          /\ UNCHANGED activeJobs
       \/ /\ queueClosed \/ ~QueueHasRoom
          /\ activeJobs' = activeJobs - 1
          /\ UNCHANGED queue
    /\ Return(t)
    /\ submissionWg' = submissionWg - 1
    /\ UNCHANGED <<gateVars, queueClosed, filter, scannerWg, chanVars, paused,
                   wk, scan, tk, callVars, tested>>

(* e.jobs.Push by its contract: a Push that finds room ignores its context;  *)
(* one that found the queue full waits for room, cancellation or close.      *)
SubmitPush(t) ==
    /\ sub[t].stage \in {"push", "blocked"}
    /\ \/ /\ ~queueClosed /\ QueueHasRoom
          /\ queue' = queue \union {sub[t].job}
          /\ Return(t)
          /\ submissionWg' = submissionWg - 1
          /\ UNCHANGED activeJobs
       \/ /\ ~queueClosed /\ ~QueueHasRoom /\ sub[t].stage = "push"
          /\ sub' = [sub EXCEPT ![t].stage = "blocked"]
          /\ UNCHANGED <<queue, activeJobs, submissionWg>>
       \/ /\ queueClosed \/ (sub[t].stage = "blocked" /\ Cancelled(sub[t].ctx))
          /\ Return(t)
          /\ activeJobs' = activeJobs - 1
          /\ submissionWg' = submissionWg - 1
          /\ UNCHANGED queue
    /\ UNCHANGED <<gateVars, queueClosed, filter, scannerWg, chanVars, paused,
                   wk, scan, tk, callVars, tested>>

Submit(t) == SubmitGate(t) \/ SubmitFilter(t) \/ SubmitReserve(t) \/ SubmitPush(t)
-----------------------------------------------------------------------------
(* A send on e.Results.                                                      *)
ResultsHasRoom == results < ResultsCap
Publish == ResultsHasRoom /\ results' = results + 1 /\ UNCHANGED chansClosed

(* StartWordlistScanner.                                                     *)
ScanOpen ==
    /\ scan.pc = "open"
    /\ \/ scan' = [scan EXCEPT !.pc = "line"]
       \/ "ioerror" \in Features /\ scan' = [scan EXCEPT !.pc = "publish"]
    /\ UNCHANGED <<gateVars, queueVars, filter, wgVars, chanVars, paused,
                   sub, wk, tk, callVars, tested>>

ScanLine ==
    /\ scan.pc = "line" /\ Running(Scanner)
    /\ scan.next <= NumWords
    /\ ~Cancelled(scan.ctx) /\ ~paused
    /\ Call(Scanner, <<scan.next>>, scan.run)
    /\ scan' = [scan EXCEPT !.next = @ + 1]
    /\ UNCHANGED <<gateVars, queueVars, filter, wgVars, chanVars, paused,
                   wk, tk, callVars, tested>>

(* The end of the list, a cancelled context (in the pause loop too), a read  *)
(* error.                                                                    *)
ScanEnd ==
    /\ scan.pc = "line" /\ Running(Scanner)
    /\ \/ /\ scan.next > NumWords \/ Cancelled(scan.ctx)
          /\ scan' = Off
          /\ scannerWg' = scannerWg - 1
       \/ /\ "ioerror" \in Features
          /\ scan' = [scan EXCEPT !.pc = "publish"]
          /\ UNCHANGED scannerWg
    /\ UNCHANGED <<gateVars, queueVars, filter, activeJobs, submissionWg, chanVars, paused,
                   sub, wk, tk, callVars, tested>>

(* The error message goes through handleResultWithContext.                   *)
ScanPublish ==
    /\ scan.pc = "publish"
    /\ \/ Publish
       \/ Cancelled(scan.ctx) /\ UNCHANGED chanVars
    /\ scan' = Off
    /\ scannerWg' = scannerWg - 1
    /\ UNCHANGED <<gateVars, queueVars, filter, activeJobs, submissionWg, paused,
                   sub, wk, tk, callVars, tested>>

ScannerStep == ScanOpen \/ ScanLine \/ ScanEnd \/ ScanPublish
-----------------------------------------------------------------------------
(* A worker: one job from Pop to activeJobs.Done.                            *)
Goto(w, label) == wk' = [wk EXCEPT ![w].pc = label]

JobDone == activeJobs' = activeJobs - 1

(* Deeper paths that a job may submit: links, mutations, harvested routes.   *)
Children(path) == IF Len(path) <= MaxDepth THEN {Append(path, n) : n \in Word} ELSE {}

(* What a response makes the worker submit: any of the paths below its own.  *)
Found(path, feature) == IF feature \in Features THEN SUBSET Children(path) ELSE {{}}

(* A closed queue still hands out what it holds.                             *)
WorkerPop(w) ==
    /\ wk[w].pc = "pop"
    /\ \/ \E j \in queue :
             /\ queue' = queue \ {j}
             /\ wk' = [wk EXCEPT ![w] = [pc |-> "check", job |-> j]]
       \/ /\ queue = {} /\ queueClosed
          /\ wk' = [wk EXCEPT ![w] = Exited]
          /\ UNCHANGED queue
    /\ UNCHANGED <<gateVars, queueClosed, filter, wgVars, chanVars, paused,
                   sub, scan, tk, callVars, tested>>

(* A job of an earlier generation is discarded.                              *)
WorkerCheck(w) ==
    /\ wk[w].pc = "check"
    /\ \/ /\ wk[w].job.run # runID
          /\ JobDone
          /\ wk' = [wk EXCEPT ![w] = Popping]
       \/ /\ wk[w].job.run = runID
          /\ Goto(w, "load")
          /\ UNCHANGED activeJobs
    /\ UNCHANGED <<gateVars, queueVars, filter, scannerWg, submissionWg, chanVars, paused,
                   sub, scan, tk, callVars, tested>>

(* limiter.Wait fails at once on a context that is cancelled already.        *)
PassLimiter(w, c) ==
    \/ /\ ~Cancelled(c)
       /\ wk' = [wk EXCEPT ![w] = [pc |-> "request", job |-> wk[w].job, ctx |-> c]]
       /\ UNCHANGED activeJobs
    \/ /\ Cancelled(c)
       /\ JobDone
       /\ wk' = [wk EXCEPT ![w] = Popping]

(* The config snapshot and the scanner context are loaded.                   *)
WorkerLoad(w) ==
    /\ wk[w].pc = "load"
    /\ \/ ~paused /\ PassLimiter(w, ctx)
       \/ /\ paused
          /\ wk' = [wk EXCEPT ![w] = [pc |-> "paused", job |-> wk[w].job, ctx |-> ctx]]
          /\ UNCHANGED activeJobs
    /\ UNCHANGED <<gateVars, queueVars, filter, scannerWg, submissionWg, chanVars, paused,
                   sub, scan, tk, callVars, tested>>

(* The pause loop: cancellation ends the job and the worker goroutine.       *)
WorkerPaused(w) ==
    /\ wk[w].pc = "paused"
    /\ \/ ~paused /\ PassLimiter(w, wk[w].ctx)
       \/ /\ Cancelled(wk[w].ctx)
          /\ JobDone
          /\ wk' = [wk EXCEPT ![w] = Exited]
    /\ UNCHANGED <<gateVars, queueVars, filter, scannerWg, submissionWg, chanVars, paused,
                   sub, scan, tk, callVars, tested>>

(* Any request may fail; a context that is cancelled meanwhile may stop the  *)
(* worker before it makes the request.                                       *)
WorkerError(w) ==
    /\ wk[w].pc = "request"
    /\ \/ Cancelled(wk[w].ctx) /\ UNCHANGED tested
       \/ tested' = tested \union {wk[w].job}
    /\ JobDone
    /\ wk' = [wk EXCEPT ![w] = Popping]
    /\ UNCHANGED <<gateVars, queueVars, filter, scannerWg, submissionWg, chanVars, paused,
                   sub, scan, tk, callVars>>

(* schedule403BypassTask and scheduleSourceMapHarvest, on a response: they   *)
(* reserve activeJobs while the parent job is still counted.                 *)
WorkerSchedule(w, b) ==
    /\ wk[w].pc = "request"
    /\ "aux" \in Features
    /\ tk[b] = Off
    /\ tested' = tested \union {wk[w].job}
    /\ activeJobs' = activeJobs + 1
    /\ \E routes \in Found(wk[w].job.path, "aux") :
         tk' = [tk EXCEPT ![b] = [pc |-> "aux", run |-> wk[w].job.run, todo |-> routes]]
    /\ Goto(w, "filters")
    /\ UNCHANGED <<gateVars, queueVars, filter, scannerWg, submissionWg, chanVars, paused,
                   sub, scan, callVars>>

(* applyFilters, the auto-filter or the mirror check drops the response; the *)
(* auto-filter may announce itself with a send that does not block.          *)
WorkerFiltered(w) ==
    /\ wk[w].pc \in {"request", "filters"}
    /\ tested' = tested \union {wk[w].job}
    /\ Publish \/ UNCHANGED chanVars
    /\ JobDone
    /\ wk' = [wk EXCEPT ![w] = Popping]
    /\ UNCHANGED <<gateVars, queueVars, filter, scannerWg, submissionWg, paused,
                   sub, scan, tk, callVars>>

(* A hit: links, harvested paths and feedback jobs are submitted first.      *)
WorkerHit(w) ==
    /\ wk[w].pc \in {"request", "filters"}
    /\ tested' = tested \union {wk[w].job}
    /\ \E links \in Found(wk[w].job.path, "spider") :
         wk' = [wk EXCEPT ![w] = [pc |-> "links", job |-> wk[w].job, ctx |-> wk[w].ctx,
                                  todo |-> links]]
    /\ UNCHANGED <<gateVars, queueVars, filter, wgVars, chanVars, paused,
                   sub, scan, tk, callVars>>

(* One Submit after the other: links carry the job's RunID, feedback jobs    *)
(* the RunID that is current when processFeedbackLoop runs.                  *)
WorkerLink(w) ==
    /\ wk[w].pc = "links" /\ Running(w)
    /\ \E p \in wk[w].todo, r \in {wk[w].job.run, runID} :
         /\ Call(w, p, r)
         /\ wk' = [wk EXCEPT ![w].todo = @ \ {p}]
    /\ UNCHANGED <<gateVars, queueVars, filter, wgVars, chanVars, paused,
                   scan, tk, callVars, tested>>

(* handleResultWithContext.  When the context wins the select, the worker    *)
(* goroutine ends.                                                           *)
WorkerPublish(w) ==
    /\ wk[w].pc = "links" /\ Running(w) /\ wk[w].todo = {}
    /\ \/ /\ Publish
          /\ \E mutations \in Found(wk[w].job.path, "mutate") :
               wk' = [wk EXCEPT ![w].pc = "children", ![w].todo = mutations]
          /\ UNCHANGED activeJobs
       \/ /\ Cancelled(wk[w].ctx)
          /\ JobDone
          /\ wk' = [wk EXCEPT ![w] = Exited]
          /\ UNCHANGED chanVars
    /\ UNCHANGED <<gateVars, queueVars, filter, scannerWg, submissionWg, paused,
                   sub, scan, tk, callVars, tested>>

(* Smart mutation.                                                           *)
WorkerMutate(w) ==
    /\ wk[w].pc = "children" /\ Running(w)
    /\ \E p \in wk[w].todo :
         /\ Call(w, p, wk[w].job.run)
         /\ wk' = [wk EXCEPT ![w].todo = @ \ {p}]
    /\ UNCHANGED <<gateVars, queueVars, filter, wgVars, chanVars, paused,
                   scan, tk, callVars, tested>>

(* ProcessHit: prune, or reserve activeJobs and scannerWg and launch         *)
(* scanBranch with the context that is current now.                          *)
ProcessHit(w, b) ==
    /\ "recurse" \in Features
    /\ Len(wk[w].job.path) <= MaxDepth
    /\ tk[b] = Off
    /\ activeJobs' = activeJobs + 1
    /\ scannerWg' = scannerWg + 1
    /\ tk' = [tk EXCEPT ![b] = [pc |-> "sem", base |-> wk[w].job.path,
                               run |-> wk[w].job.run, ctx |-> ctx, next |-> 1]]

WorkerRecurse(w) ==
    /\ wk[w].pc = "children" /\ Running(w) /\ wk[w].todo = {}
    /\ \E b \in Tasks : ProcessHit(w, b)
    /\ Goto(w, "finish")
    /\ UNCHANGED <<gateVars, queueVars, filter, submissionWg, chanVars, paused,
                   sub, scan, callVars, tested>>

WorkerFinish(w) ==
    /\ wk[w].pc \in {"children", "finish"} /\ Running(w) /\ wk[w].todo = {}
    /\ JobDone
    /\ wk' = [wk EXCEPT ![w] = Popping]
    /\ UNCHANGED <<gateVars, queueVars, filter, scannerWg, submissionWg, chanVars, paused,
                   sub, scan, tk, callVars, tested>>

WorkerStep(w) ==
    \/ WorkerPop(w) \/ WorkerCheck(w) \/ WorkerLoad(w) \/ WorkerPaused(w)
    \/ WorkerError(w) \/ (\E b \in Tasks : WorkerSchedule(w, b)) \/ WorkerFiltered(w)
    \/ WorkerHit(w) \/ WorkerLink(w) \/ WorkerPublish(w) \/ WorkerMutate(w)
    \/ WorkerRecurse(w) \/ WorkerFinish(w)
-----------------------------------------------------------------------------
(* scanBranch.  The semaphore is held from "probe" to the end.               *)
SemHolders == {b \in Tasks : tk[b].pc \in {"probe", "scan"}}

(* Mutant: activeJobs.Done is not deferred, and an early return skips it.    *)
BranchQuitLeaks(b) ==
    /\ tk' = [tk EXCEPT ![b] = [pc |-> "leave"]]
    /\ UNCHANGED <<sub, activeJobs>>

(* The deferred calls run in reverse order: activeJobs.Done, then            *)
(* scannerWg.Done, with a step in between.                                   *)
BranchQuit(b) ==
    /\ JobDone
    /\ tk' = [tk EXCEPT ![b] = [pc |-> "leave"]]
    /\ UNCHANGED <<sub>>

BranchAdmit(b) ==
    /\ tk[b].pc = "sem"
    /\ \/ /\ Cardinality(SemHolders) < MaxRecursions
          /\ tk' = [tk EXCEPT ![b].pc = "probe"]
          /\ UNCHANGED <<activeJobs, sub>>
       \/ Cancelled(tk[b].ctx) /\ BranchQuit(b)
    /\ UNCHANGED <<gateVars, queueVars, filter, scannerWg, submissionWg, chanVars, paused,
                   wk, scan, callVars, tested>>

(* The wildcard probe ends the branch or lets it enumerate the wordlist.     *)
BranchProbe(b) ==
    /\ tk[b].pc = "probe"
    /\ \/ BranchQuit(b)
       \/ tk' = [tk EXCEPT ![b].pc = "scan"] /\ UNCHANGED <<activeJobs, sub>>
    /\ UNCHANGED <<gateVars, queueVars, filter, scannerWg, submissionWg, chanVars, paused,
                   wk, scan, callVars, tested>>

BranchScan(b) ==
    /\ tk[b].pc = "scan" /\ Running(b)
    /\ \/ /\ tk[b].next <= NumWords /\ ~Cancelled(tk[b].ctx)
          /\ Call(b, Append(tk[b].base, tk[b].next), tk[b].run)
          /\ tk' = [tk EXCEPT ![b].next = @ + 1]
          /\ UNCHANGED activeJobs
       \/ /\ tk[b].next > NumWords \/ Cancelled(tk[b].ctx)
          /\ BranchQuit(b)
    /\ UNCHANGED <<gateVars, queueVars, filter, scannerWg, submissionWg, chanVars, paused,
                   wk, scan, callVars, tested>>

BranchLeave(b) ==
    /\ tk[b].pc = "leave"
    /\ scannerWg' = scannerWg - 1
    /\ tk' = [tk EXCEPT ![b] = Off]
    /\ UNCHANGED <<gateVars, queueVars, filter, activeJobs, submissionWg, chanVars, paused,
                   sub, wk, scan, callVars, tested>>

(* A source-map task submits the routes it finds; a 403-bypass task          *)
(* publishes what it finds, without blocking.                                *)
AuxSubmit(b) ==
    /\ tk[b].pc = "aux" /\ Running(b)
    /\ \E p \in tk[b].todo :
         /\ Call(b, p, tk[b].run)
         /\ tk' = [tk EXCEPT ![b].todo = @ \ {p}]
    /\ UNCHANGED <<gateVars, queueVars, filter, wgVars, chanVars, paused,
                   wk, scan, callVars, tested>>

AuxPublish(b) ==
    /\ tk[b].pc = "aux" /\ Running(b) /\ tk[b].todo = {}
    /\ \/ Publish
       \/ UNCHANGED chanVars
    /\ JobDone
    /\ tk' = [tk EXCEPT ![b] = Off]
    /\ UNCHANGED <<gateVars, queueVars, filter, scannerWg, submissionWg, paused,
                   sub, wk, scan, callVars, tested>>

TaskStep(b) ==
    \/ BranchAdmit(b) \/ BranchProbe(b) \/ BranchScan(b) \/ BranchLeave(b)
    \/ AuxSubmit(b) \/ AuxPublish(b)
-----------------------------------------------------------------------------
(* ChangeWordlist, serialised by changeWordlistLock.  From its first step    *)
(* to the end of its waits it also drains e.Results (DrainOldResults).       *)
BeginRestart ==
    /\ cw = "idle"
    /\ "restart" \in UserActs /\ runID < MaxRun
    /\ cw' = "gate"
    /\ UNCHANGED <<gateVars, queueVars, filter, wgVars, chanVars, paused,
                   sub, wk, scan, tk, sd, wt, tested>>

CloseGate ==
    /\ cw = "gate"
    /\ restarting' = TRUE
    /\ cancelled' = cancelled \union {ctx}
    /\ ctx' = 0
    /\ runID' = runID + 1
    /\ cw' = "submissions"
    /\ UNCHANGED <<queueVars, filter, wgVars, chanVars, paused,
                   sub, wk, scan, tk, sd, wt, tested>>

AwaitSubmissions ==
    /\ cw = "submissions"
    /\ submissionWg = 0
    /\ cw' = "drain"
    /\ UNCHANGED <<gateVars, queueVars, filter, wgVars, chanVars, paused,
                   sub, wk, scan, tk, sd, wt, tested>>

(* Mutant: the drained jobs stay counted.                                    *)
drainJobsKeepsCount ==
    /\ cw = "drain"
    /\ queue' = {}
    /\ cw' = "active"
    /\ UNCHANGED <<gateVars, queueClosed, filter, wgVars, chanVars, paused,
                   sub, wk, scan, tk, sd, wt, tested>>

(* drainJobs: one activeJobs.Done per job removed.                           *)
drainJobs ==
    /\ cw = "drain"
    /\ queue' = {}
    /\ activeJobs' = activeJobs - Cardinality(queue)
    /\ cw' = "active"
    /\ UNCHANGED <<gateVars, queueClosed, filter, scannerWg, submissionWg, chanVars, paused,
                   sub, wk, scan, tk, sd, wt, tested>>

AwaitActive ==
    /\ cw = "active"
    /\ activeJobs = 0
    /\ cw' = "scanners"
    /\ UNCHANGED <<gateVars, queueVars, filter, wgVars, chanVars, paused,
                   sub, wk, scan, tk, sd, wt, tested>>

(* Mutant: the scanner and the branches are not awaited.                     *)
SkipScanners ==
    /\ cw = "scanners"
    /\ cw' = "replay"
    /\ UNCHANGED <<gateVars, queueVars, filter, wgVars, chanVars, paused,
                   sub, wk, scan, tk, sd, wt, tested>>

AwaitScanners ==
    /\ cw = "scanners"
    /\ scannerWg = 0
    /\ cw' = "replay"
    /\ UNCHANGED <<gateVars, queueVars, filter, wgVars, chanVars, paused,
                   sub, wk, scan, tk, sd, wt, tested>>

(* The drain loop of replayCh ends when a receive would block; on a closed   *)
(* channel no receive blocks.                                                *)
DrainReplay ==
    /\ cw = "replay"
    /\ "replay" \notin chansClosed
    /\ cw' = "reset"
    /\ UNCHANGED <<gateVars, queueVars, filter, wgVars, chanVars, paused,
                   sub, wk, scan, tk, sd, wt, tested>>

(* A fresh Bloom filter, then the new context and the gate reopened.         *)
ResetFilter ==
    /\ cw = "reset"
    /\ filter' = {}
    /\ tested' = {}
    /\ cw' = "open"
    /\ UNCHANGED <<gateVars, queueVars, wgVars, chanVars, paused,
                   sub, wk, scan, tk, sd, wt>>

OpenGate ==
    /\ cw = "open"
    /\ ctx' = runID
    /\ restarting' = FALSE
    /\ cw' = "kickoff"
    /\ UNCHANGED <<runID, cancelled, queueVars, filter, wgVars, chanVars, paused,
                   sub, wk, scan, tk, sd, wt, tested>>

KickoffScanner ==
    /\ cw = "kickoff"
    /\ scannerWg' = scannerWg + 1
    /\ scan' = NewScan(ctx, runID)
    /\ cw' = "idle"
    /\ UNCHANGED <<gateVars, queueVars, filter, activeJobs, submissionWg, chanVars, paused,
                   sub, wk, tk, sd, wt, tested>>

RestartStep ==
    \/ CloseGate \/ AwaitSubmissions \/ drainJobs \/ AwaitActive \/ AwaitScanners
    \/ DrainReplay \/ ResetFilter \/ OpenGate \/ KickoffScanner

Receive == results > 0 /\ results' = results - 1

DrainOldResults ==
    /\ cw \in {"gate", "submissions", "drain", "active", "scanners"}
    /\ Receive
    /\ UNCHANGED <<gateVars, queueVars, filter, wgVars, chansClosed, paused,
                   sub, wk, scan, tk, callVars, tested>>
-----------------------------------------------------------------------------
(* Shutdown (its sync.Once makes it happen once).                            *)
BeginShutdown ==
    /\ sd = "idle"
    /\ "stop" \in UserActs \/ ("finish" \in UserActs /\ wt = "done")
    /\ cancelled' = cancelled \union {ctx}
    /\ sd' = "scanners"
    /\ UNCHANGED <<runID, restarting, ctx, queueVars, filter, wgVars, chanVars, paused,
                   sub, wk, scan, tk, cw, wt, tested>>

ShutdownAwaitScanners ==
    /\ sd = "scanners"
    /\ scannerWg = 0
    /\ sd' = "active"
    /\ UNCHANGED <<gateVars, queueVars, filter, wgVars, chanVars, paused,
                   sub, wk, scan, tk, cw, wt, tested>>

(* Mutant: the queue is closed without waiting for the work in flight.       *)
ShutdownCloseQueueEarly ==
    /\ sd = "active"
    /\ queueClosed' = TRUE
    /\ sd' = "workers"
    /\ UNCHANGED <<gateVars, queue, filter, wgVars, chanVars, paused,
                   sub, wk, scan, tk, cw, wt, tested>>

ShutdownCloseQueue ==
    /\ sd = "active"
    /\ activeJobs = 0
    /\ queueClosed' = TRUE
    /\ sd' = "workers"
    /\ UNCHANGED <<gateVars, queue, filter, wgVars, chanVars, paused,
                   sub, wk, scan, tk, cw, wt, tested>>

ShutdownCloseReplay ==
    /\ sd = "workers"
    /\ \A w \in Workers : wk[w] = Exited
    /\ chansClosed' = chansClosed \union {"replay"}
    /\ sd' = "results"
    /\ UNCHANGED <<gateVars, queueVars, filter, wgVars, results, paused,
                   sub, wk, scan, tk, cw, wt, tested>>

ShutdownCloseResults ==
    /\ sd = "results"
    /\ chansClosed' = chansClosed \union {"results"}
    /\ sd' = "done"
    /\ UNCHANGED <<gateVars, queueVars, filter, wgVars, results, paused,
                   sub, wk, scan, tk, cw, wt, tested>>

ShutdownStep ==
    ShutdownAwaitScanners \/ ShutdownCloseQueue \/ ShutdownCloseReplay \/ ShutdownCloseResults

(* Mutant: Wait looks at activeJobs alone.                                   *)
SkipWaitScanners ==
    /\ wt = "scanners"
    /\ wt' = "active"
    /\ UNCHANGED <<gateVars, queueVars, filter, wgVars, chanVars, paused,
                   sub, wk, scan, tk, cw, sd, tested>>

(* Wait.                                                                     *)
WaitScanners ==
    /\ wt = "scanners"
    /\ scannerWg = 0
    /\ wt' = "active"
    /\ UNCHANGED <<gateVars, queueVars, filter, wgVars, chanVars, paused,
                   sub, wk, scan, tk, cw, sd, tested>>

WaitActive ==
    /\ wt = "active"
    /\ activeJobs = 0
    /\ wt' = "done"
    /\ UNCHANGED <<gateVars, queueVars, filter, wgVars, chanVars, paused,
                   sub, wk, scan, tk, cw, sd, tested>>

WaitStep == WaitScanners \/ WaitActive
-----------------------------------------------------------------------------
(* The reader of e.Results, and SetPaused.                                   *)
Consume ==
    /\ Receive
    /\ UNCHANGED <<gateVars, queueVars, filter, wgVars, chansClosed, paused,
                   sub, wk, scan, tk, callVars, tested>>

SetPaused ==
    /\ "pause" \in UserActs
    /\ paused' = ~paused
    /\ UNCHANGED <<gateVars, queueVars, filter, wgVars, chanVars,
                   sub, wk, scan, tk, callVars, tested>>

(* The engine is shut down and every goroutine has ended.                    *)
Terminated ==
    /\ sd = "done"
    /\ UNCHANGED vars

Next ==
    \/ \E t \in Threads : Submit(t)
    \/ ScannerStep
    \/ \E w \in Workers : WorkerStep(w)
    \/ \E b \in Tasks : TaskStep(b)
    \/ BeginRestart \/ RestartStep \/ DrainOldResults
    \/ BeginShutdown \/ ShutdownStep
    \/ WaitStep
    \/ Consume \/ SetPaused
    \/ Terminated

Safety == Init /\ [][Next]_vars

(* Every goroutine that can go on, does; runPlain shuts the engine down      *)
(* after Wait.  Nothing makes the user act.                                  *)
Fairness ==
    /\ WF_vars(Submit(Scanner) \/ ScannerStep)
    /\ \A w \in Workers : WF_vars(Submit(w) \/ WorkerStep(w))
    /\ \A b \in Tasks : WF_vars(Submit(b) \/ TaskStep(b))
    /\ WF_vars(RestartStep) /\ WF_vars(DrainOldResults)
    /\ WF_vars(ShutdownStep)
    /\ WF_vars(WaitStep \/ (wt = "done" /\ BeginShutdown))

Spec == Safety /\ Fairness

(* With a reader of e.Results that never stops (runPlain, the TUI fan-out).  *)
SpecWithReader == Spec /\ WF_vars(Consume)
-----------------------------------------------------------------------------
Idle(w) == wk[w] \in {Popping, Exited}
Busy == {w \in Workers : ~Idle(w)}
Admitted == {t \in Threads : sub[t].stage \in {"filter", "ctx", "push", "blocked"}}
Reserved == {t \in Threads : sub[t].stage \in {"push", "blocked"}}
LiveTasks == {b \in Tasks : tk[b].pc \notin {"off", "leave"}}
Branches == {b \in Tasks : tk[b].pc \in {"sem", "probe", "scan", "leave"}}

(* Jobs that are somewhere between their reservation and their Done.         *)
HeldJobs == queue \union {wk[w].job : w \in Busy} \union {sub[t].job : t \in Reserved}

(* Every variable has its type; in particular no WaitGroup goes negative,    *)
(* which would panic.                                                        *)
TypeOK ==
    /\ runID \in 1..MaxRun
    /\ restarting \in BOOLEAN /\ paused \in BOOLEAN /\ queueClosed \in BOOLEAN
    /\ ctx \in 0..MaxRun /\ cancelled \subseteq 0..MaxRun
    /\ queue \subseteq Job /\ Cardinality(queue) <= QueueCap
    /\ filter \subseteq Path /\ tested \subseteq Job
    /\ activeJobs \in Nat /\ scannerWg \in Nat /\ submissionWg \in Nat
    /\ results \in 0..ResultsCap
    /\ chansClosed \subseteq {"replay", "results"}
    /\ DOMAIN sub = Threads /\ DOMAIN wk = Workers /\ DOMAIN tk = Tasks

(* The three WaitGroups count exactly what they stand for, through every     *)
(* early return, rejection, cancellation and drain: activeJobs the queued,   *)
(* handled and reserved jobs and the live tasks, submissionWg the admitted   *)
(* Submit calls, scannerWg the scanner and the branches.                     *)
Accounting ==
    /\ TypeOK
    /\ activeJobs = Cardinality(queue) + Cardinality(Busy)
                      + Cardinality(Reserved) + Cardinality(LiveTasks)
    /\ submissionWg = Cardinality(Admitted)
    /\ scannerWg = (IF scan = Off THEN 0 ELSE 1) + Cardinality(Branches)

Quiescent ==
    /\ queue = {} /\ Busy = {} /\ Admitted = {}
    /\ scan = Off /\ \A b \in Tasks : tk[b] = Off

(* ChangeWordlist resets the generation's state only when "no old worker is  *)
(* still reading or writing these structures" (engine.go, before the reset): *)
(* nothing is queued, handled, admitted, scanning or branching then.         *)
GenerationIsolated == cw \in {"replay", "reset", "open"} => Quiescent

(* Once the gate is open again, nothing of an earlier generation is queued,  *)
(* handled, pushed, scanned for or branched from: RunIDs do not mix.         *)
NoStaleWork ==
    ~restarting =>
        /\ \A j \in HeldJobs : j.run = runID
        /\ \A b \in LiveTasks : tk[b].run = runID
        /\ scan # Off => scan.run = runID

(* A restart keeps the generations apart on both sides: nothing of the old   *)
(* one runs during ChangeWordlist's reset, and nothing of it after the gate. *)
GenerationsApart == GenerationIsolated /\ NoStaleWork

(* The Bloom filter never swallows a path: while the context lives and the   *)
(* queue is open, every path it holds has been requested or is still on its  *)
(* way through Submit, the queue or a worker.                                *)
PathAccounted ==
    ~Cancelled(ctx) /\ ~queueClosed =>
        \A p \in filter :
            LET j == [path |-> p, run |-> runID] IN
            \/ j \in tested \union HeldJobs
            \/ \E t \in Admitted : sub[t].job = j

(* When Wait returns, nothing is left to do, even if branches were found     *)
(* after its scanner wait was over: every word of the list and every path    *)
(* submitted has been requested, and only deferred calls remain.             *)
WaitMeansDone ==
    wt = "done" =>
        /\ queue = {} /\ Busy = {} /\ Admitted = {} /\ LiveTasks = {}
        /\ \A p \in filter : [path |-> p, run |-> runID] \in tested
        /\ "ioerror" \notin Features => \A n \in Word : <<n>> \in filter

(* Nobody can send on e.Results, or submit, once Shutdown has closed it (a   *)
(* send on a closed channel panics).                                         *)
NoSendOnClosed ==
    "results" \in chansClosed =>
        Busy = {} /\ Admitted = {} /\ LiveTasks = {} /\ scan = Off

(* Whatever the old generation was doing, paused or blocked on a full queue  *)
(* or a full Results channel, a restart hands over and returns, although     *)
(* nobody else reads e.Results: ChangeWordlist "cancels the current scanner  *)
(* and starts a new one" (engine.go).                                        *)
RestartCompletes == (cw # "idle") ~> (cw = "idle")

(* A plain scan with recursion and auxiliary tasks ends and shuts down.      *)
ScanCompletes == <>(sd = "done")

(* Shutdown "requests a graceful stop and closes the result/log channels"    *)
(* (engine.go): once called, it gets there.                                  *)
ShutdownCompletes == (sd # "idle") ~> (sd = "done")

(* "Submit adds a payload to the queue if it passes the Bloom filter check"  *)
(* (worker.go): a submitter that found the queue full is not stuck for good. *)
SubmitReturns == \A t \in Threads : (sub[t].stage = "blocked") ~> (sub[t].stage # "blocked")
=============================================================================

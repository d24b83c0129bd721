------------------------- MODULE ScanLifecycleProofs -------------------------
(* The scan for any number of workers, tasks, words, restarts and any        *)
(* features: the WaitGroups count what they stand for, generations do not    *)
(* mix, no path is lost, and Wait and Shutdown mean what they say.           *)
EXTENDS ScanLifecycle, FiniteSetTheorems, SequenceTheorems, TLAPS

Context == 0..MaxRun
Run == 1..MaxRun
Cursor == 1..(NumWords + 1)

(* What a Submit call, a worker, the scanner and a task are made of.         *)
CallState ==
    {NoCall} \union [stage : {"gate", "filter", "ctx"}, job : Job]
             \union [stage : {"push", "blocked"}, job : Job, ctx : Context]

WorkerState ==
    {Popping, Exited}
        \union [pc : {"check", "load"}, job : Job]
        \union [pc : {"paused", "request", "filters"}, job : Job, ctx : Context]
        \union [pc : {"links", "children", "finish"}, job : Job, ctx : Context, todo : SUBSET Path]

ScanState == {Off} \union [pc : {"open", "line", "publish"}, ctx : Context, run : Run, next : Cursor]

(* A branch extends a path that is not of full depth.                        *)
TaskState ==
    {Off, [pc |-> "leave"]}
        \union [pc : {"sem", "probe", "scan"}, base : {p \in Path : Len(p) <= MaxDepth},
                run : Run, ctx : Context, next : Cursor]
        \union [pc : {"aux"}, run : Run, todo : SUBSET Path]

ShapeOK ==
    /\ runID \in Run /\ ctx \in Context /\ cancelled \subseteq Context
    /\ restarting \in BOOLEAN /\ paused \in BOOLEAN /\ queueClosed \in BOOLEAN
    /\ queue \subseteq Job /\ filter \subseteq Path /\ tested \subseteq Job
    /\ results \in 0..ResultsCap
    /\ chansClosed \subseteq {"replay", "results"}
    /\ sub \in [Threads -> CallState]
    /\ wk \in [Workers -> WorkerState]
    /\ scan \in ScanState
    /\ tk \in [Tasks -> TaskState]
    /\ cw = "gate" => runID < MaxRun

(* The three WaitGroups.                                                     *)
CountsOK ==
    /\ IsFiniteSet(queue) /\ Cardinality(queue) <= QueueCap
    /\ activeJobs = Cardinality(queue) + Cardinality(Busy)
                      + Cardinality(Reserved) + Cardinality(LiveTasks)
    /\ submissionWg = Cardinality(Admitted)
    /\ scannerWg = (IF scan = Off THEN 0 ELSE 1) + Cardinality(Branches)

(* A goroutine is inside Submit at the places that call it only.             *)
OwnerOK ==
    \A t \in Threads : ~Running(t) =>
        \/ t \in Workers /\ wk[t].pc \in {"links", "children"}
        \/ t \in Tasks /\ tk[t].pc \in {"scan", "aux"}
        \/ t = Scanner /\ scan.pc = "line"

(* A path that went through the filter is in one place before it is popped.  *)
Passed(t) == sub[t].stage \in {"ctx", "push", "blocked"}

UniqueOK ==
    /\ \A j \in queue : j.path \in filter
    /\ \A t \in Threads : Passed(t) => /\ sub[t].job.path \in filter
                                       /\ \A j \in queue : j.path # sub[t].job.path
    /\ \A t, u \in Threads :
         Passed(t) /\ Passed(u) /\ t # u => sub[t].job.path # sub[u].job.path

(* How far a restart has emptied the engine, by where it is.                 *)
AfterDrain == {"active", "scanners", "replay", "reset", "open"}
AfterActive == {"scanners", "replay", "reset", "open"}

GateOK ==
    /\ cw \in {"idle", "gate", "submissions", "drain", "kickoff"} \union AfterDrain
    /\ restarting <=> cw \in {"submissions", "drain"} \union AfterDrain
    /\ cw \in {"drain"} \union AfterDrain => Admitted = {}
    /\ cw \in AfterDrain => queue = {}
    /\ cw \in AfterActive => Busy = {} /\ LiveTasks = {}
    /\ cw \in {"replay", "reset", "open"} => Branches = {}
    /\ cw \in {"replay", "reset", "open", "kickoff"} => scan = Off
    /\ cw = "open" => filter = {}

(* While the gate is open everything belongs to the current generation.      *)
RunsOK ==
    ~restarting =>
        /\ \A j \in queue : j.run = runID
        /\ \A w \in Busy : wk[w].job.run = runID
        /\ \A t \in Admitted : sub[t].job.run = runID
        /\ \A b \in LiveTasks : tk[b].run = runID
        /\ scan # Off => scan.run = runID

ContextsOK ==
    /\ 0 \in cancelled
    /\ restarting => ctx = 0
    /\ ~restarting =>
        /\ \A w \in Workers : ~Idle(w) /\ wk[w].pc \notin {"check", "load"} => wk[w].ctx = ctx
        /\ \A t \in Reserved : sub[t].ctx = ctx
        /\ scan # Off => scan.ctx = ctx

IInv == ShapeOK /\ CountsOK /\ OwnerOK /\ UniqueOK /\ GateOK /\ RunsOK

(* No path is lost.                                                          *)
PathsOK ==
    /\ \A w \in Workers : wk[w].pc \in {"filters", "links", "children", "finish"} =>
         wk[w].job \in tested
    /\ ~Cancelled(ctx) /\ ~queueClosed =>
        \A p \in filter :
            LET j == [path |-> p, run |-> runID] IN
            \/ j \in tested \union queue
            \/ \E w \in Busy : wk[w].job = j
            \/ \E t \in Threads : Passed(t) /\ sub[t].job = j

(* Without restarts: what Shutdown has waited for does not come back.        *)
Still == queue = {} /\ Busy = {} /\ Admitted = {} /\ LiveTasks = {} /\ scan = Off

ShutOK ==
    /\ cw = "idle"
    /\ sd \in {"idle", "scanners", "active", "workers", "results", "done"}
    /\ sd \notin {"idle", "scanners"} => scan = Off
    /\ sd \in {"workers", "results", "done"} => Still
    /\ "results" \in chansClosed => sd = "done"

(* Without restarts and stops: the scan runs to its end.                     *)
ScanOK ==
    /\ cw = "idle" /\ runID = 1 /\ wt \in {"scanners", "active", "done"}
    /\ sd = "idle" => cancelled = {0} /\ ctx = 1 /\ ~queueClosed
    /\ sd # "idle" => wt = "done"
    /\ wt # "scanners" => scan = Off
    /\ wt = "done" => /\ Still
                      /\ \A p \in filter : [path |-> p, run |-> runID] \in tested
    /\ ~Running(Scanner) => sub[Scanner].job.run = 1

WordsOK ==
    "ioerror" \notin Features =>
        /\ scan.pc # "publish"
        /\ \A n \in Word :
             scan = Off \/ n < scan.next =>
                 <<n>> \in filter \/ (~Running(Scanner) /\ sub[Scanner].job.path = <<n>>)
-----------------------------------------------------------------------------
(* Paths: a word is one, and a path below full depth has children.           *)
LEMMA Paths ==
    /\ \A n \in Word : <<n>> \in Path
    /\ \A p \in Path : Len(p) \in 1..(MaxDepth + 1)
    /\ \A p \in Path, n \in Word : Len(p) <= MaxDepth => Append(p, n) \in Path
<1> USE LifecycleAssumption
<1>1. ASSUME NEW n \in Word
      PROVE  <<n>> \in Path
  <2>1. <<n>> \in [1..1 -> Word]
    OBVIOUS
  <2>2. 1 \in 1..(MaxDepth + 1)
    OBVIOUS
  <2>3. QED
    BY <2>1, <2>2 DEF Path
<1>2. ASSUME NEW p \in Path
      PROVE  Len(p) \in 1..(MaxDepth + 1)
  <2>1. PICK d \in 1..(MaxDepth + 1) : p \in [1..d -> Word]
    BY DEF Path
  <2>2. Len(p) = d
    BY <2>1
  <2>3. QED
    BY <2>2
<1>3. ASSUME NEW p \in Path, NEW n \in Word, Len(p) <= MaxDepth
      PROVE  Append(p, n) \in Path
  <2>1. PICK d \in 1..(MaxDepth + 1) : p \in [1..d -> Word]
    BY DEF Path
  <2>2. p \in Seq(Word) /\ Len(p) = d
    BY <2>1
  <2>3. Append(p, n) \in Seq(Word) /\ Len(Append(p, n)) = d + 1
    BY <2>2, AppendProperties
  <2>4. d + 1 \in 1..(MaxDepth + 1)
    BY <1>3, <2>2
  <2>5. Append(p, n) \in [1..(d + 1) -> Word]
    BY <2>3, LenProperties
  <2>6. QED
    BY <2>4, <2>5 DEF Path
<1>4. QED
  BY <1>1, <1>2, <1>3

(* What a response makes a worker submit are paths.                          *)
LEMMA FoundPaths ==
    ASSUME NEW p \in Path, NEW feature, NEW found \in Found(p, feature)
    PROVE  found \in SUBSET Path
  BY Paths DEF Found, Children

(* Counting one element more or less.                                        *)
LEMMA CountAdd ==
    ASSUME NEW S, IsFiniteSet(S), NEW x, x \notin S
    PROVE  /\ IsFiniteSet(S \union {x}) /\ Cardinality(S) \in Nat
           /\ Cardinality(S \union {x}) = Cardinality(S) + 1
  BY FS_AddElement, FS_CardinalityType

LEMMA CountRemove ==
    ASSUME NEW S, IsFiniteSet(S), NEW x \in S
    PROVE  /\ IsFiniteSet(S \ {x}) /\ Cardinality(S \ {x}) \in Nat
           /\ Cardinality(S \ {x}) = Cardinality(S) - 1
  BY FS_RemoveElement, FS_CardinalityType
-----------------------------------------------------------------------------
(* The buffer of e.Results keeps to its bounds.                              *)
LEMMA ResultsRange ==
    ASSUME results \in 0..ResultsCap, Publish \/ Receive
    PROVE  results' \in 0..ResultsCap
  BY LifecycleAssumption DEF Publish, ResultsHasRoom, Receive

(* Every step keeps the shape of the state: first the Submit calls.          *)
LEMMA ShapeSubmit ==
    ASSUME ShapeOK, NEW t \in Threads, Submit(t)
    PROVE  ShapeOK'
<1> USE LifecycleAssumption DEF ShapeOK, CallState, gateVars, queueVars, wgVars, chanVars, callVars
<1>1. CASE SubmitGate(t)
  BY <1>1 DEF SubmitGate, SubmitRejected, SubmitAdmitted, Return, NoCall
<1>2. CASE SubmitFilter(t)
  BY <1>2 DEF SubmitFilter, Return, NoCall, Job
<1>3. CASE SubmitReserve(t)
  BY <1>3 DEF SubmitReserve, Return, NoCall
<1>4. CASE SubmitPush(t)
  BY <1>4 DEF SubmitPush, Return, NoCall
<1>5. QED
  BY <1>1, <1>2, <1>3, <1>4 DEF Submit

LEMMA ShapeScanner ==
    ASSUME ShapeOK, ScannerStep
    PROVE  ShapeOK'
<1> USE LifecycleAssumption DEF ShapeOK, ScanState, Cursor, gateVars, queueVars, wgVars, chanVars, callVars
<1>1. CASE ScanOpen
  BY <1>1 DEF ScanOpen, Off
<1>2. CASE ScanLine
  <2>1. scan.next \in Word /\ scan.run \in Run
    BY <1>2 DEF ScanLine, Word, Off
  <2>2. [path |-> <<scan.next>>, run |-> scan.run] \in Job
    BY <2>1, Paths DEF Job, Run
  <2>3. scan' \in ScanState
    BY <1>2, <2>1 DEF ScanLine, Off, Word
  <2>4. QED
    BY <1>2, <2>2, <2>3 DEF ScanLine, Call, CallState, Threads
<1>3. CASE ScanEnd
  BY <1>3 DEF ScanEnd, Off
<1>4. CASE ScanPublish
  BY <1>4, ResultsRange DEF ScanPublish, Off, Publish
<1>5. QED
  BY <1>1, <1>2, <1>3, <1>4 DEF ScannerStep

LEMMA ShapeWorker ==
    ASSUME ShapeOK, NEW w \in Workers, WorkerStep(w)
    PROVE  ShapeOK'
<1> USE LifecycleAssumption DEF ShapeOK, WorkerState, gateVars, queueVars, wgVars, chanVars, callVars
<1>1. CASE WorkerPop(w)
  BY <1>1 DEF WorkerPop, Popping, Exited
<1>2. CASE WorkerCheck(w) \/ WorkerLoad(w) \/ WorkerPaused(w)
  BY <1>2 DEF WorkerCheck, WorkerLoad, WorkerPaused, PassLimiter, Goto, Popping, Exited
<1>3. CASE WorkerError(w) \/ WorkerFiltered(w)
  <2>1. wk[w].job \in Job
    BY <1>3 DEF WorkerError, WorkerFiltered, Popping, Exited
  <2>2. results' \in 0..ResultsCap /\ chansClosed' = chansClosed
    BY <1>3, ResultsRange DEF WorkerError, WorkerFiltered, Publish
  <2>3. tested' \subseteq Job
    BY <1>3, <2>1 DEF WorkerError, WorkerFiltered
  <2>4. QED
    BY <1>3, <2>2, <2>3 DEF WorkerError, WorkerFiltered
<1>4. ASSUME NEW b \in Tasks, WorkerSchedule(w, b)
      PROVE  ShapeOK'
  <2>1. wk[w].job \in Job /\ wk[w].job.path \in Path /\ wk[w].job.run \in Run
    BY <1>4 DEF WorkerSchedule, Popping, Exited, Job, Run
  <2>2. PICK routes \in Found(wk[w].job.path, "aux") :
          tk' = [tk EXCEPT ![b] = [pc |-> "aux", run |-> wk[w].job.run, todo |-> routes]]
    BY <1>4 DEF WorkerSchedule
  <2>3. tk' \in [Tasks -> TaskState]
    BY <2>1, <2>2, FoundPaths DEF TaskState
  <2>4. wk' \in [Workers -> WorkerState] /\ tested' \subseteq Job
    BY <1>4, <2>1 DEF WorkerSchedule, Goto, Popping, Exited
  <2>5. QED
    BY <1>4, <2>3, <2>4 DEF WorkerSchedule
<1>5. CASE WorkerHit(w)
  <2>1. wk[w].job \in Job /\ wk[w].job.path \in Path /\ wk[w].ctx \in Context
    BY <1>5 DEF WorkerHit, Popping, Exited, Job
  <2>2. PICK links \in Found(wk[w].job.path, "spider") :
          wk' = [wk EXCEPT ![w] = [pc |-> "links", job |-> wk[w].job, ctx |-> wk[w].ctx,
                                   todo |-> links]]
    BY <1>5 DEF WorkerHit
  <2>3. wk' \in [Workers -> WorkerState]
    BY <2>1, <2>2, FoundPaths
  <2>4. QED
    BY <1>5, <2>1, <2>3 DEF WorkerHit
<1>6. CASE WorkerLink(w) \/ WorkerMutate(w)
  <2>1. /\ wk[w].job \in Job /\ wk[w].job.run \in Run
        /\ wk[w].todo \in SUBSET Path /\ wk[w].ctx \in Context
    BY <1>6 DEF WorkerLink, WorkerMutate, Popping, Exited, Job, Run
  <2>2. PICK p \in wk[w].todo, r \in Run :
          Call(w, p, r) /\ wk' = [wk EXCEPT ![w].todo = @ \ {p}]
    BY <1>6, <2>1 DEF WorkerLink, WorkerMutate
  <2>3. [path |-> p, run |-> r] \in Job
    BY <2>1, <2>2 DEF Job, Run
  <2>4. sub' \in [Threads -> CallState]
    BY <2>2, <2>3 DEF Call, CallState, Threads
  <2>5. wk' \in [Workers -> WorkerState]
    BY <1>6, <2>1, <2>2 DEF WorkerLink, WorkerMutate, Popping, Exited
  <2>6. QED
    BY <1>6, <2>4, <2>5 DEF WorkerLink, WorkerMutate
<1>7. CASE WorkerPublish(w)
  <2>1. wk[w].job \in Job /\ wk[w].job.path \in Path /\ wk[w].ctx \in Context
    BY <1>7 DEF WorkerPublish, Popping, Exited, Job
  <2>2. wk' \in [Workers -> WorkerState]
    BY <1>7, <2>1, FoundPaths DEF WorkerPublish, Popping, Exited
  <2>3. QED
    BY <1>7, <2>2 DEF WorkerPublish, Publish, ResultsHasRoom
<1>8. CASE WorkerRecurse(w)
  <2>1. PICK b \in Tasks : ProcessHit(w, b)
    BY <1>8 DEF WorkerRecurse
  <2>2. /\ wk[w].job \in Job /\ wk[w].job.run \in Run
        /\ wk[w].job.path \in {p \in Path : Len(p) <= MaxDepth}
    BY <1>8, <2>1 DEF WorkerRecurse, ProcessHit, Popping, Exited, Job, Run
  <2>3. tk' \in [Tasks -> TaskState]
    BY <2>1, <2>2 DEF ProcessHit, TaskState, Cursor
  <2>4. wk' \in [Workers -> WorkerState]
    BY <1>8 DEF WorkerRecurse, Goto, Popping, Exited
  <2>5. QED
    BY <1>8, <2>3, <2>4 DEF WorkerRecurse
<1>9. CASE WorkerFinish(w)
  BY <1>9 DEF WorkerFinish, Popping, Exited
<1>10. QED
  BY <1>1, <1>2, <1>3, <1>4, <1>5, <1>6, <1>7, <1>8, <1>9 DEF WorkerStep

LEMMA ShapeTask ==
    ASSUME ShapeOK, NEW b \in Tasks, TaskStep(b)
    PROVE  ShapeOK'
<1> USE LifecycleAssumption DEF ShapeOK, TaskState, gateVars, queueVars, wgVars, chanVars, callVars
<1>1. CASE BranchAdmit(b) \/ BranchProbe(b)
  BY <1>1 DEF BranchAdmit, BranchProbe, BranchQuit, Off
<1>2. CASE BranchScan(b)
  <2>1. CASE BranchQuit(b)
    BY <1>2, <2>1 DEF BranchScan, BranchQuit
  <2>2. CASE /\ tk[b].next <= NumWords
             /\ Call(b, Append(tk[b].base, tk[b].next), tk[b].run)
             /\ tk' = [tk EXCEPT ![b].next = @ + 1]
    <3>1. /\ tk[b].base \in Path /\ Len(tk[b].base) <= MaxDepth
          /\ tk[b].next \in Word /\ tk[b].run \in Run
      BY <1>2, <2>2 DEF BranchScan, Off, Cursor, Word
    <3>2. [path |-> Append(tk[b].base, tk[b].next), run |-> tk[b].run] \in Job
      BY <3>1, Paths DEF Job, Run
    <3>3. sub' \in [Threads -> CallState]
      BY <2>2, <3>2 DEF Call, CallState, Threads
    <3>4. tk' \in [Tasks -> TaskState]
      BY <1>2, <2>2, <3>1, SMTT(30) DEF BranchScan, Off, Cursor, Word
    <3>5. QED
      BY <1>2, <3>3, <3>4 DEF BranchScan
  <2>3. QED
    BY <1>2, <2>1, <2>2 DEF BranchScan
<1>3. CASE BranchLeave(b)
  BY <1>3 DEF BranchLeave
<1>4. CASE AuxSubmit(b)
  <2>1. PICK p \in tk[b].todo : Call(b, p, tk[b].run) /\ tk' = [tk EXCEPT ![b].todo = @ \ {p}]
    BY <1>4 DEF AuxSubmit
  <2>2. tk[b].todo \in SUBSET Path /\ tk[b].run \in Run
    BY <1>4 DEF AuxSubmit, Off
  <2>3. [path |-> p, run |-> tk[b].run] \in Job
    BY <2>1, <2>2 DEF Job, Run
  <2>4. sub' \in [Threads -> CallState]
    BY <2>1, <2>3 DEF Call, CallState, Threads
  <2>5. tk' \in [Tasks -> TaskState]
    BY <1>4, <2>1, <2>2 DEF AuxSubmit, Off
  <2>6. QED
    BY <1>4, <2>4, <2>5 DEF AuxSubmit
<1>5. CASE AuxPublish(b)
  BY <1>5, ResultsRange DEF AuxPublish, Publish
<1>6. QED
  BY <1>1, <1>2, <1>3, <1>4, <1>5 DEF TaskStep

(* The steps of Wait and Shutdown, of the reader and the user, and the drain *)
(* of old results move no goroutine, no path and no count of work.           *)
Bystander ==
    \/ DrainOldResults \/ BeginShutdown \/ ShutdownStep \/ WaitStep
    \/ Consume \/ SetPaused \/ UNCHANGED vars

LEMMA ShapeOthers ==
    ASSUME ShapeOK, BeginRestart \/ RestartStep \/ Bystander
    PROVE  ShapeOK'
<1> USE LifecycleAssumption DEF ShapeOK, gateVars, queueVars, wgVars, chanVars, callVars, Run, Context
<1>1. CASE BeginRestart
  BY <1>1 DEF BeginRestart
<1>9. CASE CloseGate
  BY <1>9 DEF CloseGate
<1>2. CASE AwaitSubmissions \/ drainJobs \/ AwaitActive \/ AwaitScanners \/ DrainReplay
  BY <1>2 DEF AwaitSubmissions, drainJobs, AwaitActive, AwaitScanners, DrainReplay
<1>3. CASE ResetFilter
  BY <1>3 DEF ResetFilter
<1>10. CASE OpenGate
  <2>1. ctx' = runID /\ restarting' = FALSE
    BY <1>10 DEF OpenGate
  <2>2. ctx' \in Context
    BY <2>1
  <2>3. QED
    BY <1>10, <2>1, <2>2 DEF OpenGate
<1>4. CASE KickoffScanner
  BY <1>4 DEF KickoffScanner, NewScan, ScanState, Cursor
<1>5. CASE BeginShutdown \/ ShutdownStep
  BY <1>5 DEF BeginShutdown, ShutdownStep, ShutdownAwaitScanners, ShutdownCloseQueue,
              ShutdownCloseReplay, ShutdownCloseResults
<1>6. CASE WaitStep \/ SetPaused \/ UNCHANGED vars
  BY <1>6 DEF WaitStep, WaitScanners, WaitActive, SetPaused, vars
<1>7. CASE DrainOldResults \/ Consume
  BY <1>7, ResultsRange DEF DrainOldResults, Consume, Receive
<1>8. QED
  BY <1>1, <1>2, <1>3, <1>4, <1>5, <1>6, <1>7, <1>9, <1>10 DEF RestartStep, Bystander
-----------------------------------------------------------------------------
(* A set that changes at one element only.                                   *)
LEMMA CountChange ==
    ASSUME NEW S, NEW T, IsFiniteSet(S), NEW x, T \ {x} = S \ {x}
    PROVE  /\ IsFiniteSet(T) /\ Cardinality(S) \in Nat /\ Cardinality(T) \in Nat
           /\ Cardinality(T) = Cardinality(S) + (IF x \in T THEN 1 ELSE 0)
                                              - (IF x \in S THEN 1 ELSE 0)
<1>1. IsFiniteSet(S \ {x}) /\ x \notin S \ {x}
  BY FS_RemoveElement
<1>2. IsFiniteSet((S \ {x}) \union {x})
  BY <1>1, FS_AddElement
<1>3. Cardinality(S \ {x}) \in Nat
  BY <1>1, FS_CardinalityType
<1>4. Cardinality((S \ {x}) \union {x}) = Cardinality(S \ {x}) + 1
  BY <1>1, FS_AddElement
<1>5. S = (IF x \in S THEN (S \ {x}) \union {x} ELSE S \ {x})
  OBVIOUS
<1>6. T = (IF x \in T THEN (S \ {x}) \union {x} ELSE S \ {x})
  OBVIOUS
<1>7. Cardinality(S) = Cardinality(S \ {x}) + (IF x \in S THEN 1 ELSE 0)
  BY <1>3, <1>4, <1>5
<1>8. Cardinality(T) = Cardinality(S \ {x}) + (IF x \in T THEN 1 ELSE 0)
  <2>1. CASE x \in T
    BY <2>1, <1>4, <1>6
  <2>2. CASE x \notin T
    <3>1. T = S \ {x}
      BY <2>2
    <3>2. QED
      BY <2>2, <3>1, <1>3
  <2>3. QED
    BY <2>1, <2>2
<1>9. IsFiniteSet(T)
  BY <1>1, <1>2, <1>6
<1>10. QED
  BY <1>3, <1>7, <1>8, <1>9

(* The sets that the WaitGroups count are finite.                            *)
LEMMA CountedFinite ==
    /\ IsFiniteSet(Busy) /\ IsFiniteSet(LiveTasks) /\ IsFiniteSet(Branches)
    /\ IsFiniteSet(Admitted) /\ IsFiniteSet(Reserved)
<1>1. IsFiniteSet(Workers) /\ IsFiniteSet(Tasks)
  BY LifecycleAssumption
<1>2. IsFiniteSet(Workers \union Tasks)
  BY <1>1, FS_Union
<1>3. IsFiniteSet(Threads)
  BY <1>2, FS_AddElement DEF Threads
<1>4. /\ Busy \subseteq Workers /\ LiveTasks \subseteq Tasks /\ Branches \subseteq Tasks
      /\ Admitted \subseteq Threads /\ Reserved \subseteq Threads
  BY DEF Busy, LiveTasks, Branches, Admitted, Reserved
<1>5. QED
  BY <1>1, <1>3, <1>4, FS_Subset

(* The effect of one goroutine's step on the counted sets.                   *)
LEMMA CountCalls ==
    ASSUME NEW t \in Threads, \A u \in Threads \ {t} : sub'[u] = sub[u]
    PROVE  /\ Cardinality(Admitted) \in Nat /\ Cardinality(Reserved) \in Nat
           /\ Cardinality(Admitted') = Cardinality(Admitted)
                + (IF sub'[t].stage \in {"filter", "ctx", "push", "blocked"} THEN 1 ELSE 0)
                - (IF sub[t].stage \in {"filter", "ctx", "push", "blocked"} THEN 1 ELSE 0)
           /\ Cardinality(Reserved') = Cardinality(Reserved)
                + (IF sub'[t].stage \in {"push", "blocked"} THEN 1 ELSE 0)
                - (IF sub[t].stage \in {"push", "blocked"} THEN 1 ELSE 0)
<1>1. Admitted' \ {t} = Admitted \ {t} /\ Reserved' \ {t} = Reserved \ {t}
  BY DEF Admitted, Reserved
<1>2. /\ t \in Admitted <=> sub[t].stage \in {"filter", "ctx", "push", "blocked"}
      /\ t \in Admitted' <=> sub'[t].stage \in {"filter", "ctx", "push", "blocked"}
      /\ t \in Reserved <=> sub[t].stage \in {"push", "blocked"}
      /\ t \in Reserved' <=> sub'[t].stage \in {"push", "blocked"}
  BY DEF Admitted, Reserved
<1>3. Cardinality(Admitted) \in Nat /\ Cardinality(Admitted')
          = Cardinality(Admitted) + (IF t \in Admitted' THEN 1 ELSE 0) - (IF t \in Admitted THEN 1 ELSE 0)
  BY <1>1, CountedFinite, CountChange
<1>4. Cardinality(Reserved) \in Nat /\ Cardinality(Reserved')
          = Cardinality(Reserved) + (IF t \in Reserved' THEN 1 ELSE 0) - (IF t \in Reserved THEN 1 ELSE 0)
  BY <1>1, CountedFinite, CountChange
<1>5. QED
  BY <1>2, <1>3, <1>4

LEMMA CountWorkers ==
    ASSUME NEW w \in Workers, \A v \in Workers \ {w} : wk'[v] = wk[v]
    PROVE  /\ Cardinality(Busy) \in Nat
           /\ Cardinality(Busy') = Cardinality(Busy)
                + (IF wk'[w] \in {Popping, Exited} THEN 0 ELSE 1)
                - (IF wk[w] \in {Popping, Exited} THEN 0 ELSE 1)
<1>1. Busy' \ {w} = Busy \ {w}
  BY DEF Busy, Idle
<1>2. /\ w \in Busy <=> wk[w] \notin {Popping, Exited}
      /\ w \in Busy' <=> wk'[w] \notin {Popping, Exited}
  BY DEF Busy, Idle
<1>3. Cardinality(Busy) \in Nat /\ Cardinality(Busy')
          = Cardinality(Busy) + (IF w \in Busy' THEN 1 ELSE 0) - (IF w \in Busy THEN 1 ELSE 0)
  BY <1>1, CountedFinite, CountChange
<1>4. QED
  BY <1>2, <1>3

LEMMA CountTasks ==
    ASSUME NEW b \in Tasks, \A c \in Tasks \ {b} : tk'[c] = tk[c]
    PROVE  /\ Cardinality(LiveTasks) \in Nat /\ Cardinality(Branches) \in Nat
           /\ Cardinality(LiveTasks') = Cardinality(LiveTasks)
                + (IF tk'[b].pc \in {"off", "leave"} THEN 0 ELSE 1)
                - (IF tk[b].pc \in {"off", "leave"} THEN 0 ELSE 1)
           /\ Cardinality(Branches') = Cardinality(Branches)
                + (IF tk'[b].pc \in {"sem", "probe", "scan", "leave"} THEN 1 ELSE 0)
                - (IF tk[b].pc \in {"sem", "probe", "scan", "leave"} THEN 1 ELSE 0)
<1>1. LiveTasks' \ {b} = LiveTasks \ {b} /\ Branches' \ {b} = Branches \ {b}
  BY DEF LiveTasks, Branches
<1>2. /\ b \in LiveTasks <=> tk[b].pc \notin {"off", "leave"}
      /\ b \in LiveTasks' <=> tk'[b].pc \notin {"off", "leave"}
      /\ b \in Branches <=> tk[b].pc \in {"sem", "probe", "scan", "leave"}
      /\ b \in Branches' <=> tk'[b].pc \in {"sem", "probe", "scan", "leave"}
  BY DEF LiveTasks, Branches
<1>3. Cardinality(LiveTasks) \in Nat /\ Cardinality(LiveTasks')
          = Cardinality(LiveTasks) + (IF b \in LiveTasks' THEN 1 ELSE 0)
                                   - (IF b \in LiveTasks THEN 1 ELSE 0)
  BY <1>1, CountedFinite, CountChange
<1>4. Cardinality(Branches) \in Nat /\ Cardinality(Branches')
          = Cardinality(Branches) + (IF b \in Branches' THEN 1 ELSE 0) - (IF b \in Branches THEN 1 ELSE 0)
  BY <1>1, CountedFinite, CountChange
<1>5. QED
  BY <1>2, <1>3, <1>4

LEMMA CountsAreNat ==
    /\ Cardinality(Busy) \in Nat /\ Cardinality(LiveTasks) \in Nat /\ Cardinality(Branches) \in Nat
    /\ Cardinality(Admitted) \in Nat /\ Cardinality(Reserved) \in Nat
  BY CountedFinite, FS_CardinalityType
-----------------------------------------------------------------------------
(* A Submit call is counted from its admission to its return, and the job    *)
(* from its reservation on: by the call, then by the queue.                  *)
LEMMA CountsSubmit ==
    ASSUME ShapeOK, CountsOK, UniqueOK, NEW t \in Threads, Submit(t)
    PROVE  CountsOK'
<1> USE LifecycleAssumption DEF CountsOK
<1>1. /\ sub[t] \in CallState /\ sub' \in [Threads -> CallState] /\ sub \in [Threads -> CallState]
      /\ \A u \in Threads \ {t} : sub'[u] = sub[u]
  BY ShapeSubmit DEF ShapeOK, Submit, SubmitGate, SubmitRejected, SubmitAdmitted, SubmitFilter,
                     SubmitReserve, SubmitPush, Return
<1>2. /\ UNCHANGED <<wk, tk, scan, scannerWg>>
      /\ Busy' = Busy /\ LiveTasks' = LiveTasks /\ Branches' = Branches
  BY DEF Submit, SubmitGate, SubmitFilter, SubmitReserve, SubmitPush, wgVars,
         Busy, Idle, LiveTasks, Branches
<1> DEFINE adm(x) == IF x.stage \in {"filter", "ctx", "push", "blocked"} THEN 1 ELSE 0
           res(x) == IF x.stage \in {"push", "blocked"} THEN 1 ELSE 0
<1>3. /\ Cardinality(Admitted) \in Nat /\ Cardinality(Reserved) \in Nat
      /\ Cardinality(Admitted') = Cardinality(Admitted) + adm(sub'[t]) - adm(sub[t])
      /\ Cardinality(Reserved') = Cardinality(Reserved) + res(sub'[t]) - res(sub[t])
  BY <1>1, CountCalls
<1>4. Cardinality(queue) \in Nat /\ Cardinality(Busy) \in Nat /\ Cardinality(LiveTasks) \in Nat
  BY CountsAreNat, FS_CardinalityType
<1>5. CASE SubmitGate(t) \/ SubmitFilter(t)
  <2>1. queue' = queue /\ activeJobs' = activeJobs /\ res(sub'[t]) = res(sub[t])
    BY <1>5, <1>1 DEF SubmitGate, SubmitRejected, SubmitAdmitted, SubmitFilter, Return,
                      queueVars, CallState, NoCall
  <2>2. submissionWg' = submissionWg + adm(sub'[t]) - adm(sub[t])
    BY <1>5, <1>1, <1>3 DEF SubmitGate, SubmitRejected, SubmitAdmitted, SubmitFilter, Return,
                      CallState, NoCall
  <2>3. QED
    BY <2>1, <2>2, <1>2, <1>3, <1>4
<1>6. CASE SubmitReserve(t)
  <2>1. queue' = queue
    BY <1>6 DEF SubmitReserve, queueVars
  <2>2. /\ submissionWg' = submissionWg + adm(sub'[t]) - adm(sub[t])
        /\ activeJobs' = activeJobs + res(sub'[t]) - res(sub[t])
    BY <1>6, <1>1, <1>3, <1>4, CountsAreNat DEF SubmitReserve, Return, CallState, NoCall
  <2>3. QED
    BY <2>1, <2>2, <1>2, <1>3, <1>4
<1>7. CASE SubmitPush(t)
  <2>1. /\ submissionWg' = submissionWg + adm(sub'[t]) - adm(sub[t])
    BY <1>7, <1>1, <1>3 DEF SubmitPush, Return, CallState, NoCall
  <2>2. CASE queue' = queue
    <3>1. activeJobs' = activeJobs + res(sub'[t]) - res(sub[t])
      BY <2>2, <1>7, <1>1, <1>3, <1>4, CountsAreNat DEF SubmitPush, Return, CallState, NoCall, UniqueOK, Passed
    <3>2. QED
      BY <2>1, <2>2, <3>1, <1>2, <1>3, <1>4
  <2>3. CASE queue' # queue
    <3>1. /\ queue' = queue \union {sub[t].job} /\ activeJobs' = activeJobs
          /\ Cardinality(queue) < QueueCap
          /\ res(sub'[t]) = 0 /\ res(sub[t]) = 1
      BY <2>3, <1>7, <1>1 DEF SubmitPush, Return, NoCall, QueueHasRoom
    <3>2. sub[t].job \notin queue
      BY <2>3, <3>1
    <3>3. IsFiniteSet(queue') /\ Cardinality(queue') = Cardinality(queue) + 1
      BY <3>1, <3>2, CountAdd
    <3>4. QED
      BY <2>1, <3>1, <3>3, <1>2, <1>3, <1>4
  <2>4. QED
    BY <2>2, <2>3
<1>8. QED
  BY <1>5, <1>6, <1>7 DEF Submit

(* The scanner is counted from its start to its end.                         *)
LEMMA CountsScanner ==
    ASSUME ShapeOK, CountsOK, OwnerOK, ScannerStep
    PROVE  CountsOK'
<1> USE LifecycleAssumption DEF CountsOK, wgVars, queueVars
<1>1. /\ Busy' = Busy /\ LiveTasks' = LiveTasks /\ Branches' = Branches
      /\ UNCHANGED <<queue, activeJobs, submissionWg>>
  BY DEF ScannerStep, ScanOpen, ScanLine, ScanEnd, ScanPublish, Busy, Idle, LiveTasks, Branches
<1>2. scan \in ScanState
  BY DEF ShapeOK
<1>3. CASE ScanLine
  <2>1. Scanner \in Threads /\ \A u \in Threads \ {Scanner} : sub'[u] = sub[u]
    BY <1>3 DEF ScanLine, Call, Threads, ShapeOK
  <2>2. sub[Scanner].stage = "none" /\ sub'[Scanner].stage = "gate"
    BY <1>3, <2>1 DEF ScanLine, Call, Running, NoCall, ShapeOK
  <2>3. Cardinality(Admitted') = Cardinality(Admitted) /\ Cardinality(Reserved') = Cardinality(Reserved)
    BY <2>1, <2>2, CountCalls
  <2>4. scan # Off /\ scan' # Off /\ scannerWg' = scannerWg
    BY <1>2, <1>3 DEF ScanLine, ScanState, Off
  <2>5. QED
    BY <1>1, <2>3, <2>4
<1>4. CASE ScanOpen \/ ScanEnd \/ ScanPublish
  <2>1. Admitted' = Admitted /\ Reserved' = Reserved
    BY <1>4 DEF ScanOpen, ScanEnd, ScanPublish, Admitted, Reserved
  <2>2. /\ scan # Off
        /\ \/ scan' = Off /\ scannerWg' = scannerWg - 1
           \/ scan' # Off /\ scannerWg' = scannerWg
    BY <1>2, <1>4 DEF ScanOpen, ScanEnd, ScanPublish, ScanState, Off
  <2>3. QED
    BY <1>1, <2>1, <2>2, CountsAreNat
<1>5. QED
  BY <1>3, <1>4 DEF ScannerStep

(* A worker's job is counted until it is done; what it spawns is counted     *)
(* before that.                                                              *)
LEMMA CountsWorker ==
    ASSUME ShapeOK, CountsOK, NEW w \in Workers, WorkerStep(w)
    PROVE  CountsOK'
<1> USE LifecycleAssumption DEF CountsOK, wgVars, queueVars
<1> DEFINE busy(x) == IF x \in {Popping, Exited} THEN 0 ELSE 1
<1>1. /\ wk \in [Workers -> WorkerState] /\ wk' \in [Workers -> WorkerState]
      /\ sub \in [Threads -> CallState] /\ tk \in [Tasks -> TaskState]
      /\ w \in Threads /\ wk[w] \in WorkerState /\ wk'[w] \in WorkerState
  BY ShapeWorker DEF ShapeOK, Threads
<1>2. \A v \in Workers \ {w} : wk'[v] = wk[v]
  BY <1>1 DEF WorkerStep, WorkerPop, WorkerCheck, WorkerLoad, WorkerPaused, WorkerError,
              WorkerSchedule, WorkerFiltered, WorkerHit, WorkerLink, WorkerPublish,
              WorkerMutate, WorkerRecurse, WorkerFinish, PassLimiter, Goto
<1>3. /\ Cardinality(Busy) \in Nat
      /\ Cardinality(Busy') = Cardinality(Busy) + busy(wk'[w]) - busy(wk[w])
  BY <1>2, CountWorkers
<1>0. /\ Cardinality(queue) \in Nat /\ Cardinality(LiveTasks) \in Nat
      /\ Cardinality(Branches) \in Nat /\ Cardinality(Reserved) \in Nat
  BY CountsAreNat, FS_CardinalityType
<1>4. \A x \in WorkerState : busy(x) = IF x.pc \in {"pop", "exit"} THEN 0 ELSE 1
  BY DEF WorkerState, Popping, Exited
<1>5. CASE WorkerPop(w)
  <2>1. UNCHANGED <<activeJobs, submissionWg, scannerWg>>
    BY <1>5 DEF WorkerPop
  <2>2. /\ Admitted' = Admitted /\ Reserved' = Reserved
        /\ LiveTasks' = LiveTasks /\ Branches' = Branches /\ scan' = scan
    BY <1>5 DEF WorkerPop, Admitted, Reserved, LiveTasks, Branches
  <2>3. CASE queue' = queue
    <3>1. busy(wk'[w]) = busy(wk[w])
      BY <1>1, <1>4, <1>5, <2>3 DEF WorkerPop, Popping, Exited
    <3>2. QED
      BY <1>3, <2>1, <2>2, <2>3, <3>1
  <2>4. CASE queue' # queue
    <3>1. PICK j \in queue : queue' = queue \ {j} /\ wk' = [wk EXCEPT ![w] = [pc |-> "check", job |-> j]]
      BY <1>5, <2>4 DEF WorkerPop
    <3>2. IsFiniteSet(queue') /\ Cardinality(queue') = Cardinality(queue) - 1
      BY <3>1, CountRemove
    <3>3. busy(wk'[w]) = 1 /\ busy(wk[w]) = 0
      BY <1>1, <1>4, <1>5, <3>1 DEF WorkerPop
    <3>4. QED
      BY <1>0, <1>3, <2>1, <2>2, <3>2, <3>3
  <2>5. QED
    BY <2>3, <2>4
<1>6. CASE \/ WorkerCheck(w) \/ WorkerLoad(w) \/ WorkerPaused(w) \/ WorkerError(w)
           \/ WorkerFiltered(w) \/ WorkerHit(w) \/ WorkerPublish(w) \/ WorkerFinish(w)
  <2>1. UNCHANGED <<queue, submissionWg, scannerWg, scan>>
    BY <1>6 DEF WorkerCheck, WorkerLoad, WorkerPaused, WorkerError, WorkerFiltered, WorkerHit,
                WorkerPublish, WorkerFinish
  <2>2. /\ Admitted' = Admitted /\ Reserved' = Reserved
        /\ LiveTasks' = LiveTasks /\ Branches' = Branches
    BY <1>6 DEF WorkerCheck, WorkerLoad, WorkerPaused, WorkerError, WorkerFiltered, WorkerHit,
                WorkerPublish, WorkerFinish, Admitted, Reserved, LiveTasks, Branches
  <2>3. \/ activeJobs' = activeJobs - 1 /\ busy(wk'[w]) = 0
        \/ activeJobs' = activeJobs /\ busy(wk'[w]) = 1
    BY <1>1, <1>4, <1>6
    DEF WorkerCheck, WorkerLoad, WorkerPaused, WorkerError, WorkerFiltered, WorkerHit,
        WorkerPublish, WorkerFinish, PassLimiter, JobDone, Goto, WorkerState, Popping, Exited
  <2>4. busy(wk[w]) = 1
    BY <1>1, <1>4, <1>6
    DEF WorkerCheck, WorkerLoad, WorkerPaused, WorkerError, WorkerFiltered, WorkerHit,
        WorkerPublish, WorkerFinish
  <2>5. QED
    BY <1>0, <1>3, <2>1, <2>2, <2>3, <2>4
<1>7. CASE WorkerLink(w) \/ WorkerMutate(w)
  <2>1. UNCHANGED <<queue, activeJobs, submissionWg, scannerWg, scan>>
    BY <1>7 DEF WorkerLink, WorkerMutate
  <2>2. LiveTasks' = LiveTasks /\ Branches' = Branches
    BY <1>7 DEF WorkerLink, WorkerMutate, LiveTasks, Branches
  <2>3. busy(wk[w]) = 1 /\ busy(wk'[w]) = 1
    BY <1>1, <1>4, <1>7 DEF WorkerLink, WorkerMutate, WorkerState, Popping, Exited
  <2>4. /\ \A u \in Threads \ {w} : sub'[u] = sub[u]
        /\ sub[w].stage = "none" /\ sub'[w].stage = "gate"
    BY <1>1, <1>7 DEF WorkerLink, WorkerMutate, Call, Running, NoCall
  <2>5. Cardinality(Admitted') = Cardinality(Admitted) /\ Cardinality(Reserved') = Cardinality(Reserved)
    BY <1>1, <2>4, CountCalls
  <2>6. QED
    BY <1>3, <2>1, <2>2, <2>3, <2>5
<1>8. ASSUME NEW b \in Tasks, WorkerSchedule(w, b) \/ (WorkerRecurse(w) /\ ProcessHit(w, b))
      PROVE  CountsOK'
  <2>1. UNCHANGED <<queue, submissionWg, scan>> /\ activeJobs' = activeJobs + 1
    BY <1>8 DEF WorkerSchedule, WorkerRecurse, ProcessHit
  <2>2. Admitted' = Admitted /\ Reserved' = Reserved
    BY <1>8 DEF WorkerSchedule, WorkerRecurse, Admitted, Reserved
  <2>3. busy(wk[w]) = 1 /\ busy(wk'[w]) = 1
    BY <1>1, <1>4, <1>8 DEF WorkerSchedule, WorkerRecurse, Goto, WorkerState, Popping, Exited
  <2>4. /\ tk[b].pc = "off" /\ \A c \in Tasks \ {b} : tk'[c] = tk[c]
        /\ \/ tk'[b].pc = "aux" /\ scannerWg' = scannerWg
           \/ tk'[b].pc = "sem" /\ scannerWg' = scannerWg + 1
    BY <1>1, <1>8 DEF WorkerSchedule, ProcessHit, Off
  <2>5. /\ Cardinality(LiveTasks') = Cardinality(LiveTasks) + 1
        /\ \/ Cardinality(Branches') = Cardinality(Branches) /\ scannerWg' = scannerWg
           \/ Cardinality(Branches') = Cardinality(Branches) + 1 /\ scannerWg' = scannerWg + 1
    BY <2>4, CountTasks
  <2>6. QED
    BY <1>0, <1>3, <2>1, <2>2, <2>3, <2>5
<1>9. QED
  BY <1>5, <1>6, <1>7, <1>8 DEF WorkerStep, WorkerRecurse

(* A branch is counted twice, and gives its job back before its scanner.     *)
LEMMA CountsTask ==
    ASSUME ShapeOK, CountsOK, NEW b \in Tasks, TaskStep(b)
    PROVE  CountsOK'
<1> USE LifecycleAssumption DEF CountsOK, wgVars, queueVars
<1>1. /\ tk \in [Tasks -> TaskState] /\ tk' \in [Tasks -> TaskState] /\ b \in Threads
      /\ tk[b] \in TaskState /\ sub \in [Threads -> CallState]
  BY ShapeTask DEF ShapeOK, Threads
<1>2. \A c \in Tasks \ {b} : tk'[c] = tk[c]
  BY <1>1 DEF TaskStep, BranchAdmit, BranchProbe, BranchScan, BranchLeave, AuxSubmit,
              AuxPublish, BranchQuit
<1> DEFINE live(x) == IF x.pc \in {"off", "leave"} THEN 0 ELSE 1
           branch(x) == IF x.pc \in {"sem", "probe", "scan", "leave"} THEN 1 ELSE 0
<1>3. /\ Cardinality(LiveTasks') = Cardinality(LiveTasks) + live(tk'[b]) - live(tk[b])
      /\ Cardinality(Branches') = Cardinality(Branches) + branch(tk'[b]) - branch(tk[b])
  BY <1>2, CountTasks
<1>0. /\ Cardinality(queue) \in Nat /\ Cardinality(Busy) \in Nat /\ Cardinality(LiveTasks) \in Nat
      /\ Cardinality(Branches) \in Nat /\ Cardinality(Reserved) \in Nat
      /\ activeJobs \in Nat /\ scannerWg \in Nat
  BY CountsAreNat, FS_CardinalityType, SMTT(30)
<1>4. UNCHANGED <<queue, submissionWg, scan>> /\ Busy' = Busy
  BY DEF TaskStep, BranchAdmit, BranchProbe, BranchScan, BranchLeave, AuxSubmit, AuxPublish,
         Busy, Idle
<1>5. Cardinality(Admitted') = Cardinality(Admitted) /\ Cardinality(Reserved') = Cardinality(Reserved)
  <2>1. CASE sub' = sub
    BY <2>1 DEF Admitted, Reserved
  <2>2. CASE sub' # sub
    <3>1. Running(b) /\ \E p, r : Call(b, p, r)
      BY <2>2 DEF TaskStep, BranchAdmit, BranchProbe, BranchScan, BranchLeave, AuxSubmit,
                  AuxPublish, BranchQuit
    <3>2. /\ \A u \in Threads \ {b} : sub'[u] = sub[u]
          /\ sub[b].stage = "none" /\ sub'[b].stage = "gate"
      BY <1>1, <3>1 DEF Call, Running, NoCall
    <3>3. QED
      BY <1>1, <3>2, CountCalls
  <2>3. QED
    BY <2>1, <2>2
<1>6. /\ activeJobs' = activeJobs + live(tk'[b]) - live(tk[b])
      /\ scannerWg' = scannerWg + branch(tk'[b]) - branch(tk[b])
  <2>1. CASE BranchAdmit(b) \/ BranchProbe(b) \/ BranchScan(b)
    <3>1. tk[b].pc \in {"sem", "probe", "scan"} /\ scannerWg' = scannerWg
      BY <2>1 DEF BranchAdmit, BranchProbe, BranchScan
    <3>2. \/ tk'[b].pc = "leave" /\ activeJobs' = activeJobs - 1
          \/ tk'[b].pc \in {"sem", "probe", "scan"} /\ activeJobs' = activeJobs
      BY <1>1, <2>1 DEF BranchAdmit, BranchProbe, BranchScan, BranchQuit, JobDone, TaskState, Off
    <3>3. QED
      BY <1>0, <3>1, <3>2
  <2>2. CASE BranchLeave(b) \/ AuxSubmit(b) \/ AuxPublish(b)
    <3>1. \/ /\ tk[b].pc = "leave" /\ tk'[b].pc = "off"
             /\ activeJobs' = activeJobs /\ scannerWg' = scannerWg - 1
          \/ /\ tk[b].pc = "aux" /\ scannerWg' = scannerWg
             /\ \/ tk'[b].pc = "off" /\ activeJobs' = activeJobs - 1
                \/ tk'[b].pc = "aux" /\ activeJobs' = activeJobs
      BY <1>1, <2>2 DEF BranchLeave, AuxSubmit, AuxPublish, JobDone, TaskState, Off
    <3>2. QED
      BY <1>0, <3>1
  <2>3. QED
    BY <2>1, <2>2 DEF TaskStep
<1>7. QED
  BY <1>0, <1>3, <1>4, <1>5, <1>6

LEMMA CountsOthers ==
    ASSUME ShapeOK, CountsOK, GateOK, BeginRestart \/ RestartStep \/ Bystander
    PROVE  CountsOK'
<1> USE LifecycleAssumption DEF CountsOK, wgVars, queueVars
<1>1. /\ UNCHANGED <<sub, wk, tk>> /\ UNCHANGED submissionWg
      /\ Busy' = Busy /\ LiveTasks' = LiveTasks /\ Branches' = Branches
      /\ Admitted' = Admitted /\ Reserved' = Reserved
  BY DEF BeginRestart, RestartStep, CloseGate, AwaitSubmissions, drainJobs, AwaitActive,
         AwaitScanners, DrainReplay, ResetFilter, OpenGate, KickoffScanner, Bystander,
         DrainOldResults, BeginShutdown, ShutdownStep, ShutdownAwaitScanners,
         ShutdownCloseQueue, ShutdownCloseReplay, ShutdownCloseResults, WaitStep, WaitScanners,
         WaitActive, Consume, SetPaused, vars, Busy, Idle, LiveTasks, Branches, Admitted, Reserved
<1>2. CASE drainJobs
  <2>1. queue' = {} /\ activeJobs' = activeJobs - Cardinality(queue) /\ UNCHANGED <<scan, scannerWg>>
    BY <1>2 DEF drainJobs
  <2>2. IsFiniteSet({}) /\ Cardinality({}) = 0
    BY FS_EmptySet
  <2>3. QED
    BY <1>1, <2>1, <2>2, CountsAreNat, FS_CardinalityType, SMTT(30)
<1>3. CASE KickoffScanner
  <2>1. scan = Off /\ scan' # Off /\ scannerWg' = scannerWg + 1 /\ UNCHANGED <<queue, activeJobs>>
    BY <1>3 DEF KickoffScanner, GateOK, NewScan, Off
  <2>2. QED
    BY <1>1, <2>1, CountsAreNat
<1>4. CASE UNCHANGED <<queue, activeJobs, scannerWg, scan>>
  BY <1>1, <1>4
<1>5. QED
  BY <1>2, <1>3, <1>4
  DEF BeginRestart, RestartStep, CloseGate, AwaitSubmissions, AwaitActive,
      AwaitScanners, DrainReplay, ResetFilter, OpenGate, Bystander,
      DrainOldResults, BeginShutdown, ShutdownStep, ShutdownAwaitScanners,
      ShutdownCloseQueue, ShutdownCloseReplay, ShutdownCloseResults, WaitStep, WaitScanners,
      WaitActive, Consume, SetPaused, vars
-----------------------------------------------------------------------------
(* A goroutine goes on only when its Submit call has returned.               *)
LEMMA OwnerStep ==
    ASSUME ShapeOK, OwnerOK, GateOK, [Next]_vars
    PROVE  OwnerOK'
<1> USE LifecycleAssumption DEF OwnerOK, Running, Threads
<1>0. /\ sub \in [Threads -> CallState] /\ wk \in [Workers -> WorkerState]
      /\ tk \in [Tasks -> TaskState] /\ scan \in ScanState
  BY DEF ShapeOK
<1>1. ASSUME NEW t \in Threads, Submit(t)
      PROVE  OwnerOK'
  <2>1. /\ UNCHANGED <<wk, tk, scan>> /\ sub[t] # NoCall
        /\ \A u \in Threads : u # t => sub'[u] = sub[u]
    BY <1>0, <1>1 DEF Submit, SubmitGate, SubmitRejected, SubmitAdmitted, SubmitFilter,
                      SubmitReserve, SubmitPush, Return, NoCall
  <2>2. QED
    BY <2>1
<1>2. CASE ScannerStep
  <2>1. UNCHANGED <<wk, tk>> /\ \A u \in Threads : u # Scanner => sub'[u] = sub[u]
    BY <1>0, <1>2 DEF ScannerStep, ScanOpen, ScanLine, ScanEnd, ScanPublish, Call
  <2>2. Running(Scanner) /\ (sub' = sub \/ scan'.pc = "line")
    BY <1>0, <1>2 DEF ScannerStep, ScanOpen, ScanLine, ScanEnd, ScanPublish, ScanState, Off
  <2>3. QED
    BY <2>1, <2>2
<1>3. ASSUME NEW w \in Workers, WorkerStep(w)
      PROVE  OwnerOK'
  <2>1. /\ UNCHANGED scan
        /\ \A u \in Threads : u # w => sub'[u] = sub[u]
        /\ \A v \in Workers : v # w => wk'[v] = wk[v]
    BY <1>0, <1>3
    DEF WorkerStep, WorkerPop, WorkerCheck, WorkerLoad, WorkerPaused, WorkerError,
        WorkerSchedule, WorkerFiltered, WorkerHit, WorkerLink, WorkerPublish, WorkerMutate,
        WorkerRecurse, WorkerFinish, PassLimiter, Goto, Call
  <2>2. Running(w) /\ (sub' = sub \/ wk'[w].pc \in {"links", "children"})
    <3>1. CASE WorkerLink(w) \/ WorkerMutate(w)
      BY <1>0, <3>1 DEF WorkerLink, WorkerMutate, WorkerState, Popping, Exited
    <3>2. CASE \/ WorkerPop(w) \/ WorkerCheck(w) \/ WorkerLoad(w) \/ WorkerPaused(w)
               \/ WorkerError(w) \/ WorkerFiltered(w) \/ WorkerHit(w)
               \/ (\E b \in Tasks : WorkerSchedule(w, b))
      BY <1>0, <3>2 DEF WorkerPop, WorkerCheck, WorkerLoad, WorkerPaused, WorkerError,
                        WorkerFiltered, WorkerHit, WorkerSchedule
    <3>3. CASE WorkerPublish(w) \/ WorkerRecurse(w) \/ WorkerFinish(w)
      BY <3>3 DEF WorkerPublish, WorkerRecurse, WorkerFinish
    <3>4. QED
      BY <1>3, <3>1, <3>2, <3>3 DEF WorkerStep
  <2>3. \A b \in Tasks : tk[b].pc \in {"scan", "aux"} => tk'[b].pc \in {"scan", "aux"}
    BY <1>0, <1>3
    DEF WorkerStep, WorkerPop, WorkerCheck, WorkerLoad, WorkerPaused, WorkerError,
        WorkerSchedule, WorkerFiltered, WorkerHit, WorkerLink, WorkerPublish, WorkerMutate,
        WorkerRecurse, WorkerFinish, ProcessHit, Off
  <2>4. QED
    BY <2>1, <2>2, <2>3
<1>4. ASSUME NEW b \in Tasks, TaskStep(b)
      PROVE  OwnerOK'
  <2>1. /\ UNCHANGED <<scan, wk>>
        /\ \A u \in Threads : u # b => sub'[u] = sub[u]
        /\ \A c \in Tasks : c # b => tk'[c] = tk[c]
    BY <1>0, <1>4 DEF TaskStep, BranchAdmit, BranchProbe, BranchScan, BranchLeave, AuxSubmit,
                      AuxPublish, BranchQuit, Call
  <2>2. Running(b) /\ (sub' = sub \/ tk'[b].pc \in {"scan", "aux"})
    BY <1>0, <1>4 DEF TaskStep, BranchAdmit, BranchProbe, BranchScan, BranchLeave, AuxSubmit,
                      AuxPublish, BranchQuit, TaskState, Off
  <2>3. QED
    BY <2>1, <2>2
<1>5. CASE BeginRestart \/ RestartStep \/ Bystander
  <2>1. UNCHANGED <<sub, wk, tk>> /\ (scan' = scan \/ scan = Off)
    BY <1>5 DEF GateOK, BeginRestart, RestartStep, CloseGate, AwaitSubmissions, drainJobs, AwaitActive,
         AwaitScanners, DrainReplay, ResetFilter, OpenGate, KickoffScanner, Bystander,
         DrainOldResults, BeginShutdown, ShutdownStep, ShutdownAwaitScanners,
         ShutdownCloseQueue, ShutdownCloseReplay, ShutdownCloseResults, WaitStep, WaitScanners,
         WaitActive, Consume, SetPaused, vars
  <2>2. QED
    BY <2>1 DEF Off
<1>6. QED
  BY <1>1, <1>2, <1>3, <1>4, <1>5 DEF Next, Bystander, Terminated

(* A path enters the filter once and from there one place at a time.         *)
LEMMA UniqueStep ==
    ASSUME ShapeOK, GateOK, UniqueOK, [Next]_vars
    PROVE  UniqueOK'
<1> USE LifecycleAssumption DEF UniqueOK, Threads
<1>0. sub \in [Threads -> CallState]
  BY DEF ShapeOK
<1>1. ASSUME NEW t \in Threads, Submit(t)
      PROVE  UniqueOK'
  <2>1. CASE SubmitGate(t) \/ SubmitReserve(t)
    <3>1. UNCHANGED <<queue, filter>>
      BY <2>1 DEF SubmitGate, SubmitReserve, queueVars
    <3>2. \A u \in Threads : Passed(u)' => Passed(u) /\ sub'[u].job = sub[u].job
      BY <1>0, <2>1 DEF SubmitGate, SubmitRejected, SubmitAdmitted, SubmitReserve, Return,
                        CallState, NoCall, Passed
    <3>3. QED
      BY <3>1, <3>2
  <2>2. CASE SubmitFilter(t)
    <3>1. queue' = queue /\ filter \subseteq filter'
      BY <2>2 DEF SubmitFilter, queueVars
    <3>2. \A u \in Threads : u # t => sub'[u] = sub[u]
      BY <1>0, <2>2 DEF SubmitFilter, Return
    <3>3. Passed(t)' => /\ sub'[t].job = sub[t].job /\ sub[t].job.path \notin filter
                        /\ sub[t].job.path \in filter'
      BY <1>0, <2>2 DEF SubmitFilter, Return, CallState, NoCall, Passed
    <3>4. QED
      BY <3>1, <3>2, <3>3 DEF Passed
  <2>3. CASE SubmitPush(t)
    <3>1. filter' = filter /\ queue' \subseteq queue \union {sub[t].job} /\ Passed(t)
      BY <2>3 DEF SubmitPush, Passed
    <3>2. \A u \in Threads : u # t => sub'[u] = sub[u]
      BY <1>0, <2>3 DEF SubmitPush, Return
    <3>3. Passed(t)' => queue' = queue /\ sub'[t].job = sub[t].job
      BY <1>0, <2>3 DEF SubmitPush, Return, CallState, NoCall, Passed
    <3>4. QED
      BY <3>1, <3>2, <3>3 DEF Passed
  <2>4. QED
    BY <1>1, <2>1, <2>2, <2>3 DEF Submit
<1>2. CASE ResetFilter
  <2>1. queue' = {} /\ \A t \in Threads : ~Passed(t)'
    BY <1>2 DEF ResetFilter, GateOK, AfterDrain, queueVars, Admitted, Passed
  <2>2. QED
    BY <2>1
<1>3. CASE /\ filter' = filter /\ queue' \subseteq queue
           /\ \A u \in Threads : Passed(u)' => Passed(u) /\ sub'[u].job = sub[u].job
  BY <1>3
<1>4. ASSUME NEW t \in Threads, NEW p, NEW r, Call(t, p, r), UNCHANGED <<filter, queue>>
      PROVE  UniqueOK'
  <2>1. \A u \in Threads : Passed(u)' => Passed(u) /\ sub'[u].job = sub[u].job
    BY <1>0, <1>4 DEF Call, Passed
  <2>2. QED
    BY <1>3, <1>4, <2>1
<1>5. CASE ScannerStep
  <2>1. UNCHANGED <<filter, queue>> /\ (sub' = sub \/ \E p, r : Call(Scanner, p, r))
    BY <1>5 DEF ScannerStep, ScanOpen, ScanLine, ScanEnd, ScanPublish, queueVars
  <2>2. QED
    BY <1>3, <1>4, <2>1 DEF Passed
<1>6. ASSUME NEW w \in Workers, WorkerStep(w)
      PROVE  UniqueOK'
  <2>1. CASE WorkerLink(w) \/ WorkerMutate(w)
    <3>1. UNCHANGED <<filter, queue>> /\ \E p, r : Call(w, p, r)
      BY <2>1 DEF WorkerLink, WorkerMutate, queueVars
    <3>2. QED
      BY <1>4, <3>1
  <2>2. CASE ~(WorkerLink(w) \/ WorkerMutate(w))
    <3>1. filter' = filter /\ queue' \subseteq queue /\ sub' = sub
      BY <1>6, <2>2
      DEF WorkerStep, WorkerPop, WorkerCheck, WorkerLoad, WorkerPaused, WorkerError,
          WorkerSchedule, WorkerFiltered, WorkerHit, WorkerPublish, WorkerRecurse,
          WorkerFinish, queueVars
    <3>2. QED
      BY <1>3, <3>1 DEF Passed
  <2>3. QED
    BY <2>1, <2>2
<1>7. ASSUME NEW b \in Tasks, TaskStep(b)
      PROVE  UniqueOK'
  <2>1. UNCHANGED <<filter, queue>> /\ (sub' = sub \/ \E p, r : Call(b, p, r))
    BY <1>7 DEF TaskStep, BranchAdmit, BranchProbe, BranchScan, BranchLeave, AuxSubmit,
                AuxPublish, BranchQuit, queueVars
  <2>2. QED
    BY <1>3, <1>4, <2>1 DEF Passed
<1>8. CASE (BeginRestart \/ RestartStep \/ Bystander) /\ ~ResetFilter
  <2>1. filter' = filter /\ queue' \subseteq queue /\ sub' = sub
    BY <1>8 DEF BeginRestart, RestartStep, CloseGate, AwaitSubmissions, drainJobs, AwaitActive,
         AwaitScanners, DrainReplay, OpenGate, KickoffScanner, Bystander,
         DrainOldResults, BeginShutdown, ShutdownStep, ShutdownAwaitScanners,
         ShutdownCloseQueue, ShutdownCloseReplay, ShutdownCloseResults, WaitStep, WaitScanners,
         WaitActive, Consume, SetPaused, vars, queueVars
  <2>2. QED
    BY <1>3, <2>1 DEF Passed
<1>9. QED
  BY <1>1, <1>2, <1>5, <1>6, <1>7, <1>8 DEF Next, Bystander, Terminated
-----------------------------------------------------------------------------
(* Once the gate is closed, Submit admits nobody; once nothing is admitted,  *)
(* queued, handled and branched, none of that starts again.                  *)
LEMMA GateSubmit ==
    ASSUME ShapeOK, GateOK, NEW t \in Threads, Submit(t)
    PROVE  GateOK'
<1> USE DEF GateOK
<1>0. sub \in [Threads -> CallState]
  BY DEF ShapeOK
<1>1. /\ UNCHANGED <<cw, restarting, wk, tk, scan>>
      /\ Busy' = Busy /\ LiveTasks' = LiveTasks /\ Branches' = Branches
  BY DEF Submit, SubmitGate, SubmitFilter, SubmitReserve, SubmitPush, gateVars, callVars,
         Busy, Idle, LiveTasks, Branches
<1>2. ASSUME cw \in {"drain"} \union AfterDrain
      PROVE  Admitted' = {} /\ UNCHANGED <<queue, filter>>
  <2>1. t \notin Admitted /\ restarting
    BY <1>2
  <2>2. SubmitGate(t) /\ SubmitRejected(t)
    BY <2>1 DEF Submit, SubmitGate, SubmitAdmitted, SubmitFilter, SubmitReserve, SubmitPush, Admitted
  <2>3. UNCHANGED <<queue, filter>> /\ sub' = [sub EXCEPT ![t] = NoCall]
    BY <2>2 DEF SubmitGate, SubmitRejected, Return, queueVars
  <2>4. QED
    BY <1>0, <1>2, <2>3 DEF Admitted, NoCall
<1>3. QED
  BY <1>1, <1>2 DEF AfterDrain, AfterActive

(* A call that starts is not admitted yet.                                   *)
LEMMA CallNotAdmitted ==
    ASSUME ShapeOK, NEW t \in Threads, sub' = sub \/ (Running(t) /\ \E p, r : Call(t, p, r))
    PROVE  Admitted' = Admitted /\ Reserved' = Reserved
  BY DEF ShapeOK, Running, Call, NoCall, Admitted, Reserved

LEMMA GateScanner ==
    ASSUME ShapeOK, GateOK, ScannerStep
    PROVE  GateOK'
<1>1. /\ UNCHANGED <<cw, restarting, wk, tk, queue, filter>> /\ scan # Off
      /\ sub' = sub \/ (Running(Scanner) /\ \E p, r : Call(Scanner, p, r))
  BY DEF ScannerStep, ScanOpen, ScanLine, ScanEnd, ScanPublish, gateVars, queueVars, callVars, Off
<1>2. /\ Admitted' = Admitted
      /\ Busy' = Busy /\ LiveTasks' = LiveTasks /\ Branches' = Branches
  BY <1>1, CallNotAdmitted DEF Threads, Busy, Idle, LiveTasks, Branches
<1>3. QED
  BY <1>1, <1>2 DEF GateOK, AfterDrain, AfterActive

LEMMA GateWorker ==
    ASSUME ShapeOK, GateOK, NEW w \in Workers, WorkerStep(w)
    PROVE  GateOK'
<1>0. wk \in [Workers -> WorkerState]
  BY DEF ShapeOK
<1>1. /\ UNCHANGED <<cw, restarting, scan, filter>> /\ queue' \subseteq queue
      /\ sub' = sub \/ (Running(w) /\ \E p, r : Call(w, p, r))
  BY DEF WorkerStep, WorkerPop, WorkerCheck, WorkerLoad, WorkerPaused, WorkerError,
         WorkerSchedule, WorkerFiltered, WorkerHit, WorkerLink, WorkerPublish, WorkerMutate,
         WorkerRecurse, WorkerFinish, gateVars, queueVars, callVars
<1>2. Admitted' = Admitted
  BY <1>1, CallNotAdmitted DEF Threads
<1>3. ASSUME cw \in AfterActive
      PROVE  Busy' = {} /\ tk' = tk
  <2>1. wk[w] \in {Popping, Exited} /\ queue = {}
    BY <1>3 DEF GateOK, AfterDrain, AfterActive, Busy, Idle
  <2>2. WorkerPop(w)
    BY <2>1 DEF WorkerStep, WorkerCheck, WorkerLoad, WorkerPaused, WorkerError,
         WorkerSchedule, WorkerFiltered, WorkerHit, WorkerLink, WorkerPublish, WorkerMutate,
         WorkerRecurse, WorkerFinish, Popping, Exited
  <2>3. wk' = [wk EXCEPT ![w] = Exited] /\ tk' = tk
    BY <2>1, <2>2 DEF WorkerPop
  <2>4. QED
    BY <1>0, <1>3, <2>3 DEF GateOK, Busy, Idle
<1>4. ASSUME cw \in AfterActive
      PROVE  LiveTasks' = LiveTasks /\ Branches' = Branches
  BY <1>3, <1>4 DEF LiveTasks, Branches
<1>5. QED
  BY <1>1, <1>2, <1>3, <1>4 DEF GateOK, AfterDrain, AfterActive

LEMMA GateTask ==
    ASSUME ShapeOK, GateOK, NEW b \in Tasks, TaskStep(b)
    PROVE  GateOK'
<1>0. tk \in [Tasks -> TaskState]
  BY DEF ShapeOK
<1>1. /\ UNCHANGED <<cw, restarting, scan, filter, queue, wk>> /\ Busy' = Busy
      /\ sub' = sub \/ (Running(b) /\ \E p, r : Call(b, p, r))
  BY DEF TaskStep, BranchAdmit, BranchProbe, BranchScan, BranchLeave, AuxSubmit, AuxPublish,
         BranchQuit, gateVars, queueVars, callVars, Busy, Idle
<1>2. Admitted' = Admitted
  BY <1>1, CallNotAdmitted DEF Threads
<1>3. ASSUME cw \in AfterActive
      PROVE  /\ tk[b].pc = "leave" /\ tk' = [tk EXCEPT ![b] = Off]
             /\ b \in Branches
  <2>1. tk[b].pc \in {"off", "leave"}
    BY <1>3 DEF GateOK, LiveTasks
  <2>2. QED
    BY <2>1 DEF TaskStep, BranchAdmit, BranchProbe, BranchScan, BranchLeave, AuxSubmit,
                AuxPublish, Branches
<1>4. ASSUME cw \in AfterActive
      PROVE  LiveTasks' = {} /\ cw \notin {"replay", "reset", "open"}
  BY <1>0, <1>3, <1>4 DEF GateOK, LiveTasks, Off
<1>5. QED
  BY <1>1, <1>2, <1>4 DEF GateOK, AfterDrain, AfterActive

(* Each wait of a restart ends when its WaitGroup is zero, that is, when     *)
(* what it counts is gone.                                                   *)
LEMMA ZeroCounts ==
    ASSUME CountsOK
    PROVE  /\ submissionWg = 0 => Admitted = {}
           /\ activeJobs = 0 => queue = {} /\ Busy = {} /\ Reserved = {} /\ LiveTasks = {}
           /\ scannerWg = 0 => scan = Off /\ Branches = {}
<1>1. /\ Cardinality(queue) \in Nat /\ Cardinality(Busy) \in Nat /\ Cardinality(LiveTasks) \in Nat
      /\ Cardinality(Branches) \in Nat /\ Cardinality(Reserved) \in Nat
  BY CountsAreNat, FS_CardinalityType DEF CountsOK
<1>2. submissionWg = 0 => Cardinality(Admitted) = 0
  BY DEF CountsOK
<1>3. activeJobs = 0 => /\ Cardinality(queue) = 0 /\ Cardinality(Busy) = 0
                        /\ Cardinality(Reserved) = 0 /\ Cardinality(LiveTasks) = 0
  BY <1>1 DEF CountsOK
<1>4. scannerWg = 0 => scan = Off /\ Cardinality(Branches) = 0
  BY <1>1 DEF CountsOK
<1>5. QED
  BY <1>2, <1>3, <1>4, CountedFinite, FS_EmptySet DEF CountsOK

LEMMA GateOthers ==
    ASSUME ShapeOK, CountsOK, GateOK, BeginRestart \/ RestartStep \/ Bystander
    PROVE  GateOK'
<1>1. /\ UNCHANGED <<sub, wk, tk>>
      /\ Busy' = Busy /\ LiveTasks' = LiveTasks /\ Branches' = Branches /\ Admitted' = Admitted
  BY DEF BeginRestart, RestartStep, CloseGate, AwaitSubmissions, drainJobs, AwaitActive,
         AwaitScanners, DrainReplay, ResetFilter, OpenGate, KickoffScanner, Bystander,
         DrainOldResults, BeginShutdown, ShutdownStep, ShutdownAwaitScanners,
         ShutdownCloseQueue, ShutdownCloseReplay, ShutdownCloseResults, WaitStep, WaitScanners,
         WaitActive, Consume, SetPaused, vars, Busy, Idle, LiveTasks, Branches, Admitted
<1> USE DEF GateOK, AfterDrain, AfterActive, gateVars, queueVars, wgVars, callVars
<1>2. CASE BeginRestart \/ CloseGate
  BY <1>1, <1>2 DEF BeginRestart, CloseGate
<1>3. CASE AwaitSubmissions
  BY <1>1, <1>3, ZeroCounts DEF AwaitSubmissions
<1>4. CASE drainJobs
  BY <1>1, <1>4 DEF drainJobs
<1>5. CASE AwaitActive
  BY <1>1, <1>5, ZeroCounts DEF AwaitActive
<1>6. CASE AwaitScanners
  BY <1>1, <1>6, ZeroCounts DEF AwaitScanners
<1>7. CASE DrainReplay \/ ResetFilter
  BY <1>1, <1>7 DEF DrainReplay, ResetFilter
<1>8. CASE OpenGate \/ KickoffScanner
  BY <1>1, <1>8 DEF OpenGate, KickoffScanner
<1>9. CASE Bystander
  <2>1. UNCHANGED <<cw, restarting, queue, scan, filter>>
    BY <1>9 DEF Bystander,
         DrainOldResults, BeginShutdown, ShutdownStep, ShutdownAwaitScanners,
         ShutdownCloseQueue, ShutdownCloseReplay, ShutdownCloseResults, WaitStep, WaitScanners,
         WaitActive, Consume, SetPaused, vars
  <2>2. QED
    BY <1>1, <2>1
<1>10. QED
  BY <1>2, <1>3, <1>4, <1>5, <1>6, <1>7, <1>8, <1>9 DEF RestartStep
-----------------------------------------------------------------------------
(* While the gate is open, work begets work of the same generation only.     *)
LEMMA RunsSubmit ==
    ASSUME ShapeOK, RunsOK, NEW t \in Threads, Submit(t)
    PROVE  RunsOK'
<1> USE DEF RunsOK
<1>0. sub \in [Threads -> CallState]
  BY DEF ShapeOK
<1>1. /\ UNCHANGED <<restarting, runID, wk, tk, scan>>
      /\ Busy' = Busy /\ LiveTasks' = LiveTasks
  BY DEF Submit, SubmitGate, SubmitFilter, SubmitReserve, SubmitPush, gateVars,
         Busy, Idle, LiveTasks
<1>2. ASSUME ~restarting
      PROVE  \A u \in Admitted' : sub'[u].job.run = runID
  <2>1. \A u \in Threads : u # t => sub'[u] = sub[u]
    BY <1>0 DEF Submit, SubmitGate, SubmitRejected, SubmitAdmitted, SubmitFilter,
                SubmitReserve, SubmitPush, Return
  <2>2. t \in Admitted' => sub'[t].job = sub[t].job /\ (t \in Admitted \/ sub[t].job.run = runID)
    BY <1>0 DEF Submit, SubmitGate, SubmitRejected, SubmitAdmitted, SubmitFilter,
                SubmitReserve, SubmitPush, Return, Admitted, CallState, NoCall
  <2>3. QED
    BY <1>2, <2>1, <2>2 DEF Admitted
<1>3. ASSUME ~restarting
      PROVE  \A j \in queue' : j.run = runID
  <2>1. queue' = queue \/ (queue' = queue \union {sub[t].job} /\ t \in Admitted)
    BY DEF Submit, SubmitGate, SubmitFilter, SubmitReserve, SubmitPush, queueVars, Admitted
  <2>2. QED
    BY <1>3, <2>1
<1>4. QED
  BY <1>1, <1>2, <1>3

LEMMA RunsScanner ==
    ASSUME ShapeOK, RunsOK, ScannerStep
    PROVE  RunsOK'
<1>1. /\ UNCHANGED <<restarting, runID, wk, tk, queue>>
      /\ sub' = sub \/ (Running(Scanner) /\ \E p, r : Call(Scanner, p, r))
  BY DEF ScannerStep, ScanOpen, ScanLine, ScanEnd, ScanPublish, gateVars, queueVars, callVars
<1>2. /\ Admitted' = Admitted /\ \A t \in Admitted : sub'[t] = sub[t]
      /\ Busy' = Busy /\ LiveTasks' = LiveTasks
  BY <1>1, CallNotAdmitted
  DEF Threads, Busy, Idle, LiveTasks, Admitted, Running, Call, NoCall, ShapeOK
<1>3. scan # Off /\ (scan' = Off \/ scan'.run = scan.run)
  BY DEF ShapeOK, ScanState, ScannerStep, ScanOpen, ScanLine, ScanEnd, ScanPublish, Off
<1>4. QED
  BY <1>1, <1>2, <1>3 DEF RunsOK

LEMMA RunsWorker ==
    ASSUME ShapeOK, RunsOK, NEW w \in Workers, WorkerStep(w)
    PROVE  RunsOK'
<1> USE DEF RunsOK
<1>0. wk \in [Workers -> WorkerState] /\ tk \in [Tasks -> TaskState] /\ sub \in [Threads -> CallState]
  BY DEF ShapeOK
<1>1. /\ UNCHANGED <<restarting, runID, scan>> /\ queue' \subseteq queue
      /\ sub' = sub \/ (Running(w) /\ \E p, r : Call(w, p, r))
  BY DEF WorkerStep, WorkerPop, WorkerCheck, WorkerLoad, WorkerPaused, WorkerError,
         WorkerSchedule, WorkerFiltered, WorkerHit, WorkerLink, WorkerPublish, WorkerMutate,
         WorkerRecurse, WorkerFinish, gateVars, queueVars, callVars
<1>2. Admitted' = Admitted /\ \A t \in Admitted : sub'[t] = sub[t]
  BY <1>0, <1>1, CallNotAdmitted DEF Threads, Admitted, Running, Call, NoCall
<1>3. /\ \A v \in Workers : v # w => wk'[v] = wk[v]
      /\ w \in Busy' => \/ w \in Busy /\ wk'[w].job = wk[w].job
                        \/ wk'[w].job \in queue
  <2>1. \A v \in Workers : v # w => wk'[v] = wk[v]
    BY <1>0
    DEF WorkerStep, WorkerPop, WorkerCheck, WorkerLoad, WorkerPaused, WorkerError,
        WorkerSchedule, WorkerFiltered, WorkerHit, WorkerLink, WorkerPublish, WorkerMutate,
        WorkerRecurse, WorkerFinish, PassLimiter, Goto
  <2>2. CASE WorkerPop(w)
    BY <1>0, <2>1, <2>2 DEF WorkerPop, Busy, Idle
  <2>3. CASE ~WorkerPop(w)
    <3>1. wk[w].pc \notin {"pop", "exit"} /\ w \in Busy
      BY <2>3 DEF WorkerStep, WorkerCheck, WorkerLoad, WorkerPaused, WorkerError,
        WorkerSchedule, WorkerFiltered, WorkerHit, WorkerLink, WorkerPublish, WorkerMutate,
        WorkerRecurse, WorkerFinish, Busy, Idle, Popping, Exited
    <3>2. wk'[w] \in {Popping, Exited} \/ wk'[w].job = wk[w].job
      BY <1>0, <2>3
      DEF WorkerStep, WorkerCheck, WorkerLoad, WorkerPaused, WorkerError,
          WorkerSchedule, WorkerFiltered, WorkerHit, WorkerLink, WorkerPublish, WorkerMutate,
          WorkerRecurse, WorkerFinish, PassLimiter, Goto, WorkerState, Popping, Exited
    <3>3. QED
      BY <2>1, <3>1, <3>2 DEF Busy, Idle
  <2>4. QED
    BY <2>2, <2>3
<1>4. \A b \in LiveTasks' : \/ b \in LiveTasks /\ tk'[b].run = tk[b].run
                            \/ w \in Busy /\ tk'[b].run = wk[w].job.run
  <2>1. ASSUME NEW b \in Tasks, WorkerSchedule(w, b) \/ (WorkerRecurse(w) /\ ProcessHit(w, b))
        PROVE  /\ w \in Busy /\ tk'[b].run = wk[w].job.run
               /\ \A c \in Tasks : c # b => tk'[c] = tk[c]
    BY <1>0, <2>1 DEF WorkerSchedule, WorkerRecurse, ProcessHit, Busy, Idle, Popping, Exited
  <2>2. CASE tk' # tk
    <3>1. PICK b \in Tasks : WorkerSchedule(w, b) \/ (WorkerRecurse(w) /\ ProcessHit(w, b))
      BY <2>2
      DEF WorkerStep, WorkerPop, WorkerCheck, WorkerLoad, WorkerPaused, WorkerError,
          WorkerFiltered, WorkerHit, WorkerLink, WorkerPublish, WorkerMutate,
          WorkerRecurse, WorkerFinish
    <3>2. QED
      BY <2>1, <3>1 DEF LiveTasks
  <2>3. CASE tk' = tk
    BY <2>3 DEF LiveTasks
  <2>4. QED
    BY <2>2, <2>3
<1>5. QED
  BY <1>1, <1>2, <1>3, <1>4 DEF Busy, Idle

LEMMA RunsTask ==
    ASSUME ShapeOK, RunsOK, NEW b \in Tasks, TaskStep(b)
    PROVE  RunsOK'
<1>0. tk \in [Tasks -> TaskState]
  BY DEF ShapeOK
<1>1. /\ UNCHANGED <<restarting, runID, scan, queue, wk>> /\ Busy' = Busy
      /\ sub' = sub \/ (Running(b) /\ \E p, r : Call(b, p, r))
  BY DEF TaskStep, BranchAdmit, BranchProbe, BranchScan, BranchLeave, AuxSubmit, AuxPublish,
         BranchQuit, gateVars, queueVars, callVars, Busy, Idle
<1>2. Admitted' = Admitted /\ \A t \in Admitted : sub'[t] = sub[t]
  BY <1>1, CallNotAdmitted DEF Threads, Admitted, Running, Call, NoCall, ShapeOK
<1>3. /\ \A c \in Tasks : c # b => tk'[c] = tk[c]
      /\ b \in LiveTasks' => b \in LiveTasks /\ tk'[b].run = tk[b].run
  BY <1>0 DEF TaskStep, BranchAdmit, BranchProbe, BranchScan, BranchLeave, AuxSubmit,
              AuxPublish, BranchQuit, LiveTasks, TaskState, Off
<1>4. QED
  BY <1>1, <1>2, <1>3 DEF RunsOK, LiveTasks

LEMMA RunsOthers ==
    ASSUME ShapeOK, GateOK, RunsOK, BeginRestart \/ RestartStep \/ Bystander
    PROVE  RunsOK'
<1>1. /\ UNCHANGED <<sub, wk, tk>> /\ queue' \subseteq queue
      /\ Busy' = Busy /\ LiveTasks' = LiveTasks /\ Admitted' = Admitted
  BY DEF BeginRestart, RestartStep, CloseGate, AwaitSubmissions, drainJobs, AwaitActive,
         AwaitScanners, DrainReplay, ResetFilter, OpenGate, KickoffScanner, Bystander,
         DrainOldResults, BeginShutdown, ShutdownStep, ShutdownAwaitScanners,
         ShutdownCloseQueue, ShutdownCloseReplay, ShutdownCloseResults, WaitStep, WaitScanners,
         WaitActive, Consume, SetPaused, vars, queueVars, Busy, Idle, LiveTasks, Admitted
<1>2. CASE OpenGate
  <2>1. queue = {} /\ Busy = {} /\ LiveTasks = {} /\ Admitted = {} /\ scan' = Off
    BY <1>2 DEF OpenGate, GateOK, AfterDrain, AfterActive
  <2>2. QED
    BY <1>1, <2>1 DEF RunsOK
<1>3. CASE KickoffScanner
  BY <1>1, <1>3 DEF KickoffScanner, NewScan, RunsOK, gateVars
<1>4. CASE CloseGate
  BY <1>4 DEF CloseGate, RunsOK
<1>5. CASE /\ UNCHANGED <<restarting, runID, scan>>
  BY <1>1, <1>5 DEF RunsOK
<1>6. QED
  BY <1>2, <1>3, <1>4, <1>5
  DEF BeginRestart, RestartStep, AwaitSubmissions, drainJobs, AwaitActive,
      AwaitScanners, DrainReplay, ResetFilter, Bystander,
      DrainOldResults, BeginShutdown, ShutdownStep, ShutdownAwaitScanners,
      ShutdownCloseQueue, ShutdownCloseReplay, ShutdownCloseResults, WaitStep, WaitScanners,
      WaitActive, Consume, SetPaused, vars, gateVars
-----------------------------------------------------------------------------
(* IInv is inductive.                                                        *)
LEMMA IInvInit == Init => IInv
<1> SUFFICES ASSUME Init PROVE IInv
  OBVIOUS
<1> USE LifecycleAssumption DEF Init
<1>1. ShapeOK
  <2>1. 1 \in Run /\ 0 \in Context /\ 1 \in Context /\ 1 \in Cursor /\ 0 \in 0..ResultsCap
    BY DEF Run, Context, Cursor
  <2>2. scan \in ScanState
    BY <2>1 DEF ScanState, NewScan
  <2>3. /\ sub \in [Threads -> CallState] /\ wk \in [Workers -> WorkerState]
        /\ tk \in [Tasks -> TaskState]
    BY DEF CallState, WorkerState, TaskState
  <2>4. QED
    BY <2>1, <2>2, <2>3 DEF ShapeOK
<1>2. Busy = {} /\ Admitted = {} /\ Reserved = {} /\ LiveTasks = {} /\ Branches = {}
  BY DEF Busy, Idle, Admitted, Reserved, LiveTasks, Branches, NoCall, Off
<1>3. CountsOK
  BY <1>2, FS_EmptySet DEF CountsOK, NewScan, Off
<1>4. OwnerOK /\ UniqueOK
  BY DEF OwnerOK, Running, UniqueOK, Passed, NoCall
<1>5. GateOK /\ RunsOK
  BY <1>2 DEF GateOK, AfterDrain, AfterActive, RunsOK, NewScan
<1>6. QED
  BY <1>1, <1>3, <1>4, <1>5 DEF IInv

LEMMA IInvStep == IInv /\ [Next]_vars => IInv'
<1> SUFFICES ASSUME IInv, [Next]_vars PROVE IInv'
  OBVIOUS
<1> USE DEF IInv
<1>1. OwnerOK' /\ UniqueOK'
  BY OwnerStep, UniqueStep
<1>2. ASSUME NEW t \in Threads, Submit(t)
      PROVE  ShapeOK' /\ CountsOK' /\ GateOK' /\ RunsOK'
  BY <1>2, ShapeSubmit, CountsSubmit, GateSubmit, RunsSubmit
<1>3. CASE ScannerStep
  BY <1>1, <1>3, ShapeScanner, CountsScanner, GateScanner, RunsScanner
<1>4. ASSUME NEW w \in Workers, WorkerStep(w)
      PROVE  ShapeOK' /\ CountsOK' /\ GateOK' /\ RunsOK'
  BY <1>4, ShapeWorker, CountsWorker, GateWorker, RunsWorker
<1>5. ASSUME NEW b \in Tasks, TaskStep(b)
      PROVE  ShapeOK' /\ CountsOK' /\ GateOK' /\ RunsOK'
  BY <1>5, ShapeTask, CountsTask, GateTask, RunsTask
<1>6. CASE BeginRestart \/ RestartStep \/ Bystander
  BY <1>1, <1>6, ShapeOthers, CountsOthers, GateOthers, RunsOthers
<1>7. QED
  BY <1>1, <1>2, <1>3, <1>4, <1>5, <1>6 DEF Next, Bystander, Terminated

(* Every step of the scanner, workers, branches, tasks, Wait, ChangeWordlist *)
(* and Shutdown keeps the inductive invariant.                               *)
THEOREM LifecycleInvariant == Safety => []IInv
  BY IInvInit, IInvStep, PTL DEF Safety

(* The WaitGroups count what they stand for (activeJobs, scannerWg and        *)
(* submissionWg through all their Adds and Dones).                           *)
THEOREM LifecycleAccounting == Safety => []Accounting
<1>1. IInv => Accounting
  <2> SUFFICES ASSUME IInv PROVE Accounting
    OBVIOUS
  <2>1. activeJobs \in Nat /\ scannerWg \in Nat /\ submissionWg \in Nat
    BY CountsAreNat, FS_CardinalityType DEF IInv, CountsOK
  <2>2. TypeOK
    BY <2>1 DEF IInv, ShapeOK, CountsOK, TypeOK, Run, Context
  <2>3. QED
    BY <2>2 DEF IInv, CountsOK, Accounting
<1>2. QED
  BY <1>1, LifecycleInvariant, PTL

(* ChangeWordlist resets the engine's state when nothing of the old          *)
(* generation runs, and after its gate opens nothing of it is left.          *)
THEOREM LifecycleGenerations == Safety => []GenerationsApart
<1>1. IInv => GenerationsApart
  <2> SUFFICES ASSUME IInv PROVE GenerationsApart
    OBVIOUS
  <2>1. GenerationIsolated
    <3>1. cw \in {"replay", "reset", "open"} => \A b \in Tasks : tk[b] = Off
      BY DEF IInv, GateOK, AfterActive, ShapeOK, TaskState, LiveTasks, Branches, Off
    <3>2. QED
      BY <3>1 DEF IInv, GateOK, AfterDrain, AfterActive, GenerationIsolated, Quiescent
  <2>2. NoStaleWork
    <3>1. Reserved \subseteq Admitted
      BY DEF Reserved, Admitted
    <3>2. QED
      BY <3>1 DEF IInv, RunsOK, NoStaleWork, HeldJobs
  <2>3. QED
    BY <2>1, <2>2 DEF GenerationsApart
<1>2. QED
  BY <1>1, LifecycleInvariant, PTL
-----------------------------------------------------------------------------
(* While the gate is open there is one context.                              *)
LEMMA ContextsStep ==
    ASSUME IInv, ContextsOK, [Next]_vars
    PROVE  ContextsOK'
<1> USE DEF ContextsOK, IInv
<1>0. /\ wk \in [Workers -> WorkerState] /\ sub \in [Threads -> CallState] /\ scan \in ScanState
  BY DEF ShapeOK
<1>1. ASSUME NEW t \in Threads, Submit(t)
      PROVE  ContextsOK'
  <2>1. UNCHANGED <<cancelled, restarting, ctx, wk, scan>>
    BY <1>1 DEF Submit, SubmitGate, SubmitFilter, SubmitReserve, SubmitPush, gateVars
  <2>2. \A u \in Threads : u # t => sub'[u] = sub[u]
    BY <1>0, <1>1 DEF Submit, SubmitGate, SubmitRejected, SubmitAdmitted, SubmitFilter,
                SubmitReserve, SubmitPush, Return
  <2>3. t \in Reserved' => sub'[t].ctx = ctx \/ (t \in Reserved /\ sub'[t].ctx = sub[t].ctx)
    BY <1>0, <1>1 DEF Submit, SubmitGate, SubmitRejected, SubmitAdmitted, SubmitFilter,
                SubmitReserve, SubmitPush, Return, Reserved, CallState, NoCall
  <2>4. QED
    BY <2>1, <2>2, <2>3 DEF Idle, Reserved
<1>2. CASE ScannerStep
  <2>1. /\ UNCHANGED <<cancelled, restarting, ctx, wk>>
        /\ sub' = sub \/ (Running(Scanner) /\ \E p, r : Call(Scanner, p, r))
    BY <1>2 DEF ScannerStep, ScanOpen, ScanLine, ScanEnd, ScanPublish, gateVars
  <2>2. Reserved' = Reserved /\ \A t \in Reserved : sub'[t] = sub[t]
    BY <1>0, <2>1, CallNotAdmitted DEF Threads, Reserved, Running, Call, NoCall
  <2>3. scan # Off /\ (scan' = Off \/ scan'.ctx = scan.ctx)
    BY <1>0, <1>2 DEF ScanState, ScannerStep, ScanOpen, ScanLine, ScanEnd, ScanPublish, Off
  <2>4. QED
    BY <2>1, <2>2, <2>3 DEF Idle
<1>3. ASSUME NEW w \in Workers, WorkerStep(w)
      PROVE  ContextsOK'
  <2>1. /\ UNCHANGED <<cancelled, restarting, ctx, scan>>
        /\ sub' = sub \/ (Running(w) /\ \E p, r : Call(w, p, r))
    BY <1>3
    DEF WorkerStep, WorkerPop, WorkerCheck, WorkerLoad, WorkerPaused, WorkerError,
        WorkerSchedule, WorkerFiltered, WorkerHit, WorkerLink, WorkerPublish, WorkerMutate,
        WorkerRecurse, WorkerFinish, gateVars
  <2>2. Reserved' = Reserved /\ \A t \in Reserved : sub'[t] = sub[t]
    BY <1>0, <2>1, CallNotAdmitted DEF Threads, Reserved, Running, Call, NoCall
  <2>3. \A v \in Workers : v # w => wk'[v] = wk[v]
    BY <1>0, <1>3
    DEF WorkerStep, WorkerPop, WorkerCheck, WorkerLoad, WorkerPaused, WorkerError,
        WorkerSchedule, WorkerFiltered, WorkerHit, WorkerLink, WorkerPublish, WorkerMutate,
        WorkerRecurse, WorkerFinish, PassLimiter, Goto
  <2>4. \/ wk'[w] \in {Popping, Exited} \/ wk'[w].pc \in {"check", "load"}
        \/ wk'[w].ctx = ctx
        \/ wk[w].pc \notin {"pop", "exit", "check", "load"} /\ wk'[w].ctx = wk[w].ctx
    <3>1. CASE WorkerPop(w) \/ WorkerCheck(w) \/ WorkerLoad(w)
      BY <1>0, <3>1 DEF WorkerPop, WorkerCheck, WorkerLoad, PassLimiter, Goto, WorkerState,
                        Popping, Exited
    <3>2. CASE ~(WorkerPop(w) \/ WorkerCheck(w) \/ WorkerLoad(w))
      BY <1>0, <1>3, <3>2
      DEF WorkerStep, WorkerPaused, WorkerError,
          WorkerSchedule, WorkerFiltered, WorkerHit, WorkerLink, WorkerPublish, WorkerMutate,
          WorkerRecurse, WorkerFinish, PassLimiter, Goto, WorkerState, Popping, Exited
    <3>3. QED
      BY <3>1, <3>2
  <2>5. QED
    BY <2>1, <2>2, <2>3, <2>4 DEF Idle, Popping, Exited
<1>4. ASSUME NEW b \in Tasks, TaskStep(b)
      PROVE  ContextsOK'
  <2>1. /\ UNCHANGED <<cancelled, restarting, ctx, scan, wk>>
        /\ sub' = sub \/ (Running(b) /\ \E p, r : Call(b, p, r))
    BY <1>4 DEF TaskStep, BranchAdmit, BranchProbe, BranchScan, BranchLeave, AuxSubmit,
                AuxPublish, BranchQuit, gateVars
  <2>2. Reserved' = Reserved /\ \A t \in Reserved : sub'[t] = sub[t]
    BY <1>0, <2>1, CallNotAdmitted DEF Threads, Reserved, Running, Call, NoCall
  <2>3. QED
    BY <2>1, <2>2 DEF Idle
<1>5. CASE BeginRestart \/ RestartStep \/ Bystander
  <2>1. UNCHANGED <<sub, wk>> /\ Reserved' = Reserved
    BY <1>5 DEF BeginRestart, RestartStep, CloseGate, AwaitSubmissions, drainJobs, AwaitActive,
         AwaitScanners, DrainReplay, ResetFilter, OpenGate, KickoffScanner, Bystander,
         DrainOldResults, BeginShutdown, ShutdownStep, ShutdownAwaitScanners,
         ShutdownCloseQueue, ShutdownCloseReplay, ShutdownCloseResults, WaitStep, WaitScanners,
         WaitActive, Consume, SetPaused, vars, Reserved
  <2>2. CASE CloseGate
    BY <2>2 DEF CloseGate
  <2>3. CASE OpenGate
    <3>1. /\ \A w \in Workers : Idle(w)
          /\ Reserved = {} /\ scan' = Off /\ restarting' = FALSE /\ cancelled' = cancelled
      BY <2>3 DEF OpenGate, GateOK, AfterDrain, AfterActive, Busy, Reserved, Admitted
    <3>2. QED
      BY <2>1, <3>1 DEF Idle
  <2>4. CASE KickoffScanner
    BY <2>1, <2>4 DEF KickoffScanner, NewScan, gateVars, Idle
  <2>5. CASE UNCHANGED <<restarting, ctx, scan>> /\ cancelled \subseteq cancelled'
    BY <2>1, <2>5 DEF Idle
  <2>6. QED
    BY <1>5, <2>2, <2>3, <2>4, <2>5
    DEF BeginRestart, RestartStep, AwaitSubmissions, drainJobs, AwaitActive,
        AwaitScanners, DrainReplay, ResetFilter, Bystander,
        DrainOldResults, BeginShutdown, ShutdownStep, ShutdownAwaitScanners,
        ShutdownCloseQueue, ShutdownCloseReplay, ShutdownCloseResults, WaitStep, WaitScanners,
        WaitActive, Consume, SetPaused, vars, gateVars
<1>6. QED
  BY <1>1, <1>2, <1>3, <1>4, <1>5 DEF Next, Bystander, Terminated
-----------------------------------------------------------------------------
(* Where job j is, from the filter to its request.                           *)
Place(j) ==
    \/ j \in tested \union queue
    \/ \E w \in Busy : wk[w].job = j
    \/ \E t \in Threads : Passed(t) /\ sub[t].job = j

(* While the context lives and the queue is open, Submit does not drop a     *)
(* path it has put into the filter.                                          *)
LEMMA PathsSubmit ==
    ASSUME IInv, ContextsOK, PathsOK, NEW t \in Threads, Submit(t)
    PROVE  PathsOK'
<1> USE DEF PathsOK, Place
<1>0. /\ sub \in [Threads -> CallState] /\ runID \in Run
      /\ UNCHANGED <<wk, tested, ctx, cancelled, runID, queueClosed, restarting>>
      /\ Busy' = Busy
  BY DEF IInv, ShapeOK, Submit, SubmitGate, SubmitFilter, SubmitReserve, SubmitPush, gateVars,
         queueVars, Busy, Idle
<1>1. \A u \in Threads : u # t => sub'[u] = sub[u]
  BY <1>0 DEF Submit, SubmitGate, SubmitRejected, SubmitAdmitted, SubmitFilter,
              SubmitReserve, SubmitPush, Return
<1>2. SUFFICES ASSUME ~Cancelled(ctx), ~queueClosed, NEW p \in filter'
               PROVE  Place([path |-> p, run |-> runID])'
  BY <1>0 DEF Cancelled
<1> DEFINE j == [path |-> p, run |-> runID]
<1>3. p \in filter => Place(j)
  BY <1>2
<1>4. ~restarting
  BY <1>2 DEF ContextsOK, Cancelled
<1>5. CASE SubmitGate(t)
  <2>1. UNCHANGED <<filter, queue>> /\ ~Passed(t)
    BY <1>5 DEF SubmitGate, SubmitRejected, SubmitAdmitted, Passed, queueVars
  <2>2. QED
    BY <1>0, <1>1, <1>3, <2>1 DEF Passed
<1>6. CASE SubmitFilter(t)
  <2>1. queue' = queue /\ ~Passed(t)
    BY <1>6 DEF SubmitFilter, Passed, queueVars
  <2>2. CASE p \in filter
    BY <1>0, <1>1, <1>3, <2>1, <2>2 DEF Passed
  <2>3. CASE p \notin filter
    <3>1. p = sub[t].job.path /\ sub' = [sub EXCEPT ![t].stage = "ctx"]
      BY <1>2, <1>6, <2>3 DEF SubmitFilter
    <3>2. sub[t].job.run = runID /\ sub[t].job \in Job
      BY <1>0, <1>4, <1>6 DEF SubmitFilter, IInv, RunsOK, Admitted, CallState, NoCall
    <3>3. sub[t].job = j
      BY <3>1, <3>2 DEF Job
    <3>4. Passed(t)' /\ sub'[t].job = j
      <4>1. sub[t] \in [stage : {"gate", "filter", "ctx"}, job : Job]
        BY <1>0, <1>6 DEF SubmitFilter, CallState, NoCall
      <4>2. sub'[t] = [sub[t] EXCEPT !.stage = "ctx"]
        BY <1>0, <3>1
      <4>3. QED
        BY <3>3, <4>1, <4>2 DEF Passed
    <3>5. QED
      BY <1>0, <3>4
  <2>4. QED
    BY <2>2, <2>3
<1>7. CASE SubmitReserve(t)
  <2>1. UNCHANGED <<filter, queue>> /\ Passed(t)' /\ sub'[t].job = sub[t].job
    BY <1>0, <1>2, <1>7 DEF SubmitReserve, Passed, CallState, NoCall, queueVars
  <2>2. QED
    BY <1>0, <1>1, <1>3, <2>1 DEF Passed
<1>8. CASE SubmitPush(t)
  <2>1. filter' = filter /\ queue \subseteq queue'
    BY <1>8 DEF SubmitPush, queueVars
  <2>2. ~Cancelled(sub[t].ctx)
    BY <1>2, <1>4, <1>8 DEF SubmitPush, ContextsOK, Reserved
  <2>3. sub[t].job \in queue' \/ (Passed(t)' /\ sub'[t].job = sub[t].job)
    BY <1>0, <1>2, <1>8, <2>2 DEF SubmitPush, Passed, CallState, NoCall
  <2>4. QED
    BY <1>0, <1>1, <1>3, <2>1, <2>3 DEF Passed
<1>9. QED
  BY <1>5, <1>6, <1>7, <1>8 DEF Submit

(* Nor does a worker drop its job before the request.                        *)
LEMMA PathsWorker ==
    ASSUME IInv, ContextsOK, PathsOK, NEW w \in Workers, WorkerStep(w)
    PROVE  PathsOK'
<1> USE DEF PathsOK, Place
<1>0. /\ wk \in [Workers -> WorkerState] /\ sub \in [Threads -> CallState]
      /\ UNCHANGED <<ctx, cancelled, runID, queueClosed, restarting, filter>>
      /\ tested \subseteq tested'
      /\ sub' = sub \/ (Running(w) /\ \E p, r : Call(w, p, r))
  BY DEF IInv, ShapeOK, WorkerStep, WorkerPop, WorkerCheck, WorkerLoad, WorkerPaused, WorkerError,
         WorkerSchedule, WorkerFiltered, WorkerHit, WorkerLink, WorkerPublish, WorkerMutate,
         WorkerRecurse, WorkerFinish, gateVars, queueVars
<1>1. \A t \in Threads : Passed(t) => sub'[t] = sub[t]
  BY <1>0 DEF Passed, Running, Call, NoCall, Threads
<1>2. \A v \in Workers : v # w => wk'[v] = wk[v]
  BY <1>0
  DEF WorkerStep, WorkerPop, WorkerCheck, WorkerLoad, WorkerPaused, WorkerError,
      WorkerSchedule, WorkerFiltered, WorkerHit, WorkerLink, WorkerPublish, WorkerMutate,
      WorkerRecurse, WorkerFinish, PassLimiter, Goto
<1>3. wk'[w].pc \in {"filters", "links", "children", "finish"} => wk'[w].job \in tested'
  <2>1. CASE WorkerPop(w) \/ WorkerCheck(w) \/ WorkerLoad(w) \/ WorkerPaused(w)
    BY <1>0, <2>1 DEF WorkerPop, WorkerCheck, WorkerLoad, WorkerPaused, PassLimiter, Goto,
                      WorkerState, Popping, Exited
  <2>2. CASE \/ WorkerError(w) \/ WorkerFiltered(w) \/ WorkerHit(w)
             \/ (\E b \in Tasks : WorkerSchedule(w, b))
    BY <1>0, <2>2 DEF WorkerError, WorkerFiltered, WorkerHit, WorkerSchedule, Goto,
                      WorkerState, Popping, Exited
  <2>3. CASE \/ WorkerLink(w) \/ WorkerMutate(w) \/ WorkerPublish(w) \/ WorkerRecurse(w)
             \/ WorkerFinish(w)
    <3>1. tested' = tested /\ wk[w].job \in tested
      BY <2>3 DEF WorkerLink, WorkerMutate, WorkerPublish, WorkerRecurse, WorkerFinish
    <3>2. wk'[w] \in {Popping, Exited} \/ wk'[w].job = wk[w].job
      BY <1>0, <2>3 DEF WorkerLink, WorkerMutate, WorkerPublish, WorkerRecurse, WorkerFinish,
                        Goto, WorkerState, Popping, Exited
    <3>3. QED
      BY <3>1, <3>2 DEF Popping, Exited
  <2>4. QED
    BY <2>1, <2>2, <2>3 DEF WorkerStep
<1>4. SUFFICES ASSUME ~Cancelled(ctx), ~queueClosed, NEW p \in filter
               PROVE  Place([path |-> p, run |-> runID])'
  BY <1>0, <1>2, <1>3 DEF Cancelled
<1> DEFINE j == [path |-> p, run |-> runID]
<1>5. Place(j)
  BY <1>4
<1>6. ~restarting
  BY <1>4 DEF ContextsOK, Cancelled
<1>7. \A v \in Busy : v # w => v \in Busy' /\ wk'[v].job = wk[v].job
  BY <1>2 DEF Busy, Idle
<1>8. /\ w \in Busy /\ wk[w].job = j =>
           (w \in Busy' /\ wk'[w].job = j) \/ j \in tested'
      /\ j \in queue => j \in queue' \/ (w \in Busy' /\ wk'[w].job = j)
  <2>1. CASE WorkerPop(w)
    <3>1. w \notin Busy
      BY <1>0, <2>1 DEF WorkerPop, Busy, Idle, WorkerState, Popping, Exited
    <3>2. \/ queue' = queue
          \/ \E k \in queue : queue' = queue \ {k} /\ wk'[w] = [pc |-> "check", job |-> k]
      BY <1>0, <2>1 DEF WorkerPop
    <3>3. ASSUME NEW k, wk'[w] = [pc |-> "check", job |-> k]
          PROVE  w \in Busy' /\ wk'[w].job = k
      BY <3>3 DEF Busy, Idle, Popping, Exited
    <3>4. QED
      BY <3>1, <3>2, <3>3
  <2>2. CASE WorkerCheck(w) \/ WorkerLoad(w) \/ WorkerPaused(w)
    <3>1. queue' = queue /\ w \in Busy
      BY <2>2 DEF WorkerCheck, WorkerLoad, WorkerPaused, queueVars, Busy, Idle, Popping, Exited
    <3>2. wk[w].job.run = runID /\ (wk[w].pc = "paused" => wk[w].ctx = ctx)
      BY <1>6, <3>1 DEF IInv, RunsOK, ContextsOK, Busy
    <3>3. w \in Busy' /\ wk'[w].job = wk[w].job
      BY <1>0, <1>4, <2>2, <3>2 DEF WorkerCheck, WorkerLoad, WorkerPaused, PassLimiter, Goto,
                      Cancelled, WorkerState, Busy, Idle, Popping, Exited
    <3>4. QED
      BY <3>1, <3>3
  <2>3. CASE \/ WorkerError(w) \/ WorkerFiltered(w) \/ WorkerHit(w)
             \/ (\E b \in Tasks : WorkerSchedule(w, b))
    <3>1. queue' = queue /\ w \in Busy /\ wk[w].pc \in {"request", "filters"}
      BY <2>3 DEF WorkerError, WorkerFiltered, WorkerHit, WorkerSchedule, queueVars,
                  Busy, Idle, Popping, Exited
    <3>2. ~Cancelled(wk[w].ctx)
      BY <1>4, <1>6, <3>1 DEF ContextsOK, Busy
    <3>3. wk[w].job \in tested'
      BY <2>3, <3>2 DEF WorkerError, WorkerFiltered, WorkerHit, WorkerSchedule
    <3>4. QED
      BY <3>1, <3>3
  <2>4. CASE \/ WorkerLink(w) \/ WorkerMutate(w) \/ WorkerPublish(w) \/ WorkerRecurse(w)
             \/ WorkerFinish(w)
    <3>1. queue' = queue /\ wk[w].job \in tested
      BY <2>4 DEF WorkerLink, WorkerMutate, WorkerPublish, WorkerRecurse, WorkerFinish, queueVars
    <3>2. QED
      BY <1>0, <3>1
  <2>5. QED
    BY <2>1, <2>2, <2>3, <2>4 DEF WorkerStep
<1>9. CASE \E v \in Busy : wk[v].job = j
  <2>1. PICK v \in Busy : wk[v].job = j
    BY <1>9
  <2>2. CASE v = w
    BY <1>0, <1>8, <2>1, <2>2
  <2>3. CASE v # w
    BY <1>0, <1>7, <2>1, <2>3
  <2>4. QED
    BY <2>2, <2>3
<1>10. CASE \E t \in Threads : Passed(t) /\ sub[t].job = j
  <2>1. PICK t \in Threads : Passed(t) /\ sub[t].job = j
    BY <1>10
  <2>2. Passed(t)' /\ sub'[t].job = j
    BY <1>1, <2>1 DEF Passed
  <2>3. QED
    BY <1>0, <2>2
<1>11. CASE j \in tested \union queue
  BY <1>0, <1>8, <1>11
<1>12. QED
  BY <1>5, <1>9, <1>10, <1>11

(* A step that starts a Submit call at most moves no path.                   *)
LEMMA PathsStay ==
    ASSUME IInv, PathsOK, NEW t \in Threads,
           sub' = sub \/ (Running(t) /\ \E p, r : Call(t, p, r)),
           UNCHANGED <<wk, tested, ctx, cancelled, runID, queue, queueClosed, filter>>
    PROVE  PathsOK'
<1>1. \A u \in Threads : Passed(u) => sub'[u] = sub[u]
  BY DEF IInv, ShapeOK, Passed, Running, Call, NoCall
<1>2. Busy' = Busy
  BY DEF Busy, Idle
<1>3. SUFFICES ASSUME ~Cancelled(ctx), ~queueClosed, NEW p \in filter
               PROVE  Place([path |-> p, run |-> runID])'
  BY DEF PathsOK, Place, Cancelled
<1>4. Place([path |-> p, run |-> runID])
  BY <1>3 DEF PathsOK, Place
<1>5. QED
  BY <1>1, <1>2, <1>4 DEF Place, Passed

(* Only a cancelled context, a closed queue or a restart empties anything.   *)
LEMMA PathsOthers ==
    ASSUME IInv, ContextsOK, PathsOK, BeginRestart \/ RestartStep \/ Bystander
    PROVE  PathsOK'
<1>1. UNCHANGED <<sub, wk>> /\ Busy' = Busy
  BY DEF BeginRestart, RestartStep, CloseGate, AwaitSubmissions, drainJobs, AwaitActive,
         AwaitScanners, DrainReplay, ResetFilter, OpenGate, KickoffScanner, Bystander,
         DrainOldResults, BeginShutdown, ShutdownStep, ShutdownAwaitScanners,
         ShutdownCloseQueue, ShutdownCloseReplay, ShutdownCloseResults, WaitStep, WaitScanners,
         WaitActive, Consume, SetPaused, vars, Busy, Idle
<1>2. CASE ResetFilter
  <2>1. filter' = {} /\ Busy = {}
    BY <1>2 DEF ResetFilter, IInv, GateOK, AfterActive
  <2>2. \A w \in Workers : wk'[w].pc \notin {"filters", "links", "children", "finish"}
    BY <1>1, <2>1 DEF Busy, Idle, Popping, Exited
  <2>3. QED
    BY <2>1, <2>2 DEF PathsOK
<1>3. CASE OpenGate
  <2>1. filter' = {} /\ tested' = tested
    BY <1>3 DEF OpenGate, IInv, GateOK
  <2>2. QED
    BY <1>1, <2>1 DEF PathsOK
<1>4. CASE CloseGate \/ drainJobs \/ BeginShutdown \/ ShutdownCloseQueue
  <2>1. tested' = tested
    BY <1>4 DEF CloseGate, drainJobs, BeginShutdown, ShutdownCloseQueue
  <2>2. queueClosed' \/ Cancelled(ctx)'
    <3>1. CASE CloseGate
      BY <3>1 DEF CloseGate, ContextsOK, Cancelled
    <3>2. CASE drainJobs
      BY <3>2 DEF drainJobs, IInv, GateOK, AfterDrain, ContextsOK, Cancelled, gateVars
    <3>3. CASE BeginShutdown \/ ShutdownCloseQueue
      BY <3>3 DEF BeginShutdown, ShutdownCloseQueue, Cancelled
    <3>4. QED
      BY <1>4, <3>1, <3>2, <3>3
  <2>3. QED
    BY <1>1, <2>1, <2>2 DEF PathsOK
<1>5. CASE UNCHANGED <<tested, ctx, cancelled, runID, queue, queueClosed, filter>>
  BY <1>1, <1>5, PathsStay DEF Threads
<1>6. QED
  BY <1>2, <1>3, <1>4, <1>5
  DEF BeginRestart, RestartStep, AwaitSubmissions, AwaitActive, AwaitScanners, DrainReplay,
      KickoffScanner, Bystander, DrainOldResults, ShutdownStep, ShutdownAwaitScanners,
      ShutdownCloseReplay, ShutdownCloseResults, WaitStep, WaitScanners,
      WaitActive, Consume, SetPaused, vars, gateVars, queueVars

LEMMA PathsStep ==
    ASSUME IInv, ContextsOK, PathsOK, [Next]_vars
    PROVE  PathsOK'
<1>1. CASE ScannerStep
  BY <1>1, PathsStay
  DEF Threads, ScannerStep, ScanOpen, ScanLine, ScanEnd, ScanPublish, gateVars, queueVars
<1>2. ASSUME NEW b \in Tasks, TaskStep(b)
      PROVE  PathsOK'
  BY <1>2, PathsStay
  DEF Threads, TaskStep, BranchAdmit, BranchProbe, BranchScan, BranchLeave, AuxSubmit, AuxPublish,
      BranchQuit, gateVars, queueVars
<1>3. QED
  BY <1>1, <1>2, PathsSubmit, PathsWorker, PathsOthers DEF Next, Bystander, Terminated

LEMMA PathsInit == Init => ContextsOK /\ PathsOK
<1> SUFFICES ASSUME Init PROVE ContextsOK /\ PathsOK
  OBVIOUS
<1>1. ContextsOK
  BY DEF Init, ContextsOK, Idle, Reserved, NoCall, NewScan, Popping
<1>2. PathsOK
  BY DEF Init, PathsOK, Popping
<1>3. QED
  BY <1>1, <1>2

LEMMA PathsInvariant == Safety => [](IInv /\ ContextsOK /\ PathsOK)
<1>1. IInv /\ ContextsOK /\ PathsOK /\ [Next]_vars => (IInv /\ ContextsOK /\ PathsOK)'
  BY IInvStep, ContextsStep, PathsStep
<1>2. QED
  BY <1>1, IInvInit, PathsInit, PTL DEF Safety

(* The filter swallows no path: whatever Submit put into it is requested, or *)
(* on its way, as long as the scan is neither cancelled nor shut down.       *)
THEOREM LifecyclePaths == Safety => []PathAccounted
<1>1. IInv /\ PathsOK => PathAccounted
  <2> SUFFICES ASSUME IInv, PathsOK, ~Cancelled(ctx), ~queueClosed, NEW p \in filter
               PROVE  LET j == [path |-> p, run |-> runID] IN
                      \/ j \in tested \union HeldJobs
                      \/ \E t \in Admitted : sub[t].job = j
    BY DEF PathAccounted
  <2>1. \A t \in Threads : Passed(t) => t \in Admitted
    BY DEF Passed, Admitted
  <2>2. QED
    BY <2>1 DEF PathsOK, HeldJobs
<1>2. QED
  BY <1>1, PathsInvariant, PTL
-----------------------------------------------------------------------------
(* With no busy worker, no live task and no scanner, nobody is in Submit.    *)
LEMMA NobodySubmits ==
    ASSUME IInv, Busy = {}, LiveTasks = {}, scan = Off
    PROVE  \A t \in Threads : Running(t) /\ t \notin Admitted /\ ~Passed(t)
<1>1. \A t \in Threads : Running(t)
  BY DEF IInv, OwnerOK, Busy, Idle, Popping, Exited, LiveTasks, Off
<1>2. QED
  BY <1>1 DEF Running, NoCall, Admitted, Passed

(* Work that has come to rest stays at rest until a restart.                 *)
LEMMA StillStays ==
    ASSUME IInv, cw = "idle", Still, [Next]_vars
    PROVE  Still' /\ filter' = filter /\ tested' = tested
<1>0. /\ wk \in [Workers -> WorkerState] /\ tk \in [Tasks -> TaskState]
      /\ \A t \in Threads : Running(t)
  BY NobodySubmits DEF IInv, ShapeOK, Still
<1>1. ASSUME NEW t \in Threads, Submit(t)
      PROVE  FALSE
  BY <1>0, <1>1 DEF Running, NoCall, Submit, SubmitGate, SubmitRejected, SubmitAdmitted,
                    SubmitFilter, SubmitReserve, SubmitPush
<1>2. ~ScannerStep
  BY DEF Still, Off, ScannerStep, ScanOpen, ScanLine, ScanEnd, ScanPublish
<1>3. ASSUME NEW w \in Workers, WorkerStep(w)
      PROVE  Still' /\ filter' = filter /\ tested' = tested
  <2>1. wk[w] \in {Popping, Exited} /\ queue = {}
    BY DEF Still, Busy, Idle
  <2>2. WorkerPop(w)
    BY <1>3, <2>1 DEF WorkerStep, WorkerCheck, WorkerLoad, WorkerPaused, WorkerError,
         WorkerSchedule, WorkerFiltered, WorkerHit, WorkerLink, WorkerPublish, WorkerMutate,
         WorkerRecurse, WorkerFinish, Popping, Exited
  <2>3. wk' = [wk EXCEPT ![w] = Exited] /\ UNCHANGED <<tk, sub, scan, queue, filter, tested>>
    BY <2>1, <2>2 DEF WorkerPop
  <2>4. Busy' = {}
    BY <1>0, <2>3 DEF Still, Busy, Idle
  <2>5. QED
    BY <2>3, <2>4 DEF Still, LiveTasks, Admitted
<1>4. ASSUME NEW b \in Tasks, TaskStep(b)
      PROVE  Still' /\ filter' = filter /\ tested' = tested
  <2>1. tk[b].pc \in {"off", "leave"}
    BY DEF Still, LiveTasks
  <2>2. tk' = [tk EXCEPT ![b] = Off] /\ UNCHANGED <<wk, sub, scan, queue, filter, tested>>
    BY <1>4, <2>1 DEF TaskStep, BranchAdmit, BranchProbe, BranchScan, BranchLeave, AuxSubmit,
                      AuxPublish, queueVars
  <2>3. LiveTasks' = {}
    BY <1>0, <2>2 DEF Still, LiveTasks, Off
  <2>4. QED
    BY <2>2, <2>3 DEF Still, Busy, Idle, Admitted
<1>5. CASE BeginRestart \/ RestartStep \/ Bystander
  <2>1. UNCHANGED <<wk, tk, sub, scan, queue, filter, tested>>
    BY <1>5 DEF BeginRestart, RestartStep, CloseGate, AwaitSubmissions, drainJobs, AwaitActive,
         AwaitScanners, DrainReplay, ResetFilter, OpenGate, KickoffScanner, Bystander,
         DrainOldResults, BeginShutdown, ShutdownStep, ShutdownAwaitScanners,
         ShutdownCloseQueue, ShutdownCloseReplay, ShutdownCloseResults, WaitStep, WaitScanners,
         WaitActive, Consume, SetPaused, vars, queueVars
  <2>2. QED
    BY <2>1 DEF Still, Busy, Idle, LiveTasks, Admitted
<1>6. QED
  BY <1>1, <1>2, <1>3, <1>4, <1>5 DEF Next, Bystander, Terminated

(* The state of the three calls changes in their own steps only.             *)
LEMMA CallsStay ==
    ASSUME [Next]_vars,
           ~BeginRestart, ~RestartStep, ~BeginShutdown, ~ShutdownStep, ~WaitStep
    PROVE  /\ UNCHANGED <<cw, sd, wt, ctx, cancelled, runID, queueClosed, chansClosed>>
           /\ scan = Off => scan' = Off
<1>1. ASSUME NEW t \in Threads, Submit(t)
      PROVE  UNCHANGED <<cw, sd, wt, ctx, cancelled, runID, queueClosed, chansClosed, scan>>
  BY <1>1 DEF Submit, SubmitGate, SubmitFilter, SubmitReserve, SubmitPush, gateVars, queueVars,
              chanVars, callVars
<1>2. CASE ScannerStep
  BY <1>2 DEF ScannerStep, ScanOpen, ScanLine, ScanEnd, ScanPublish, Publish, Off, gateVars,
              queueVars, chanVars, callVars
<1>3. ASSUME NEW w \in Workers, WorkerStep(w)
      PROVE  UNCHANGED <<cw, sd, wt, ctx, cancelled, runID, queueClosed, chansClosed, scan>>
  BY <1>3
  DEF WorkerStep, WorkerPop, WorkerCheck, WorkerLoad, WorkerPaused, WorkerError,
      WorkerSchedule, WorkerFiltered, WorkerHit, WorkerLink, WorkerPublish, WorkerMutate,
      WorkerRecurse, WorkerFinish, Publish, gateVars, queueVars, chanVars, callVars
<1>4. ASSUME NEW b \in Tasks, TaskStep(b)
      PROVE  UNCHANGED <<cw, sd, wt, ctx, cancelled, runID, queueClosed, chansClosed, scan>>
  BY <1>4 DEF TaskStep, BranchAdmit, BranchProbe, BranchScan, BranchLeave, AuxSubmit, AuxPublish,
              Publish, gateVars, queueVars, chanVars, callVars
<1>5. QED
  BY <1>1, <1>2, <1>3, <1>4
  DEF Next, Terminated, DrainOldResults, Consume, SetPaused, vars, gateVars, queueVars,
      chanVars, callVars

LEMMA ShutStep ==
    ASSUME "restart" \notin UserActs, IInv, ShutOK, [Next]_vars
    PROVE  ShutOK'
<1>1. ~BeginRestart /\ ~RestartStep
  BY DEF ShutOK, BeginRestart, RestartStep, CloseGate, AwaitSubmissions, drainJobs, AwaitActive,
         AwaitScanners, DrainReplay, ResetFilter, OpenGate, KickoffScanner
<1>2. Still => Still'
  BY StillStays DEF ShutOK
<1>3. CASE BeginShutdown \/ WaitStep
  BY <1>2, <1>3 DEF ShutOK, BeginShutdown, WaitStep, WaitScanners, WaitActive, chanVars
<1>4. CASE ShutdownAwaitScanners
  BY <1>4, ZeroCounts DEF ShutdownAwaitScanners, ShutOK, IInv, chanVars
<1>5. CASE ShutdownCloseQueue
  <2>1. queue = {} /\ Busy = {} /\ LiveTasks = {} /\ scan = Off
    BY <1>5, ZeroCounts DEF ShutdownCloseQueue, ShutOK, IInv
  <2>2. Still
    BY <2>1, NobodySubmits DEF Still, Admitted
  <2>3. QED
    BY <1>2, <1>5, <2>2 DEF ShutdownCloseQueue, ShutOK, Still, chanVars
<1>6. CASE ShutdownCloseReplay \/ ShutdownCloseResults
  BY <1>2, <1>6 DEF ShutdownCloseReplay, ShutdownCloseResults, ShutOK
<1>7. CASE ~BeginShutdown /\ ~ShutdownStep /\ ~WaitStep
  BY <1>1, <1>2, <1>7, CallsStay DEF ShutOK
<1>8. QED
  BY <1>3, <1>4, <1>5, <1>6, <1>7 DEF ShutdownStep

(* Nobody sends on e.Results, or submits, after Shutdown has closed it,      *)
(* whenever Shutdown is called.  A restart that races Shutdown is excluded:  *)
(* the scanner it launches is not one that Shutdown has waited for.          *)
THEOREM LifecycleNoSendOnClosed ==
    ASSUME "restart" \notin UserActs
    PROVE  Safety => []NoSendOnClosed
<1>1. Init => ShutOK
  BY DEF Init, ShutOK
<1>2. IInv /\ ShutOK /\ [Next]_vars => (IInv /\ ShutOK)'
  BY IInvStep, ShutStep
<1>3. ShutOK => NoSendOnClosed
  BY DEF ShutOK, Still, NoSendOnClosed
<1>4. QED
  BY <1>1, <1>2, <1>3, IInvInit, PTL DEF Safety
-----------------------------------------------------------------------------
(* A scan that nobody stops or restarts (runPlain).                          *)
PlainRun == UserActs \subseteq {"pause", "finish"}

LEMMA ScanStep ==
    ASSUME PlainRun, IInv, ContextsOK, PathsOK, ScanOK, [Next]_vars
    PROVE  ScanOK'
<1> DEFINE AllTested == \A p \in filter : [path |-> p, run |-> runID] \in tested
<1>1. /\ ~BeginRestart /\ ~RestartStep
      /\ cw = "idle" /\ ~restarting /\ runID = 1
  BY DEF PlainRun, ScanOK, BeginRestart, RestartStep, CloseGate, AwaitSubmissions, drainJobs,
         AwaitActive, AwaitScanners, DrainReplay, ResetFilter, OpenGate, KickoffScanner, IInv,
         GateOK, AfterDrain
<1>2. Still /\ AllTested /\ runID' = runID => Still' /\ AllTested'
  BY <1>1, StillStays
<1>3. ~Running(Scanner)' => sub'[Scanner].job.run = 1
  <2>0. sub \in [Threads -> CallState] /\ Scanner \in Threads
    BY DEF IInv, ShapeOK, Threads
  <2>1. ASSUME NEW t \in Threads, Submit(t)
        PROVE  \/ sub'[Scanner] = sub[Scanner] \/ sub'[Scanner] = NoCall
               \/ ~Running(Scanner) /\ sub'[Scanner].job = sub[Scanner].job
    BY <2>0, <2>1 DEF Submit, SubmitGate, SubmitRejected, SubmitAdmitted, SubmitFilter,
                      SubmitReserve, SubmitPush, Return, CallState, NoCall, Running
  <2>2. CASE ScannerStep
    <3>1. sub' = sub \/ \E p : Call(Scanner, p, scan.run)
      BY <2>2 DEF ScannerStep, ScanOpen, ScanLine, ScanEnd, ScanPublish
    <3>2. scan # Off /\ scan.run = 1
      BY <1>1, <2>2 DEF IInv, RunsOK, ScannerStep, ScanOpen, ScanLine, ScanEnd, ScanPublish, Off
    <3>3. QED
      BY <2>0, <3>1, <3>2 DEF Call, Running, ScanOK
  <2>3. ASSUME NEW w \in Workers, WorkerStep(w)
        PROVE  sub'[Scanner] = sub[Scanner]
    <3>1. sub' = sub \/ \E p, r : Call(w, p, r)
      BY <2>3
      DEF WorkerStep, WorkerPop, WorkerCheck, WorkerLoad, WorkerPaused, WorkerError,
          WorkerSchedule, WorkerFiltered, WorkerHit, WorkerLink, WorkerPublish, WorkerMutate,
          WorkerRecurse, WorkerFinish
    <3>2. w # Scanner
      BY LifecycleAssumption
    <3>3. QED
      BY <2>0, <3>1, <3>2 DEF Call
  <2>4. ASSUME NEW b \in Tasks, TaskStep(b)
        PROVE  sub'[Scanner] = sub[Scanner]
    <3>1. sub' = sub \/ \E p, r : Call(b, p, r)
      BY <2>4 DEF TaskStep, BranchAdmit, BranchProbe, BranchScan, BranchLeave, AuxSubmit,
                  AuxPublish, BranchQuit
    <3>2. b # Scanner
      BY LifecycleAssumption
    <3>3. QED
      BY <2>0, <3>1, <3>2 DEF Call
  <2>5. CASE Bystander
    BY <2>5 DEF Bystander, DrainOldResults, BeginShutdown, ShutdownStep, ShutdownAwaitScanners,
         ShutdownCloseQueue, ShutdownCloseReplay, ShutdownCloseResults, WaitStep, WaitScanners,
         WaitActive, Consume, SetPaused, vars, Running, ScanOK
  <2>6. QED
    BY <1>1, <2>1, <2>2, <2>3, <2>4, <2>5 DEF Next, Bystander, Terminated, Running, ScanOK
<1>4. CASE WaitScanners
  <2>1. scan = Off
    BY <1>4, ZeroCounts DEF WaitScanners, IInv
  <2>2. QED
    BY <1>1, <1>3, <1>4, <2>1 DEF WaitScanners, ScanOK, gateVars, queueVars
<1>5. CASE WaitActive
  <2>1. queue = {} /\ Busy = {} /\ LiveTasks = {} /\ scan = Off
    BY <1>5, ZeroCounts DEF WaitActive, IInv, ScanOK
  <2>2. Still /\ \A t \in Threads : ~Passed(t)
    BY <2>1, NobodySubmits DEF Still, Admitted
  <2>3. ~Cancelled(ctx) /\ ~queueClosed
    BY <1>5 DEF WaitActive, ScanOK, Cancelled
  <2>4. AllTested
    BY <2>1, <2>2, <2>3 DEF PathsOK
  <2>5. runID' = runID
    BY <1>5 DEF WaitActive, gateVars
  <2>6. Still' /\ AllTested'
    BY <1>2, <2>2, <2>4, <2>5
  <2>7. QED
    BY <1>1, <1>3, <1>5, <2>6 DEF WaitActive, ScanOK, Still, gateVars, queueVars
<1>6. CASE BeginShutdown \/ ShutdownStep
  <2>1. wt = "done"
    BY <1>6 DEF PlainRun, ScanOK, BeginShutdown, ShutdownStep, ShutdownAwaitScanners,
         ShutdownCloseQueue, ShutdownCloseReplay, ShutdownCloseResults
  <2>2. UNCHANGED <<cw, wt, runID>> /\ sd' # "idle"
    BY <1>6 DEF BeginShutdown, ShutdownStep, ShutdownAwaitScanners,
         ShutdownCloseQueue, ShutdownCloseReplay, ShutdownCloseResults, gateVars
  <2>3. Still' /\ AllTested'
    BY <1>2, <2>1, <2>2 DEF ScanOK
  <2>4. QED
    BY <1>1, <1>3, <2>1, <2>2, <2>3 DEF ScanOK, Still
<1>7. CASE ~BeginShutdown /\ ~ShutdownStep /\ ~WaitStep
  <2>1. /\ UNCHANGED <<cw, sd, wt, ctx, cancelled, runID, queueClosed>>
        /\ scan = Off => scan' = Off
    BY <1>1, <1>7, CallsStay
  <2>2. wt = "done" => Still' /\ AllTested'
    BY <1>2, <2>1 DEF ScanOK
  <2>3. QED
    BY <1>1, <1>3, <2>1, <2>2 DEF ScanOK
<1>8. QED
  BY <1>4, <1>5, <1>6, <1>7 DEF WaitStep

(* Every line the scanner has read is in the filter, or in its Submit call.  *)
LEMMA WordsStep ==
    ASSUME PlainRun, IInv, ContextsOK, ScanOK, WordsOK, [Next]_vars
    PROVE  WordsOK'
<1> SUFFICES ASSUME "ioerror" \notin Features
             PROVE  WordsOK'
  BY DEF WordsOK
<1> DEFINE Read(n) == scan = Off \/ n < scan.next
           Entered(n) == <<n>> \in filter \/ (~Running(Scanner) /\ sub[Scanner].job.path = <<n>>)
<1>0. /\ sub \in [Threads -> CallState] /\ Scanner \in Threads
      /\ ~BeginRestart /\ ~RestartStep /\ cw = "idle" /\ ~restarting /\ runID = 1
  BY DEF IInv, ShapeOK, Threads, PlainRun, ScanOK, BeginRestart, RestartStep, CloseGate,
         AwaitSubmissions, drainJobs, AwaitActive, AwaitScanners, DrainReplay, ResetFilter,
         OpenGate, KickoffScanner, GateOK, AfterDrain
<1>1. scan.pc # "publish" /\ \A n \in Word : Read(n) => Entered(n)
  BY DEF WordsOK
<1>2. CASE ScannerStep
  <2>0. filter' = filter
    BY <1>2 DEF ScannerStep, ScanOpen, ScanLine, ScanEnd, ScanPublish
  <2>1. CASE ScanOpen
    <3>1. scan.pc = "open" /\ scan' = [scan EXCEPT !.pc = "line"] /\ sub' = sub
      BY <2>1 DEF ScanOpen
    <3>2. scan # Off /\ scan'.pc = "line" /\ scan'.next = scan.next
      BY <3>1 DEF IInv, ShapeOK, ScanState, Off
    <3>3. QED
      BY <1>1, <2>0, <3>1, <3>2 DEF WordsOK, Running, Off
  <2>2. CASE ScanLine
    <3>1. /\ scan.next \in Nat /\ scan # Off /\ scan' # Off /\ scan'.pc = "line"
          /\ scan'.next = scan.next + 1 /\ Running(Scanner)
      BY <2>2 DEF ScanLine, IInv, ShapeOK, ScanState, Cursor, Off
    <3>2. ~Running(Scanner)' /\ sub'[Scanner].job.path = <<scan.next>>
      BY <1>0, <2>2 DEF ScanLine, Call, Running, NoCall
    <3>3. \A n \in Word : n < scan'.next => n < scan.next \/ n = scan.next
      BY <3>1 DEF Word
    <3>4. QED
      BY <1>1, <2>0, <3>1, <3>2, <3>3 DEF WordsOK
  <2>3. CASE ScanEnd
    <3>1. ~Cancelled(scan.ctx) /\ scan # Off
      BY <1>0, <2>3 DEF ScanEnd, ContextsOK, ScanOK, Cancelled, Still, Off
    <3>2. scan.next > NumWords /\ scan' = Off /\ Running(Scanner) /\ sub' = sub
      BY <2>3, <3>1 DEF ScanEnd
    <3>3. \A n \in Word : n < scan.next
      BY <3>1, <3>2, LifecycleAssumption DEF Word, IInv, ShapeOK, ScanState, Cursor
    <3>4. QED
      BY <1>1, <2>0, <3>2, <3>3 DEF WordsOK, Running, Off
  <2>4. ~ScanPublish
    BY <1>1 DEF ScanPublish
  <2>5. QED
    BY <1>2, <2>1, <2>2, <2>3, <2>4 DEF ScannerStep
<1>3. CASE ~ScannerStep
  <2>1. /\ scan' = scan /\ filter \subseteq filter'
        /\ \/ sub'[Scanner] = sub[Scanner]
           \/ Submit(Scanner)
    <3>1. ASSUME NEW t \in Threads, Submit(t)
          PROVE  /\ scan' = scan /\ filter \subseteq filter'
                 /\ t # Scanner => sub'[Scanner] = sub[Scanner]
      BY <1>0, <3>1 DEF Submit, SubmitGate, SubmitRejected, SubmitAdmitted, SubmitFilter,
                        SubmitReserve, SubmitPush, Return
    <3>2. ASSUME NEW w \in Workers, WorkerStep(w)
          PROVE  scan' = scan /\ filter' = filter /\ sub'[Scanner] = sub[Scanner]
      <4>1. scan' = scan /\ filter' = filter /\ (sub' = sub \/ \E p, r : Call(w, p, r))
        BY <3>2
        DEF WorkerStep, WorkerPop, WorkerCheck, WorkerLoad, WorkerPaused, WorkerError,
            WorkerSchedule, WorkerFiltered, WorkerHit, WorkerLink, WorkerPublish, WorkerMutate,
            WorkerRecurse, WorkerFinish
      <4>2. w # Scanner
        BY LifecycleAssumption
      <4>3. QED
        BY <1>0, <4>1, <4>2 DEF Call
    <3>3. ASSUME NEW b \in Tasks, TaskStep(b)
          PROVE  scan' = scan /\ filter' = filter /\ sub'[Scanner] = sub[Scanner]
      <4>1. scan' = scan /\ filter' = filter /\ (sub' = sub \/ \E p, r : Call(b, p, r))
        BY <3>3 DEF TaskStep, BranchAdmit, BranchProbe, BranchScan, BranchLeave, AuxSubmit,
                    AuxPublish, BranchQuit
      <4>2. b # Scanner
        BY LifecycleAssumption
      <4>3. QED
        BY <1>0, <4>1, <4>2 DEF Call
    <3>4. CASE Bystander
      BY <3>4 DEF Bystander, DrainOldResults, BeginShutdown, ShutdownStep, ShutdownAwaitScanners,
           ShutdownCloseQueue, ShutdownCloseReplay, ShutdownCloseResults, WaitStep, WaitScanners,
           WaitActive, Consume, SetPaused, vars
    <3>5. QED
      BY <1>0, <1>3, <3>1, <3>2, <3>3, <3>4 DEF Next, Bystander, Terminated
  <2>2. CASE sub'[Scanner] = sub[Scanner]
    BY <1>1, <2>1, <2>2 DEF WordsOK, Running
  <2>3. CASE Submit(Scanner)
    <3>1. ~Running(Scanner) /\ sub[Scanner].job.run = 1
      BY <2>3 DEF Submit, SubmitGate, SubmitRejected, SubmitAdmitted, SubmitFilter,
                  SubmitReserve, SubmitPush, ScanOK, Running, NoCall
    <3>2. ~SubmitRejected(Scanner)
      BY <1>0, <3>1 DEF SubmitRejected
    <3>3. \/ sub[Scanner].job.path \in filter'
          \/ ~Running(Scanner)' /\ sub'[Scanner].job = sub[Scanner].job
      <4>1. CASE SubmitGate(Scanner)
        BY <1>0, <3>2, <4>1 DEF SubmitGate, SubmitAdmitted, CallState, NoCall, Running
      <4>2. CASE SubmitFilter(Scanner)
        BY <4>2 DEF SubmitFilter
      <4>3. CASE SubmitReserve(Scanner) \/ SubmitPush(Scanner)
        <5>1. Passed(Scanner) /\ filter' = filter
          BY <4>3 DEF SubmitReserve, SubmitPush, Passed
        <5>2. QED
          BY <1>0, <5>1 DEF IInv, UniqueOK
      <4>4. QED
        BY <2>3, <4>1, <4>2, <4>3 DEF Submit
    <3>4. QED
      BY <1>1, <2>1, <3>3 DEF WordsOK
  <2>4. QED
    BY <2>1, <2>2, <2>3
<1>4. QED
  BY <1>2, <1>3

(* Wait returns when every word and every path found on the way has been     *)
(* requested and nothing is left to do, though it waits for the scanners and *)
(* the jobs one after the other and branches are found in between.           *)
THEOREM LifecycleWaitMeansDone ==
    ASSUME PlainRun
    PROVE  Safety => []WaitMeansDone
<1> DEFINE Inv == IInv /\ ContextsOK /\ PathsOK /\ ScanOK /\ WordsOK
<1>1. Init => ScanOK /\ WordsOK
  BY DEF Init, ScanOK, WordsOK, NewScan, Off, Running, Threads, Word
<1>2. Inv /\ [Next]_vars => Inv'
  BY IInvStep, ContextsStep, PathsStep, ScanStep, WordsStep
<1>3. Inv => WaitMeansDone
  <2> SUFFICES ASSUME Inv, wt = "done"
               PROVE  WaitMeansDone
    BY DEF WaitMeansDone
  <2>1. Still /\ \A p \in filter : [path |-> p, run |-> runID] \in tested
    BY DEF ScanOK
  <2>2. Running(Scanner)
    BY <2>1, NobodySubmits DEF Still, Threads
  <2>3. QED
    BY <2>1, <2>2 DEF Still, WordsOK, WaitMeansDone
<1>4. QED
  BY <1>1, <1>2, <1>3, IInvInit, PathsInit, PTL DEF Safety
=============================================================================

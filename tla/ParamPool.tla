------------------------------ MODULE ParamPool ------------------------------
(* The hidden-parameter pool (pkg/engine/paramfuzz.go): scan workers queue   *)
(* tasks on a bounded channel, fuzzers take them, and a parameter found on   *)
(* one PHP endpoint is tried on every PHP endpoint known so far.  Wait and   *)
(* Shutdown (engine.go) are modelled as far as they concern the pool.        *)
(*                                                                           *)
(* A task is a target and its hints; the keys of paramTaskSeen are the tasks *)
(* (paramTaskQueueIdentity).  The second key that enqueueParamTask stores,   *)
(* the identity without hints, is never looked up and is left out.           *)
EXTENDS Naturals, Sequences, FiniteSets

CONSTANTS Targets,    \* endpoints that produce results
          PHP,        \* those among them whose path ends in .php
          Params,     \* parameter names
          Own,        \* sets of hints that a response can carry
          Wordlist,   \* the configured parameter wordlist
          Exists,     \* Exists[t]: the parameters that t reacts to
          Reporters,  \* scan workers
          Fuzzers,    \* goroutines running paramFuzzWorker
          Capacity,   \* paramTaskQueueSize
          MaxReports  \* bound: results that are reported

(* A .php target is one of the targets, hints and parameters are names.      *)
ASSUME ParamAssumption ==
    /\ Targets # {} /\ Params # {} /\ PHP \subseteq Targets
    /\ Own \subseteq SUBSET Params /\ Wordlist \subseteq Params
    /\ Exists \in [Targets -> SUBSET Params]
    /\ IsFiniteSet(Fuzzers) /\ Reporters \intersect Fuzzers = {}
    /\ Capacity \in Nat /\ MaxReports \in Nat

VARIABLES tasks,      \* paramTaskChan
          closed,     \* it is closed
          seen,       \* paramTaskSeen
          pending,    \* paramTasksWg
          hints,      \* paramHintsSeen
          known,      \* phpParamTargets: one task per target
          hitSeen,    \* paramHitSeen
          published,  \* history: how often each hit was published
          pc,         \* pc[g]: what goroutine g is doing
          task,       \* task[g]: the task in its hands
          todo,       \* todo[g]: tasks it has yet to enqueue
          hits,       \* hits[f]: hits f has yet to handle
          hit,        \* hit[f]: the hit f handles
          reports,    \* results the scan has yet to report
          cancelled,  \* the scanner context is cancelled
          caller,     \* how far Wait and Shutdown are
          panicked    \* a send on the closed channel ended the program

chanVars == <<tasks, closed, seen, pending>>
learnVars == <<hints, known, hitSeen, published>>
hitVars == <<hits, hit>>
callVars == <<reports, cancelled, caller>>
poolVars == <<chanVars, learnVars, pc, task, todo, hitVars, callVars, panicked>>

Task == [target : Targets, hints : SUBSET Params]
Hit == Targets \X Params
Goroutines == Reporters \union Fuzzers
SomeTask == CHOOSE k \in Task : TRUE
SomeHit == CHOOSE h \in Hit : TRUE

PoolInit ==
    /\ tasks = <<>> /\ closed = FALSE /\ seen = {} /\ pending = 0
    /\ hints = {} /\ known = {} /\ hitSeen = {}
    /\ published = [h \in Hit |-> 0]
    /\ pc = [g \in Goroutines |-> "idle"]
    /\ task = [g \in Goroutines |-> SomeTask]
    /\ todo = [g \in Goroutines |-> {}]
    /\ hits = [f \in Fuzzers |-> {}]
    /\ hit = [f \in Fuzzers |-> SomeHit]
    /\ reports = MaxReports /\ cancelled = FALSE /\ caller = "scanning"
    /\ panicked = FALSE

Goto(g, label) == pc' = [pc EXCEPT ![g] = label]
At(g, label) == pc[g] = label /\ ~panicked
-----------------------------------------------------------------------------
(* queueParamFuzzFromResult: the hints of a PHP target include those known   *)
(* to the whole process at this moment.                                      *)
queueParamFuzzFromResult(w) ==
    /\ At(w, "idle") /\ reports > 0 /\ ~cancelled
    /\ reports' = reports - 1
    /\ \E t \in Targets, own \in Own :
         LET all == own \union (IF t \in PHP THEN hints ELSE {}) IN
         IF Wordlist = {} THEN UNCHANGED <<task, pc>>
         ELSE /\ task' = [task EXCEPT ![w] = [target |-> t, hints |-> all]]
              /\ Goto(w, IF t \in PHP THEN "remember" ELSE "seen")
    /\ UNCHANGED <<chanVars, learnVars, todo, hitVars, cancelled, caller, panicked>>

rememberPHPParamTarget(w) ==
    /\ At(w, "remember")
    /\ known' = {k \in known : k.target # task[w].target} \union {task[w]}
    /\ Goto(w, "seen")
    /\ UNCHANGED <<chanVars, hints, hitSeen, published, task, todo, hitVars, callVars, panicked>>

(* A scan worker returns to its job, a fuzzer to the next known target or to *)
(* the hit.                                                                  *)
AfterEnqueue(g) ==
    IF todo[g] = {}
    THEN Goto(g, IF g \in Fuzzers THEN "mark" ELSE "idle") /\ UNCHANGED <<task, todo>>
    ELSE \E k \in todo[g] : /\ task' = [task EXCEPT ![g] = k]
                            /\ todo' = [todo EXCEPT ![g] = @ \ {k}]
                            /\ Goto(g, "seen")

(* enqueueParamTask: LoadOrStore of the key,                                 *)
EnqueueSeen(g) ==
    /\ At(g, "seen")
    /\ IF task[g] \in seen
       THEN AfterEnqueue(g) /\ UNCHANGED seen
       ELSE seen' = seen \union {task[g]} /\ Goto(g, "send") /\ UNCHANGED <<task, todo>>
    /\ UNCHANGED <<tasks, closed, pending, learnVars, hitVars, callVars, panicked>>

(* then paramTasksWg.Add and the select, whose send panics once the channel  *)
(* is closed; the default case calls Done                                    *)
EnqueueSend(g) ==
    /\ At(g, "send")
    /\ panicked' = closed
    /\ IF ~closed /\ Len(tasks) < Capacity
       THEN tasks' = Append(tasks, task[g]) /\ pending' = pending + 1 /\ AfterEnqueue(g)
       ELSE Goto(g, "rollback") /\ UNCHANGED <<tasks, pending, task, todo>>
    /\ UNCHANGED <<closed, seen, learnVars, hitVars, callVars>>

(* Mutant: a task that was dropped stays seen.                               *)
EnqueueForgets(g) ==
    /\ At(g, "rollback")
    /\ AfterEnqueue(g)
    /\ UNCHANGED <<chanVars, learnVars, hitVars, callVars, panicked>>

(* and the key is removed again.                                             *)
EnqueueRollback(g) ==
    /\ At(g, "rollback")
    /\ seen' = seen \ {task[g]}
    /\ AfterEnqueue(g)
    /\ UNCHANGED <<tasks, closed, pending, learnVars, hitVars, callVars, panicked>>
-----------------------------------------------------------------------------
(* paramFuzzWorker takes a task, or ends with the closed channel.            *)
Receive(f) ==
    /\ At(f, "idle")
    /\ IF tasks # <<>>
       THEN task' = [task EXCEPT ![f] = Head(tasks)] /\ tasks' = Tail(tasks) /\ Goto(f, "fuzz")
       ELSE closed /\ Goto(f, "gone") /\ UNCHANGED <<task, tasks>>
    /\ UNCHANGED <<closed, seen, pending, learnVars, todo, hitVars, callVars, panicked>>

Found(k) == {k.target} \X (Exists[k.target] \intersect (Wordlist \union k.hints))

(* FuzzParams and discoverParamHits.  A probe that fails counts as no match, *)
(* so a cancellation on the way leaves the hits found before it.             *)
FuzzParams(f) ==
    /\ At(f, "fuzz")
    /\ \E some \in SUBSET Found(task[f]) :
         /\ some = Found(task[f]) \/ cancelled
         /\ hits' = [hits EXCEPT ![f] = some]
    /\ Goto(f, "hits")
    /\ UNCHANGED <<chanVars, learnVars, task, todo, hit, callVars, panicked>>

(* One hit of runParamTask: a parameter new to the process is queued for     *)
(* every PHP target known now.                                               *)
rememberGlobalParamHints(f) ==
    /\ At(f, "hits") /\ hits[f] # {}
    /\ \E h \in hits[f] :
         /\ hits' = [hits EXCEPT ![f] = @ \ {h}]
         /\ hit' = [hit EXCEPT ![f] = h]
         /\ hints' = hints \union {h[2]}
         /\ Goto(f, IF h[2] \in hints THEN "mark" ELSE "range")
    /\ UNCHANGED <<chanVars, known, hitSeen, published, task, todo, callVars, panicked>>

(* It ranges over the targets under the map's read lock.                     *)
queueKnownPHPTargetsForParams(f) ==
    /\ At(f, "range")
    /\ LET learned == {[k EXCEPT !.hints = @ \union {hit[f][2]}] : k \in known} IN
         IF learned = {}
         THEN Goto(f, "mark") /\ UNCHANGED <<task, todo>>
         ELSE \E k \in learned : /\ task' = [task EXCEPT ![f] = k]
                                 /\ todo' = [todo EXCEPT ![f] = learned \ {k}]
                                 /\ Goto(f, "seen")
    /\ UNCHANGED <<chanVars, learnVars, hitVars, callVars, panicked>>

(* markParamHitSeen, and the publication of a hit that was not seen.         *)
markParamHitSeen(f) ==
    /\ At(f, "mark")
    /\ hitSeen' = hitSeen \union {hit[f]}
    /\ published' = IF hit[f] \in hitSeen THEN published
                    ELSE [published EXCEPT ![hit[f]] = @ + 1]
    /\ Goto(f, "hits")
    /\ UNCHANGED <<chanVars, hints, known, task, todo, hitVars, callVars, panicked>>

(* The deferred Done of paramFuzzWorker.                                     *)
TaskDone(f) ==
    /\ At(f, "hits") /\ hits[f] = {}
    /\ pending' = pending - 1
    /\ Goto(f, "idle")
    /\ UNCHANGED <<tasks, closed, seen, learnVars, task, todo, hitVars, callVars, panicked>>
-----------------------------------------------------------------------------
ReportersIdle == \A w \in Reporters : pc[w] = "idle"

(* Wait: first the scanner and the jobs, then the parameter tasks.           *)
WaitForScan ==
    /\ caller = "scanning" /\ reports = 0 /\ ReportersIdle /\ ~panicked
    /\ caller' = "waiting"
    /\ UNCHANGED <<chanVars, learnVars, pc, task, todo, hitVars, reports, cancelled, panicked>>

WaitForTasks ==
    /\ caller = "waiting" /\ pending = 0 /\ ~panicked
    /\ caller' = "waited"
    /\ UNCHANGED <<chanVars, learnVars, pc, task, todo, hitVars, reports, cancelled, panicked>>

(* Shutdown cancels the context, whatever Wait is doing,                     *)
ShutdownCancels ==
    /\ ~cancelled /\ ~panicked
    /\ cancelled' = TRUE
    /\ caller' = "stopping"
    /\ UNCHANGED <<chanVars, learnVars, pc, task, todo, hitVars, reports, panicked>>

(* waits for the scan workers and closes the channel,                        *)
ShutdownCloses ==
    /\ caller = "stopping" /\ ReportersIdle /\ ~panicked
    /\ closed' = TRUE
    /\ caller' = "closing"
    /\ UNCHANGED <<tasks, seen, pending, learnVars, pc, task, todo, hitVars, reports,
                   cancelled, panicked>>

(* and waits for the fuzzers (paramFuzzWg).                                  *)
ShutdownReturns ==
    /\ caller = "closing" /\ \A f \in Fuzzers : pc[f] = "gone"
    /\ caller' = "stopped"
    /\ UNCHANGED <<chanVars, learnVars, pc, task, todo, hitVars, reports, cancelled, panicked>>

Reporter(w) == queueParamFuzzFromResult(w) \/ rememberPHPParamTarget(w)
Enqueue(g) == EnqueueSeen(g) \/ EnqueueSend(g) \/ EnqueueRollback(g)
Fuzzer(f) ==
    \/ Receive(f) \/ FuzzParams(f) \/ rememberGlobalParamHints(f)
    \/ queueKnownPHPTargetsForParams(f) \/ markParamHitSeen(f) \/ TaskDone(f)
Waits == WaitForScan \/ WaitForTasks \/ ShutdownCloses \/ ShutdownReturns

PoolNext ==
    \/ \E w \in Reporters : Reporter(w)
    \/ \E g \in Goroutines : Enqueue(g)
    \/ \E f \in Fuzzers : Fuzzer(f)
    \/ Waits \/ ShutdownCancels
-----------------------------------------------------------------------------
ParamTypeOK ==
    /\ tasks \in Seq(Task) /\ seen \subseteq Task /\ pending \in Nat
    /\ known \subseteq Task /\ hints \subseteq Params /\ hitSeen \subseteq Hit
    /\ published \in [Hit -> Nat]
    /\ task \in [Goroutines -> Task]
    /\ todo \in [Goroutines -> SUBSET Task]
    /\ hits \in [Fuzzers -> SUBSET Hit] /\ hit \in [Fuzzers -> Hit]
    /\ {closed, cancelled, panicked} \subseteq BOOLEAN /\ reports \in 0..MaxReports
    /\ caller \in {"scanning", "waiting", "waited", "stopping", "closing", "stopped"}
    /\ pc \in [Goroutines -> {"idle", "remember", "seen", "send", "rollback", "fuzz",
                              "hits", "range", "mark", "gone"}]

(* paramTasksWg counts the tasks that are queued and those a fuzzer has not  *)
(* finished, the queueing of tasks by a fuzzer included: Wait can rely on it.*)
ParamAccounting ==
    pending = Len(tasks) + Cardinality({f \in Fuzzers : pc[f] \notin {"idle", "gone"}})

(* When Wait returns, every hit of every task that was queued is published.  *)
ParamWaitCovers ==
    caller = "waited" =>
        /\ tasks = <<>>
        /\ \A f \in Fuzzers : hits[f] = {} /\ todo[f] = {} /\ pc[f] = "idle"
        /\ \A h \in Hit : published[h] = 0 <=> h \notin UNION {Found(k) : k \in seen}

(* Different tasks may find the same hit, but it is published once.          *)
ParamHitOnce == \A h \in Hit : published[h] <= 1

(* The accounts of the pool hold, so that Wait can rely on them: when it     *)
(* returns, every hit of a queued task is out, once.                         *)
ParamPoolSound == ParamTypeOK /\ ParamAccounting /\ ParamWaitCovers /\ ParamHitOnce

(* Shutdown gets past the pool, whatever is queued and in progress when it   *)
(* is called (a send on the closed channel would end the whole program).     *)
ParamShutdownReturns == caller = "stopping" ~> (caller = "stopped" \/ panicked)

(* Shutdown stops the pool "after the main directory scan workers have       *)
(* finished submitting tasks" (engine.go): no task is sent after the close.  *)
NoSendOnClosedTasks == ~panicked
=============================================================================

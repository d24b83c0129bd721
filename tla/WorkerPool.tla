----------------------------- MODULE WorkerPool -----------------------------
(* The resizable pool of worker goroutines (Start, SetWorkerCount,           *)
(* autoThrottleCheck in pkg/engine/engine.go and the entry and exit of       *)
(* worker in worker.go), on top of the configuration it edits.               *)
(*                                                                           *)
(* Every worker goroutine has a control (its cancel function) of its own;    *)
(* workerControls maps worker ids to controls.  An id is used again when the *)
(* pool grows after a shrink, while the cancelled worker may still be busy.  *)
EXTENDS ConfigSnapshot, FiniteSets

CONSTANTS Users,                 \* goroutines of the TUI and of the API
          MaxControls,           \* bound: number of goroutines ever started
          MaxWorkers,            \* bound: the largest size asked for
          StartWorkers,          \* NewEngine's numWorkers; its callers refuse or raise one below 1
          MaxJobs,               \* bound: number of jobs ever queued
          MinWorkerCount,
          MinThrottledWorkers

Control == 1..MaxControls
Id == 0..(MaxWorkers - 1)
NoControl == 0

ASSUME PoolAssumption ==
    /\ MaxControls \in Nat /\ MaxWorkers \in Nat /\ MaxJobs \in Nat
    /\ MinWorkerCount \in 1..MaxWorkers /\ MinThrottledWorkers \in 1..MaxWorkers
    /\ StartWorkers \in MinWorkerCount..MaxWorkers /\ StartWorkers <= MaxControls
    /\ Threads = Users \union Control
    /\ Users \intersect Control = {}

VARIABLES numWorkers,      \* e.numWorkers
          workerControls,  \* e.workerControls, NoControl where the map has no entry
          worker,          \* worker[c]: state of the goroutine with control c
          cancelled,       \* the controls whose context is cancelled
          started,         \* controls 1..started have been made
          throttled,       \* e.alreadyThrottled
          jobs,            \* number of queued jobs
          supply,          \* jobs the scanner has yet to queue
          budget,          \* edits of the config that may still be asked for
          lost             \* history: ids below numWorkers whose worker ended by itself

poolVars == <<numWorkers, workerControls, worker, cancelled, started, lost>>
vars == <<configVars, todo, poolVars, throttled, jobs, supply, budget>>

Unborn == [pc |-> "unborn", id |-> 0]

(* NewEngine and Start.                                                      *)
Init ==
    /\ ConfigInit(StartWorkers)
    /\ numWorkers = StartWorkers
    /\ workerControls = [i \in Id |-> IF i < StartWorkers THEN i + 1 ELSE NoControl]
    /\ worker = [c \in Control |-> IF c <= StartWorkers THEN [pc |-> "pop", id |-> c - 1]
                                                        ELSE Unborn]
    /\ cancelled = {}
    /\ started = StartWorkers
    /\ throttled = FALSE
    /\ jobs = 0
    /\ supply = MaxJobs
    /\ budget = MaxEdits
    /\ lost = {}
-----------------------------------------------------------------------------
AtLeast(n, least) == IF n < least THEN least ELSE n

SetWorkerCount(n) ==
    LET size == AtLeast(n, MinWorkerCount) IN
    <<[op |-> "workers", value |-> size]>> \o Build
        \o <<[op |-> "resize", value |-> size]>>

(* The TUI, or a caller of the API, starts a call.                           *)
UserCalls(u) ==
    /\ Idle(u)
    /\ budget > 0
    /\ budget' = budget - 1
    /\ \E call \in {Setter, UpdateConfig} \union {SetWorkerCount(n) : n \in 0..MaxWorkers} :
         todo' = [todo EXCEPT ![u] = call]
    /\ UNCHANGED <<configVars, poolVars, throttled, jobs, supply>>

(* A worker that meets the last 429 of an interval: the compare-and-swap,    *)
(* the new size from one reading of the config, SetWorkerCount and SetDelay. *)
autoThrottleCheck(c) ==
    /\ worker[c].pc = "busy" /\ Idle(c)
    /\ ~throttled
    /\ throttled' = TRUE
    /\ budget > 1
    /\ budget' = budget - 2
    /\ LET workers == AtLeast((config.workers * 50) \div 100, MinThrottledWorkers)
       IN todo' = [todo EXCEPT ![c] = SetWorkerCount(workers) \o Setter]
    /\ UNCHANGED <<configVars, poolVars, jobs, supply>>

(* Five seconds later.                                                       *)
ThrottleReset ==
    /\ throttled
    /\ throttled' = FALSE
    /\ UNCHANGED <<configVars, todo, poolVars, jobs, supply, budget>>

(* Grow: new controls under the ids from numWorkers to n-1.                  *)
Grow(n) ==
    /\ started + (n - numWorkers) <= MaxControls
    /\ started' = started + (n - numWorkers)
    /\ workerControls' = [i \in Id |-> IF i \in numWorkers..(n - 1)
                                       THEN started + 1 + (i - numWorkers)
                                       ELSE workerControls[i]]
    /\ worker' = [c \in Control |-> IF c \in (started + 1)..(started + (n - numWorkers))
                                    THEN [pc |-> "pop", id |-> numWorkers + (c - started - 1)]
                                    ELSE worker[c]]
    /\ UNCHANGED <<cancelled, lost>>

(* Shrink: the controls registered under the highest ids are cancelled.      *)
Shrink(n) ==
    /\ cancelled' = cancelled \union ({workerControls[i] : i \in n..(numWorkers - 1)} \ {NoControl})
    /\ lost' = lost \intersect 0..(n - 1)
    /\ UNCHANGED <<started, workerControls, worker>>

(* The section of SetWorkerCount under workerLock.                           *)
Resize(t) ==
    /\ At(t, "resize")
    /\ LET n == Head(todo[t]).value IN
         /\ IF n > numWorkers THEN Grow(n) ELSE Shrink(n)
         /\ numWorkers' = n
    /\ Advance(t)
    /\ UNCHANGED <<configVars, throttled, jobs, supply, budget>>
-----------------------------------------------------------------------------
Goto(c, label) == worker' = [worker EXCEPT ![c].pc = label]

(* The scanner queues a job.                                                 *)
QueueJob ==
    /\ supply > 0
    /\ supply' = supply - 1
    /\ jobs' = jobs + 1
    /\ UNCHANGED <<configVars, todo, poolVars, throttled, budget>>

(* Pop looks for a job first, whatever its context says; only a worker that  *)
(* found none waits, and may see the cancellation then.                      *)
PopJob(c) ==
    /\ worker[c].pc = "pop"
    /\ \/ jobs > 0 /\ jobs' = jobs - 1 /\ Goto(c, "busy")
       \/ jobs = 0 /\ UNCHANGED jobs /\ Goto(c, "wait")
    /\ UNCHANGED <<configVars, todo, numWorkers, workerControls, cancelled, started, lost,
                   throttled, supply, budget>>

(* Mutant: the wait does not look at the context.                            *)
PopWakeJobsOnly(c) ==
    /\ worker[c].pc = "wait"
    /\ jobs > 0
    /\ Goto(c, "pop")
    /\ UNCHANGED <<configVars, todo, numWorkers, workerControls, cancelled, started, lost,
                   throttled, jobs, supply, budget>>

PopWake(c) ==
    /\ worker[c].pc = "wait"
    /\ \/ jobs > 0 /\ Goto(c, "pop")
       \/ c \in cancelled /\ Goto(c, "leave")
    /\ UNCHANGED <<configVars, todo, numWorkers, workerControls, cancelled, started, lost,
                   throttled, jobs, supply, budget>>

FinishJob(c) ==
    /\ worker[c].pc = "busy" /\ Idle(c)
    /\ Goto(c, "pop")
    /\ UNCHANGED <<configVars, todo, numWorkers, workerControls, cancelled, started, lost,
                   throttled, jobs, supply, budget>>

(* The scanner context ends the goroutine (pause loop, publish).             *)
QuitJob(c) ==
    /\ worker[c].pc = "busy" /\ Idle(c)
    /\ Goto(c, "leave")
    /\ cancelled' = cancelled \union {c}
    /\ lost' = IF c \in cancelled THEN lost ELSE lost \union {worker[c].id}
    /\ UNCHANGED <<configVars, todo, numWorkers, workerControls, started,
                   throttled, jobs, supply, budget>>

(* Mutant: the exit deletes whatever is registered under its id.             *)
LeaveForeign(c) ==
    /\ worker[c].pc = "leave"
    /\ workerControls' = [workerControls EXCEPT ![worker[c].id] = NoControl]
    /\ Goto(c, "gone")
    /\ UNCHANGED <<configVars, todo, numWorkers, cancelled, started, lost,
                   throttled, jobs, supply, budget>>

(* The deferred exit: the entry is deleted if it is this worker's own.       *)
Leave(c) ==
    /\ worker[c].pc = "leave"
    /\ workerControls' = IF workerControls[worker[c].id] = c
                         THEN [workerControls EXCEPT ![worker[c].id] = NoControl]
                         ELSE workerControls
    /\ Goto(c, "gone")
    /\ UNCHANGED <<configVars, todo, numWorkers, cancelled, started, lost,
                   throttled, jobs, supply, budget>>

WorkerStep(c) == PopJob(c) \/ PopWake(c) \/ FinishJob(c) \/ QuitJob(c) \/ Leave(c)

CallStep(t) ==
    \/ Resize(t)
    \/ ConfigStep(t) /\ UNCHANGED <<poolVars, throttled, jobs, supply, budget>>

Rebuild ==
    /\ \E r \in Rebuilders : TimerFires(r)
    /\ UNCHANGED <<poolVars, throttled, jobs, supply, budget>>

Next ==
    \/ \E u \in Users : UserCalls(u)
    \/ \E c \in Control : autoThrottleCheck(c) \/ WorkerStep(c)
    \/ \E t \in Goroutines : CallStep(t)
    \/ Rebuild \/ ThrottleReset \/ QueueJob

Safety == Init /\ [][Next]_vars

(* Goroutines that can go on do, and an armed timer fires.                   *)
Fairness ==
    /\ \A c \in Control : WF_vars(WorkerStep(c))
    /\ \A t \in Goroutines : WF_vars(CallStep(t))
    /\ WF_vars(Rebuild)

Spec == Safety /\ Fairness
-----------------------------------------------------------------------------
TypeOK ==
    /\ numWorkers \in MinWorkerCount..MaxWorkers
    /\ started \in 0..MaxControls
    /\ workerControls \in [Id -> 0..started]
    /\ worker \in [Control -> [pc : {"unborn", "pop", "wait", "busy", "leave", "gone"}, id : Id]]
    /\ cancelled \subseteq 1..started
    /\ lost \subseteq Id

Live(c) == worker[c].pc \in {"pop", "wait", "busy"} /\ c \notin cancelled

(* However resizes, throttling and exits interleave, every worker that was   *)
(* not told to stop is registered under its own id, so that the next shrink  *)
(* finds it, and exactly the ids below numWorkers have one (apart from those *)
(* whose worker ended by itself).                                            *)
PoolExact ==
    /\ \A c \in Control : Live(c) =>
         /\ workerControls[worker[c].id] = c
         /\ worker[c].id \in (0..(numWorkers - 1)) \ lost
    /\ \A i \in (0..(numWorkers - 1)) \ lost : \E c \in Control : Live(c) /\ worker[c].id = i

(* The pool never has fewer workers than MinWorkerCount asks for, and its    *)
(* registry and its live workers agree.                                      *)
PoolSound == TypeOK /\ PoolExact

(* Every worker that was told to stop ends in the end.                       *)
PoolConverges == <>[](\A c \in cancelled : worker[c].pc = "gone")

(* "autoThrottleCheck reduces workers" and SetWorkerCount shrinks the pool   *)
(* "by cancelling the highest worker IDs explicitly" (engine.go): a worker   *)
(* told to stop takes no further job.                                        *)
ShrinkStops == [][\A c \in cancelled : worker[c].pc = "pop" => worker'[c].pc # "busy"]_vars
=============================================================================

------------------------------ MODULE JobQueue ------------------------------
(* PriorityJobQueue of pkg/engine/queue.go: the engine's only work queue.    *)
(*                                                                           *)
(* A Push or a Pop is a loop: lock, try, unlock, then wait on a one-slot     *)
(* channel (notFull or notEmpty) or on the caller's context, and try again.  *)
(* One locked section is one action; the wait is a state ("wait") of the     *)
(* caller, so every interleaving of lock sections and channel receives of    *)
(* all callers is a behaviour.                                               *)
(*                                                                           *)
(* The heap is abstracted to the set of the jobs it holds; PriorityHeap      *)
(* models the heap itself and shows that its root is never outranked, which  *)
(* is all that Pop's choice of a job relies on here.                         *)
EXTENDS Naturals, FiniteSets, JobOrder

CONSTANTS Producers,   \* goroutines that call Push (scanner, branches, workers)
          Consumers,   \* goroutines that call Pop (workers)
          Job,         \* the jobs a producer may push
          MaxLen       \* q.maxLen; 0 means unbounded

ASSUME QueueAssumption ==
    /\ Producers \intersect Consumers = {}
    /\ MaxLen \in Nat

VARIABLES h,         \* jobs held by the heap q.h
          closed,    \* q.closed
          notEmpty,  \* a token is buffered in the q.notEmpty channel
          notFull,   \* a token is buffered in the q.notFull channel
          pc,        \* where each caller is: "idle", "try" or "wait"
          arg,       \* arg[p]: the set holding the job p is pushing, or {}
          cancelled  \* the callers whose context is cancelled

vars == <<h, closed, notEmpty, notFull, pc, arg, cancelled>>

Callers == Producers \union Consumers

(* Jobs carried by a Push that has not returned.                             *)
InPush == UNION {arg[p] : p \in Producers}
-----------------------------------------------------------------------------
(* The two signal helpers: no-ops once closed, otherwise a non-blocking send *)
(* that leaves the channel holding one token.  They see the heap as the      *)
(* locked section leaves it.                                                 *)
(* Mutant: off by one at the capacity.                                       *)
HasRoomOffByOne(jobs) == MaxLen = 0 \/ Cardinality(jobs) <= MaxLen

HasRoom(jobs) == MaxLen = 0 \/ Cardinality(jobs) < MaxLen

signalNotEmptyLocked(jobs) ==
    notEmpty' = (notEmpty \/ (~closed /\ jobs # {}))

signalNotFullLocked(jobs) ==
    notFull' = (notFull \/ (~closed /\ MaxLen # 0 /\ Cardinality(jobs) < MaxLen))
-----------------------------------------------------------------------------
Init ==
    /\ h = {}
    /\ closed = FALSE
    /\ notEmpty = FALSE
    /\ notFull = FALSE
    /\ pc = [t \in Callers |-> "idle"]
    /\ arg = [p \in Producers |-> {}]
    /\ cancelled = {}

(* A producer calls Push with a job that is neither queued nor being pushed: *)
(* Submit's Bloom filter lets a path through once.                           *)
CallPush(p, j) ==
    /\ pc[p] = "idle"
    /\ j \notin h \union InPush
    /\ pc' = [pc EXCEPT ![p] = "try"]
    /\ arg' = [arg EXCEPT ![p] = {j}]
    /\ cancelled' = cancelled \ {p}
    /\ UNCHANGED <<h, closed, notEmpty, notFull>>

(* Mutant: the job of a finished Push is kept.                               *)
ReturnPushKeepsJob(p) ==
    /\ pc' = [pc EXCEPT ![p] = "idle"]
    /\ UNCHANGED arg

ReturnPush(p) ==
    /\ pc' = [pc EXCEPT ![p] = "idle"]
    /\ arg' = [arg EXCEPT ![p] = {}]

(* Push, closed branch: ErrQueueClosed.                                      *)
PushClosed(p) ==
    /\ pc[p] = "try"
    /\ closed
    /\ ReturnPush(p)
    /\ UNCHANGED <<h, closed, notEmpty, notFull, cancelled>>

(* Mutant: the wake-up of the next producer is left out.                     *)
PushRoomNoCascade(p) ==
    /\ pc[p] = "try"
    /\ ~closed
    /\ HasRoom(h)
    /\ h' = h \union arg[p]
    /\ signalNotEmptyLocked(h')
    /\ ReturnPush(p)
    /\ UNCHANGED <<closed, notFull, cancelled>>

(* Mutant: the locked section does not look at closed.                       *)
PushRoomAfterClose(p) ==
    /\ pc[p] = "try"
    /\ HasRoom(h)
    /\ h' = h \union arg[p]
    /\ signalNotEmptyLocked(h')
    /\ signalNotFullLocked(h')
    /\ ReturnPush(p)
    /\ UNCHANGED <<closed, cancelled>>

(* Push, the locked section that finds room.  The context is not consulted.  *)
PushRoom(p) ==
    /\ pc[p] = "try"
    /\ ~closed
    /\ HasRoom(h)
    /\ h' = h \union arg[p]
    /\ signalNotEmptyLocked(h')
    /\ signalNotFullLocked(h')
    /\ ReturnPush(p)
    /\ UNCHANGED <<closed, cancelled>>

(* Push, the locked section that finds the heap full.                        *)
PushFull(p) ==
    /\ pc[p] = "try"
    /\ ~closed
    /\ ~HasRoom(h)
    /\ pc' = [pc EXCEPT ![p] = "wait"]
    /\ UNCHANGED <<h, closed, notEmpty, notFull, arg, cancelled>>

(* Push, <-q.notFull: a token is consumed, or the channel is closed.         *)
PushWake(p) ==
    /\ pc[p] = "wait"
    /\ closed \/ notFull
    /\ notFull' = (notFull /\ closed)
    /\ pc' = [pc EXCEPT ![p] = "try"]
    /\ UNCHANGED <<h, closed, notEmpty, arg, cancelled>>

(* Mutant: cancellation does not end the wait; the producer leaves it only   *)
(* on a token, to try again.                                                 *)
PushCancelledIgnored(p) ==
    /\ PushWake(p)
    /\ p \in cancelled

(* Push, <-ctx.Done().                                                       *)
PushCancelled(p) ==
    /\ pc[p] = "wait"
    /\ p \in cancelled
    /\ ReturnPush(p)
    /\ UNCHANGED <<h, closed, notEmpty, notFull, cancelled>>
-----------------------------------------------------------------------------
CallPop(c) ==
    /\ pc[c] = "idle"
    /\ pc' = [pc EXCEPT ![c] = "try"]
    /\ cancelled' = cancelled \ {c}
    /\ UNCHANGED <<h, closed, notEmpty, notFull, arg>>

(* Mutant: Pop does not signal the jobs that it leaves behind.               *)
PopJobNoResignal(c) ==
    /\ pc[c] = "try"
    /\ \E j \in h : /\ \A k \in h : ~Outranks(k, j)
                    /\ h' = h \ {j}
    /\ signalNotFullLocked(h')
    /\ pc' = [pc EXCEPT ![c] = "idle"]
    /\ UNCHANGED <<closed, notEmpty, arg, cancelled>>

(* Pop, the locked section that finds a job: closed or not, cancelled or     *)
(* not, a queued job is handed out.                                          *)
PopJob(c) ==
    /\ pc[c] = "try"
    /\ \E j \in h : /\ \A k \in h : ~Outranks(k, j)
                    /\ h' = h \ {j}
    /\ signalNotEmptyLocked(h')
    /\ signalNotFullLocked(h')
    /\ pc' = [pc EXCEPT ![c] = "idle"]
    /\ UNCHANGED <<closed, arg, cancelled>>

(* Pop, closed and empty: (Job{}, false, nil).                               *)
PopClosed(c) ==
    /\ pc[c] = "try"
    /\ h = {}
    /\ closed
    /\ pc' = [pc EXCEPT ![c] = "idle"]
    /\ UNCHANGED <<h, closed, notEmpty, notFull, arg, cancelled>>

PopEmpty(c) ==
    /\ pc[c] = "try"
    /\ h = {}
    /\ ~closed
    /\ pc' = [pc EXCEPT ![c] = "wait"]
    /\ UNCHANGED <<h, closed, notEmpty, notFull, arg, cancelled>>

(* Pop, <-q.notEmpty.                                                        *)
PopWake(c) ==
    /\ pc[c] = "wait"
    /\ closed \/ notEmpty
    /\ notEmpty' = (notEmpty /\ closed)
    /\ pc' = [pc EXCEPT ![c] = "try"]
    /\ UNCHANGED <<h, closed, notFull, arg, cancelled>>

PopCancelled(c) ==
    /\ pc[c] = "wait"
    /\ c \in cancelled
    /\ pc' = [pc EXCEPT ![c] = "idle"]
    /\ UNCHANGED <<h, closed, notEmpty, notFull, arg, cancelled>>
-----------------------------------------------------------------------------
(* The context of a call in progress is cancelled.                           *)
Cancel(t) ==
    /\ pc[t] # "idle"
    /\ t \notin cancelled
    /\ cancelled' = cancelled \union {t}
    /\ UNCHANGED <<h, closed, notEmpty, notFull, pc, arg>>

Drain ==
    /\ h # {}
    /\ h' = {}
    /\ signalNotFullLocked(h')
    /\ UNCHANGED <<closed, notEmpty, pc, arg, cancelled>>

Close ==
    /\ ~closed
    /\ closed' = TRUE
    /\ UNCHANGED <<h, notEmpty, notFull, pc, arg, cancelled>>

Push(p) == PushClosed(p) \/ PushRoom(p) \/ PushFull(p) \/ PushWake(p) \/ PushCancelled(p)
Pop(c) == PopJob(c) \/ PopClosed(c) \/ PopEmpty(c) \/ PopWake(c) \/ PopCancelled(c)

Next ==
    \/ \E p \in Producers, j \in Job : CallPush(p, j)
    \/ \E p \in Producers : Push(p)
    \/ \E c \in Consumers : CallPop(c)
    \/ \E c \in Consumers : Pop(c)
    \/ \E t \in Callers : Cancel(t)
    \/ Drain
    \/ Close

(* The Go scheduler runs every runnable goroutine, a runtime-queued channel  *)
(* receiver is served first-come first-served, and sync.Mutex prevents       *)
(* starvation: a step that is enabled again and again is eventually taken.   *)
(* A select whose cases are ready again and again does not for ever ignore   *)
(* the cancelled context, since Go picks among ready cases at random.        *)
(* Nothing makes anybody call Push or Pop, cancel, drain or close.           *)
Fairness ==
    /\ \A p \in Producers : SF_vars(Push(p)) /\ SF_vars(PushCancelled(p))
    /\ \A c \in Consumers : SF_vars(Pop(c)) /\ SF_vars(PopCancelled(c))

Safety == Init /\ [][Next]_vars
Spec == Safety /\ Fairness
-----------------------------------------------------------------------------
(* Every variable has its type, and a producer carries a job exactly while   *)
(* its Push is in progress.                                                  *)
TypeOK ==
    /\ h \subseteq Job
    /\ IsFiniteSet(h)
    /\ closed \in BOOLEAN
    /\ notEmpty \in BOOLEAN
    /\ notFull \in BOOLEAN
    /\ pc \in [Callers -> {"idle", "try", "wait"}]
    /\ arg \in [Producers -> SUBSET Job]
    /\ \A p \in Producers : arg[p] = {} <=> pc[p] = "idle"
    /\ cancelled \subseteq Callers

(* The heap never exceeds maxLen, whatever mix of pushes races for the last  *)
(* slots (queue.go Push tests the length and inserts under one lock).        *)
CapacityRespected == MaxLen = 0 \/ Cardinality(h) <= MaxLen

(* The queue's state is well formed and its heap is bounded: a job is in the  *)
(* heap or in the hands of the producer that still pushes it.                 *)
QueueSound == TypeOK /\ CapacityRespected

Waiting(S) == {t \in S : pc[t] = "wait"}
Trying(S) == {t \in S : pc[t] = "try"}

(* No lost wake-up on the consumer side: queued work and a sleeping consumer *)
(* never coexist with nobody about to run, that is, with no token in         *)
(* notEmpty and no consumer on its way to the lock.  One token stands for    *)
(* any number of pushes, so this rests on Pop re-signalling what it leaves.  *)
NoLostNotEmpty ==
    ~closed /\ h # {} /\ Waiting(Consumers) # {}
        => notEmpty \/ Trying(Consumers) # {}

(* No lost wake-up on the producer side: free capacity and a sleeping        *)
(* producer never coexist with no token in notFull and no producer on its    *)
(* way to the lock.  Drain frees many slots with one token; the cascade of   *)
(* signals in Push is what passes it on.                                     *)
NoLostNotFull ==
    ~closed /\ HasRoom(h) /\ Waiting(Producers) # {}
        => notFull \/ Trying(Producers) # {}

(* Neither one-token channel of the queue loses a wake-up a sleeper needs.   *)
NoLostWakeup == NoLostNotEmpty /\ NoLostNotFull

(* A burst of queued jobs reaches the sleeping consumers: work and a         *)
(* sleeper do not stay together for ever (the queue empties or the sleepers  *)
(* leave), as queue_signal_test.go demands of Push.                          *)
BurstIsServed ==
    (h # {} /\ Waiting(Consumers) # {}) ~> (h = {} \/ Waiting(Consumers) = {})

(* A cancelled Push or Pop returns although nobody ever pops or pushes.      *)
CancelledCallReturns ==
    \A t \in Callers : (pc[t] = "wait" /\ t \in cancelled) ~> pc[t] = "idle"

(* Close releases everybody: every call in progress returns.                 *)
CloseReleasesAll ==
    \A t \in Callers : closed /\ pc[t] # "idle" ~> pc[t] = "idle"

(* No call of the queue outlives its context or the queue itself: the select *)
(* of Push and Pop listens to both besides the wake-up channel.              *)
CallersReleased == CancelledCallReturns /\ CloseReleasesAll
-----------------------------------------------------------------------------
(* The refinement mapping to the contract: a caller is asking or offering    *)
(* for as long as its call has not returned.                                 *)
Contract == INSTANCE JobQueueContract WITH
    q      <- h,
    open   <- ~closed,
    offer  <- arg,
    asking <- {c \in Consumers : pc[c] # "idle"}

(* The token protocol implements the blocking queue of the interface comment *)
(* (block while full or empty; return early only on cancellation or close),  *)
(* its progress included.                                                    *)
ImplementsContract == Contract!Spec
=============================================================================

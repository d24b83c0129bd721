--------------------------- MODULE JobQueueProofs ---------------------------
(* PriorityJobQueue for every number of producers and consumers, every set   *)
(* of jobs and every capacity: the type invariant, the capacity, the absence *)
(* of lost wake-ups on both sides, and that the token protocol implements    *)
(* the safety part of the JobQueue contract.  And the heap under it, for     *)
(* every set of jobs: nothing is lost, and the best job is taken.            *)
EXTENDS JobQueue, PriorityHeap, FiniteSetTheorems, SequenceTheorems, WellFoundedInduction,
        TLAPS

(* A Push in progress carries exactly one job.                               *)
OneJobPerPush == \A p \in Producers : arg[p] = {} \/ \E j \in Job : arg[p] = {j}

(* A producer of an unbounded queue never goes to sleep.                     *)
UnboundedNeverFull == MaxLen = 0 => Waiting(Producers) = {}

(* The inductive invariant.                                                  *)
IInv ==
    /\ TypeOK
    /\ OneJobPerPush
    /\ UnboundedNeverFull
    /\ CapacityRespected
    /\ NoLostNotEmpty
    /\ NoLostNotFull
-----------------------------------------------------------------------------
(* What the locked sections do to the number of jobs.                        *)
LEMMA AddCardinality ==
    ASSUME NEW S, IsFiniteSet(S), NEW x
    PROVE  /\ IsFiniteSet(S \union {x})
           /\ Cardinality(S) \in Nat
           /\ Cardinality(S \union {x}) \in Nat
           /\ Cardinality(S \union {x}) <= Cardinality(S) + 1
  BY FS_AddElement, FS_CardinalityType

LEMMA RemoveCardinality ==
    ASSUME NEW S, IsFiniteSet(S), NEW x \in S
    PROVE  /\ IsFiniteSet(S \ {x})
           /\ Cardinality(S) \in Nat
           /\ Cardinality(S \ {x}) \in Nat
           /\ Cardinality(S \ {x}) = Cardinality(S) - 1
  BY FS_RemoveElement, FS_CardinalityType

LEMMA EmptyCardinality == IsFiniteSet({}) /\ Cardinality({}) = 0
  BY FS_EmptySet
-----------------------------------------------------------------------------
(* The type invariant and the one-job-per-Push invariant are inductive.      *)
LEMMA TypeStep == TypeOK /\ OneJobPerPush /\ [Next]_vars => TypeOK' /\ OneJobPerPush'
<1> SUFFICES ASSUME TypeOK, OneJobPerPush, [Next]_vars
             PROVE  TypeOK' /\ OneJobPerPush'
  OBVIOUS
<1> USE DEF TypeOK, OneJobPerPush, Callers
<1>1. ASSUME NEW p \in Producers, NEW j \in Job, CallPush(p, j)
      PROVE  TypeOK' /\ OneJobPerPush'
  BY <1>1 DEF CallPush
<1>2. ASSUME NEW p \in Producers, Push(p)
      PROVE  TypeOK' /\ OneJobPerPush'
  <2>1. CASE PushClosed(p)
    BY <2>1 DEF PushClosed, ReturnPush
  <2>2. CASE PushRoom(p)
    <3>1. arg[p] # {}
      BY <2>2 DEF PushRoom
    <3>2. PICK j \in Job : arg[p] = {j}
      BY <3>1
    <3>3. h' = h \union {j}
      BY <2>2, <3>2 DEF PushRoom
    <3>4. IsFiniteSet(h')
      BY <3>3, AddCardinality
    <3>5. QED
      BY <2>2, <3>3, <3>4 DEF PushRoom, ReturnPush, signalNotEmptyLocked, signalNotFullLocked
  <2>3. CASE PushFull(p)
    BY <2>3 DEF PushFull
  <2>4. CASE PushWake(p)
    BY <2>4 DEF PushWake
  <2>5. CASE PushCancelled(p)
    BY <2>5 DEF PushCancelled, ReturnPush
  <2>6. QED
    BY <1>2, <2>1, <2>2, <2>3, <2>4, <2>5 DEF Push
<1>3. ASSUME NEW c \in Consumers, CallPop(c)
      PROVE  TypeOK' /\ OneJobPerPush'
  BY <1>3, QueueAssumption DEF CallPop
<1>4. ASSUME NEW c \in Consumers, Pop(c)
      PROVE  TypeOK' /\ OneJobPerPush'
  <2>1. CASE PopJob(c)
    <3>1. PICK j \in h : h' = h \ {j}
      BY <2>1 DEF PopJob
    <3>2. IsFiniteSet(h')
      BY <3>1, RemoveCardinality
    <3>3. QED
      BY <2>1, <3>1, <3>2, QueueAssumption DEF PopJob, signalNotEmptyLocked, signalNotFullLocked
  <2>2. CASE PopClosed(c)
    BY <2>2, QueueAssumption DEF PopClosed
  <2>3. CASE PopEmpty(c)
    BY <2>3, QueueAssumption DEF PopEmpty
  <2>4. CASE PopWake(c)
    BY <2>4, QueueAssumption DEF PopWake
  <2>5. CASE PopCancelled(c)
    BY <2>5, QueueAssumption DEF PopCancelled
  <2>6. QED
    BY <1>4, <2>1, <2>2, <2>3, <2>4, <2>5 DEF Pop
<1>5. ASSUME NEW t \in Callers, Cancel(t)
      PROVE  TypeOK' /\ OneJobPerPush'
  BY <1>5 DEF Cancel
<1>6. CASE Drain
  BY <1>6, EmptyCardinality DEF Drain, signalNotFullLocked
<1>7. CASE Close
  BY <1>7 DEF Close
<1>8. CASE UNCHANGED vars
  BY <1>8 DEF vars
<1>9. QED
  BY <1>1, <1>2, <1>3, <1>4, <1>5, <1>6, <1>7, <1>8 DEF Next
-----------------------------------------------------------------------------
(* The capacity is preserved: a job is only added where there is room.       *)
LEMMA CapacityStep ==
    TypeOK /\ OneJobPerPush /\ CapacityRespected /\ [Next]_vars => CapacityRespected'
<1> SUFFICES ASSUME TypeOK, OneJobPerPush, CapacityRespected, [Next]_vars
             PROVE  CapacityRespected'
  OBVIOUS
<1> USE QueueAssumption DEF CapacityRespected
<1>a. h' = h => CapacityRespected'
  OBVIOUS
<1>1. ASSUME NEW p \in Producers, NEW j \in Job, CallPush(p, j)
      PROVE  CapacityRespected'
  BY <1>1, <1>a DEF CallPush
<1>2. ASSUME NEW p \in Producers, Push(p)
      PROVE  CapacityRespected'
  <2>1. CASE PushRoom(p)
    <3>1. PICK j \in Job : arg[p] = {j}
      BY <2>1 DEF PushRoom, TypeOK, OneJobPerPush, Callers
    <3>2. h' = h \union {j}
      BY <2>1, <3>1 DEF PushRoom
    <3>3. /\ Cardinality(h) \in Nat
          /\ Cardinality(h') \in Nat
          /\ Cardinality(h') <= Cardinality(h) + 1
      BY <3>2, AddCardinality DEF TypeOK
    <3>4. QED
      BY <2>1, <3>3 DEF PushRoom, HasRoom
  <2>2. CASE ~PushRoom(p)
    BY <1>2, <2>2, <1>a DEF Push, PushClosed, PushFull, PushWake, PushCancelled
  <2>3. QED
    BY <2>1, <2>2
<1>3. ASSUME NEW c \in Consumers, CallPop(c)
      PROVE  CapacityRespected'
  BY <1>3, <1>a DEF CallPop
<1>4. ASSUME NEW c \in Consumers, Pop(c)
      PROVE  CapacityRespected'
  <2>1. CASE PopJob(c)
    <3>1. PICK j \in h : h' = h \ {j}
      BY <2>1 DEF PopJob
    <3>2. QED
      BY <3>1, RemoveCardinality DEF TypeOK
  <2>2. CASE ~PopJob(c)
    BY <1>4, <2>2, <1>a DEF Pop, PopClosed, PopEmpty, PopWake, PopCancelled
  <2>3. QED
    BY <2>1, <2>2
<1>5. ASSUME NEW t \in Callers, Cancel(t)
      PROVE  CapacityRespected'
  BY <1>5, <1>a DEF Cancel
<1>6. CASE Drain
  BY <1>6, EmptyCardinality DEF Drain
<1>7. CASE Close
  BY <1>7, <1>a DEF Close
<1>8. CASE UNCHANGED vars
  BY <1>8, <1>a DEF vars
<1>9. QED
  BY <1>1, <1>2, <1>3, <1>4, <1>5, <1>6, <1>7, <1>8 DEF Next
-----------------------------------------------------------------------------
(* No consumer wake-up is lost.  The token leaves notEmpty only with a       *)
(* consumer that goes to the lock, and a consumer that takes a job signals   *)
(* what it leaves behind.                                                    *)
LEMMA NotEmptyStep ==
    TypeOK /\ NoLostNotEmpty /\ [Next]_vars => NoLostNotEmpty'
<1> SUFFICES ASSUME TypeOK, NoLostNotEmpty, [Next]_vars
             PROVE  NoLostNotEmpty'
  OBVIOUS
<1> USE QueueAssumption DEF TypeOK, NoLostNotEmpty, Waiting, Trying, Callers
<1>1. ASSUME NEW p \in Producers, NEW j \in Job, CallPush(p, j)
      PROVE  NoLostNotEmpty'
  BY <1>1 DEF CallPush
<1>2. ASSUME NEW p \in Producers, Push(p)
      PROVE  NoLostNotEmpty'
  <2>1. CASE PushClosed(p)
    BY <2>1 DEF PushClosed
  <2>2. CASE PushRoom(p)
    BY <2>2 DEF PushRoom, signalNotEmptyLocked
  <2>3. CASE PushFull(p)
    BY <2>3 DEF PushFull
  <2>4. CASE PushWake(p)
    BY <2>4 DEF PushWake
  <2>5. CASE PushCancelled(p)
    BY <2>5 DEF PushCancelled, ReturnPush
  <2>6. QED
    BY <1>2, <2>1, <2>2, <2>3, <2>4, <2>5 DEF Push
<1>3. ASSUME NEW c \in Consumers, CallPop(c)
      PROVE  NoLostNotEmpty'
  BY <1>3 DEF CallPop
<1>4. ASSUME NEW c \in Consumers, Pop(c)
      PROVE  NoLostNotEmpty'
  <2>1. CASE PopJob(c)
    BY <2>1 DEF PopJob, signalNotEmptyLocked
  <2>2. CASE PopClosed(c)
    BY <2>2 DEF PopClosed
  <2>3. CASE PopEmpty(c)
    BY <2>3 DEF PopEmpty
  <2>4. CASE PopWake(c)
    BY <2>4 DEF PopWake
  <2>5. CASE PopCancelled(c)
    BY <2>5 DEF PopCancelled
  <2>6. QED
    BY <1>4, <2>1, <2>2, <2>3, <2>4, <2>5 DEF Pop
<1>5. ASSUME NEW t \in Callers, Cancel(t)
      PROVE  NoLostNotEmpty'
  BY <1>5 DEF Cancel
<1>6. CASE Drain
  BY <1>6 DEF Drain
<1>7. CASE Close
  BY <1>7 DEF Close
<1>8. CASE UNCHANGED vars
  BY <1>8 DEF vars
<1>9. QED
  BY <1>1, <1>2, <1>3, <1>4, <1>5, <1>6, <1>7, <1>8 DEF Next
-----------------------------------------------------------------------------
(* Only PushFull puts a producer to sleep, and it needs a full heap.         *)
LEMMA UnboundedStep ==
    TypeOK /\ UnboundedNeverFull /\ [Next]_vars => UnboundedNeverFull'
<1> SUFFICES ASSUME TypeOK, UnboundedNeverFull, [Next]_vars, MaxLen = 0,
                    NEW q \in Producers, pc'[q] = "wait"
             PROVE  FALSE
  BY DEF UnboundedNeverFull, Waiting
<1>1. pc[q] # "wait"
  BY DEF UnboundedNeverFull, Waiting
<1>2. ~PushFull(q)
  BY DEF PushFull, HasRoom
<1>3. QED
  BY <1>1, <1>2, QueueAssumption
  DEF TypeOK, Callers, Next, vars, CallPush, Push, PushClosed, PushRoom, PushFull,
      PushWake, PushCancelled, ReturnPush, CallPop, Pop, PopJob, PopClosed, PopEmpty,
      PopWake, PopCancelled, Cancel, Drain, Close
-----------------------------------------------------------------------------
(* No producer wake-up is lost.  A producer goes to sleep on a full heap     *)
(* only; whoever makes room (Pop, Drain) signals it, and a producer that     *)
(* uses a token signals the room it leaves.                                  *)
LEMMA NotFullStep ==
    IInv /\ [Next]_vars => NoLostNotFull'
<1> SUFFICES ASSUME IInv, [Next]_vars
             PROVE  NoLostNotFull'
  OBVIOUS
<1> USE QueueAssumption DEF IInv, TypeOK, NoLostNotFull, Waiting, Trying, Callers
<1>1. ASSUME NEW p \in Producers, NEW j \in Job, CallPush(p, j)
      PROVE  NoLostNotFull'
  BY <1>1 DEF CallPush
<1>2. ASSUME NEW p \in Producers, Push(p)
      PROVE  NoLostNotFull'
  <2>1. CASE PushClosed(p)
    BY <2>1 DEF PushClosed
  <2>2. CASE PushRoom(p)
    <3>1. CASE MaxLen = 0
      BY <2>2, <3>1 DEF PushRoom, ReturnPush, UnboundedNeverFull
    <3>2. CASE MaxLen # 0
      BY <2>2, <3>2 DEF PushRoom, HasRoom, signalNotFullLocked
    <3>3. QED
      BY <3>1, <3>2
  <2>3. CASE PushFull(p)
    BY <2>3 DEF PushFull, HasRoom
  <2>4. CASE PushWake(p)
    BY <2>4 DEF PushWake
  <2>5. CASE PushCancelled(p)
    BY <2>5 DEF PushCancelled, ReturnPush, HasRoom
  <2>6. QED
    BY <1>2, <2>1, <2>2, <2>3, <2>4, <2>5 DEF Push
<1>3. ASSUME NEW c \in Consumers, CallPop(c)
      PROVE  NoLostNotFull'
  BY <1>3 DEF CallPop, HasRoom
<1>4. ASSUME NEW c \in Consumers, Pop(c)
      PROVE  NoLostNotFull'
  <2>1. CASE PopJob(c)
    <3>1. CASE MaxLen = 0
      BY <2>1, <3>1 DEF PopJob, UnboundedNeverFull
    <3>2. CASE MaxLen # 0
      BY <2>1, <3>2 DEF PopJob, HasRoom, signalNotFullLocked
    <3>3. QED
      BY <3>1, <3>2
  <2>2. CASE PopClosed(c)
    BY <2>2 DEF PopClosed, HasRoom
  <2>3. CASE PopEmpty(c)
    BY <2>3 DEF PopEmpty, HasRoom
  <2>4. CASE PopWake(c)
    BY <2>4 DEF PopWake, HasRoom
  <2>5. CASE PopCancelled(c)
    BY <2>5 DEF PopCancelled, HasRoom
  <2>6. QED
    BY <1>4, <2>1, <2>2, <2>3, <2>4, <2>5 DEF Pop
<1>5. ASSUME NEW t \in Callers, Cancel(t)
      PROVE  NoLostNotFull'
  BY <1>5 DEF Cancel, HasRoom
<1>6. CASE Drain
  BY <1>6, EmptyCardinality DEF Drain, HasRoom, signalNotFullLocked
<1>7. CASE Close
  BY <1>7 DEF Close
<1>8. CASE UNCHANGED vars
  BY <1>8 DEF vars, HasRoom
<1>9. QED
  BY <1>1, <1>2, <1>3, <1>4, <1>5, <1>6, <1>7, <1>8 DEF Next
-----------------------------------------------------------------------------
(* The inductive invariant holds of every behaviour of the queue.            *)
THEOREM QueueInvariant == Safety => []IInv
<1>1. Init => IInv
  <2> SUFFICES ASSUME Init PROVE IInv
    OBVIOUS
  <2>1. TypeOK
    BY EmptyCardinality DEF Init, TypeOK, Callers
  <2>2. OneJobPerPush
    BY DEF Init, OneJobPerPush
  <2>3. CapacityRespected
    BY EmptyCardinality, QueueAssumption DEF Init, CapacityRespected
  <2>4. Waiting(Producers) = {} /\ Waiting(Consumers) = {}
    BY DEF Init, Waiting, Callers
  <2>5. QED
    BY <2>1, <2>2, <2>3, <2>4 DEF IInv, UnboundedNeverFull, NoLostNotEmpty, NoLostNotFull
<1>2. IInv /\ [Next]_vars => IInv'
  BY TypeStep, UnboundedStep, CapacityStep, NotEmptyStep, NotFullStep DEF IInv
<1>3. QED
  BY <1>1, <1>2, PTL DEF Safety

(* Type correctness of PriorityJobQueue, for all constants.                  *)
THEOREM QueueTypeOK == Safety => []TypeOK
  BY QueueInvariant, PTL DEF IInv

(* Push never takes the heap past maxLen.                                    *)
THEOREM QueueCapacity == Safety => []CapacityRespected
  BY QueueInvariant, PTL DEF IInv

(* Both hold together in every behaviour (Push and Pop of queue.go).         *)
THEOREM QueueIsSound == Safety => []QueueSound
  BY QueueTypeOK, QueueCapacity, PTL DEF QueueSound

(* Neither channel ever loses a wake-up that a sleeping caller needs.        *)
THEOREM QueueNoLostWakeup == Safety => []NoLostWakeup
<1>1. IInv => NoLostWakeup
  BY DEF IInv, NoLostWakeup
<1>2. QED
  BY <1>1, QueueInvariant, PTL
-----------------------------------------------------------------------------
(* Every step of the token protocol is a step of the contract or leaves the  *)
(* contract's variables alone: a call is one offer or one question, the      *)
(* locked section that serves it is the contract's Put or Take, and the      *)
(* retries in between are invisible.                                         *)
LEMMA ContractStep == IInv /\ [Next]_vars => [Contract!Next]_(Contract!vars)
<1> SUFFICES ASSUME IInv, [Next]_vars
             PROVE  Contract!Next \/ UNCHANGED Contract!vars
  OBVIOUS
<1> USE QueueAssumption DEF IInv, TypeOK, Callers
<1>1. ASSUME NEW p \in Producers, NEW j \in Job, CallPush(p, j)
      PROVE  Contract!Next
  <2>1. Contract!Offer(p, j)
    BY <1>1 DEF CallPush, Contract!Offer
  <2>2. QED
    BY <2>1 DEF Contract!Next
<1>2. ASSUME NEW p \in Producers, Push(p)
      PROVE  Contract!Next \/ UNCHANGED Contract!vars
  <2>1. CASE PushClosed(p) \/ PushCancelled(p)
    <3>1. Contract!RefusePut(p)
      BY <2>1 DEF PushClosed, PushCancelled, ReturnPush, Contract!RefusePut
    <3>2. QED
      BY <3>1 DEF Contract!Next, Contract!SomePut
  <2>2. CASE PushRoom(p)
    <3>1. PICK j \in Job : arg[p] = {j}
      BY <2>2 DEF PushRoom, OneJobPerPush
    <3>2. Contract!Put(p)
      BY <2>2, <3>1 DEF PushRoom, ReturnPush, Contract!Put
    <3>3. QED
      BY <3>2 DEF Contract!Next, Contract!SomePut
  <2>3. CASE PushFull(p) \/ PushWake(p)
    BY <2>3 DEF PushFull, PushWake, Contract!vars
  <2>4. QED
    BY <1>2, <2>1, <2>2, <2>3 DEF Push
<1>3. ASSUME NEW c \in Consumers, CallPop(c)
      PROVE  Contract!Next
  <2>1. Contract!Ask(c)
    BY <1>3 DEF CallPop, Contract!Ask
  <2>2. QED
    BY <2>1 DEF Contract!Next
<1>4. ASSUME NEW c \in Consumers, Pop(c)
      PROVE  Contract!Next \/ UNCHANGED Contract!vars
  <2>1. CASE PopJob(c)
    <3>1. Contract!Take(c)
      BY <2>1 DEF PopJob, Contract!Take
    <3>2. QED
      BY <3>1 DEF Contract!Next, Contract!SomeTake
  <2>2. CASE PopClosed(c) \/ PopCancelled(c)
    <3>1. Contract!RefuseTake(c)
      BY <2>2 DEF PopClosed, PopCancelled, Contract!RefuseTake
    <3>2. QED
      BY <3>1 DEF Contract!Next, Contract!SomeTake
  <2>3. CASE PopEmpty(c) \/ PopWake(c)
    BY <2>3 DEF PopEmpty, PopWake, Contract!vars
  <2>4. QED
    BY <1>4, <2>1, <2>2, <2>3 DEF Pop
<1>5. ASSUME NEW t \in Callers, Cancel(t)
      PROVE  Contract!Next
  BY <1>5 DEF Cancel, Contract!CancelCaller, Contract!Next
<1>6. CASE Drain
  BY <1>6 DEF Drain, Contract!Discard, Contract!Next
<1>7. CASE Close
  BY <1>7 DEF Close, Contract!Shut, Contract!Next
<1>8. CASE UNCHANGED vars
  BY <1>8 DEF vars, Contract!vars
<1>9. QED
  BY <1>1, <1>2, <1>3, <1>4, <1>5, <1>6, <1>7, <1>8 DEF Next

(* PriorityJobQueue implements the safety part of the JobQueue contract:     *)
(* jobs are taken in rank order and at most once, nothing is accepted after  *)
(* Close or beyond maxLen, and a call gives up only if cancelled or closed.  *)
THEOREM QueueRefinesContract == Safety => Contract!Safety
<1>1. Init => Contract!Init
  BY DEF Init, Callers, Contract!Init
<1>2. QED
  BY <1>1, ContractStep, QueueInvariant, PTL DEF Safety, Contract!Safety

-----------------------------------------------------------------------------
(* The heap under the queue, for any jobs, whether or not Less orders them.   *)

HeapSafety == HeapInit /\ [][HeapNext]_heapVars

LEMMA LeastIndex ==
  ASSUME NEW S, S \subseteq Nat, S # {}
  PROVE  \E x \in S : \A y \in S : x <= y
<1>1. IsWellFoundedOn(OpToRel(<, Nat), Nat)
  BY NatLessThanWellFounded
<1>2. PICK x \in S : \A y \in S : ~(<<y, x>> \in OpToRel(<, Nat))
  BY <1>1, WFMin
<1>3. \A y \in S : ~(y < x)
  BY <1>2 DEF OpToRel
<1> QED BY <1>3

(* The relations a heap by Less keeps in order: Outranks in any case, and     *)
(* Less itself when it is an order.                                          *)
Outranked == {p \in Jobs \X Jobs : Outranks(p[1], p[2])}
Earlier == {p \in Jobs \X Jobs : Less(p[1], p[2])}
Respected == IF Mixed THEN {Outranked} ELSE {Outranked, Earlier}

LEMMA ScoreType == \A t : jobTypeScore(t) \in Nat
  BY DEF jobTypeScore

(* All that sifting needs to know of them.                                   *)
LEMMA RespectedOrder ==
  ASSUME NEW R \in Respected
  PROVE  \A a, b, c \in Jobs :
            /\ Less(a, b) => <<b, a>> \notin R
            /\ ~Less(a, b) => <<a, b>> \notin R
            /\ <<a, b>> \notin R /\ <<b, c>> \notin R => <<a, c>> \notin R
            /\ <<a, a>> \notin R
<1> SUFFICES ASSUME NEW a \in Jobs, NEW b \in Jobs, NEW c \in Jobs
             PROVE  /\ Less(a, b) => <<b, a>> \notin R
                    /\ ~Less(a, b) => <<a, b>> \notin R
                    /\ <<a, b>> \notin R /\ <<b, c>> \notin R => <<a, c>> \notin R
                    /\ <<a, a>> \notin R
  OBVIOUS
<1>1. /\ \A x, y \in Jobs : <<x, y>> \in Outranked <=> Outranks(x, y)
      /\ \A x, y \in Jobs : <<x, y>> \in Earlier <=> Less(x, y)
  BY DEF Outranked, Earlier
<1>2. \A x \in Jobs : jobTypeScore(x.type) \in Nat /\ x.prio \in Int /\ x.created \in Nat /\ x.run \in Int
  BY ScoreType, HeapAssumption
<1>3. CASE R = Outranked
  BY <1>1, <1>2, <1>3 DEF Outranks, Less
<1>4. CASE R = Earlier /\ ~Mixed
  <2>1. \A x, y \in Jobs : ~Outranks(x, y) /\ ~Outranks(y, x) => (x.created = 0 <=> y.created = 0)
    BY <1>4 DEF Mixed
  <2> QED BY <1>1, <1>2, <1>4, <2>1 DEF Outranks, Less
<1> QED BY <1>3, <1>4 DEF Respected

-----------------------------------------------------------------------------
(* Every job but the root is in order with its parent; during a loop one is   *)
(* not, and its children are in order with its parent instead.               *)
InPlace(R) == \A k \in 2..Len(arr) : <<arr[k], arr[Parent(k)]>> \notin R
Rising(R) ==
    /\ \A k \in 2..Len(arr) : k # at => <<arr[k], arr[Parent(k)]>> \notin R
    /\ \A k \in 2..Len(arr) : Parent(k) = at /\ at > 1 => <<arr[k], arr[Parent(at)]>> \notin R
Sinking(R) ==
    /\ \A k \in 2..Rest : Parent(k) # at => <<arr[k], arr[Parent(k)]>> \notin R
    /\ \A k \in 2..Rest : Parent(k) = at /\ at > 1 => <<arr[k], arr[Parent(at)]>> \notin R
    /\ \A k \in 1..Rest : <<arr[k], arr[Len(arr)]>> \notin R
HeapOrder ==
    \A R \in Respected : /\ loop = "none" => InPlace(R)
                         /\ loop = "up" => Rising(R)
                         /\ loop = "down" => Sinking(R)

JobsOnce ==
    /\ IsFiniteSet(held) /\ JobsConserved
    /\ \A i, j \in DOMAIN arr : arr[i] = arr[j] => i = j

HeapInv == HeapTypeOK /\ JobsOnce /\ HeapOrder

LEMMA Parents ==
  \A k \in Nat : k >= 2 =>
      Parent(k) \in 1..(k - 1) /\ (k = 2 * Parent(k) \/ k = 2 * Parent(k) + 1)
  BY DEF Parent

LEMMA BeforeLast == \A n \in Nat : \A k \in 1..(n - 1) : k \in 1..n /\ k # n
  OBVIOUS

LEMMA FirstOfTwo ==
  \A i, k, m \in Nat : (k = 2 * i \/ k = 2 * i + 1) /\ k <= m => 2 * i <= m
  OBVIOUS

LEMMA Children ==
  \A i \in Nat : i >= 1 => Parent(2 * i) = i /\ Parent(2 * i + 1) = i
  BY DEF Parent

(* By descent: the first job in the array that would go before the root has   *)
(* a parent, which would go before it too.                                   *)
LEMMA RootFirst ==
  ASSUME HeapTypeOK, NEW R \in Respected, InPlace(R)
  PROVE  \A k \in DOMAIN arr : <<arr[k], arr[1]>> \notin R
<1> DEFINE Bad == {k \in DOMAIN arr : <<arr[k], arr[1]>> \in R}
<1>1. DOMAIN arr = 1..Len(arr) /\ Len(arr) \in Nat /\ \A k \in DOMAIN arr : arr[k] \in Jobs
  BY DEF HeapTypeOK
<1>2. SUFFICES ASSUME Bad # {} PROVE FALSE
  OBVIOUS
<1>3. PICK k \in Bad : \A y \in Bad : k <= y
  <2>1. Bad \subseteq Nat
    BY <1>1
  <2> HIDE DEF Bad
  <2> QED BY <1>2, <2>1, LeastIndex
<1>4. k # 1
  BY <1>1, <1>3, RespectedOrder
<1>5. k \in 2..Len(arr) /\ Parent(k) \in 1..(k - 1) /\ Parent(k) \in DOMAIN arr
  BY <1>1, <1>3, <1>4, Parents
<1>6. <<arr[Parent(k)], arr[1]>> \notin R
  <2>1. Parent(k) \notin Bad
    <3>1. k \in Nat /\ ~(k <= Parent(k))
      BY <1>1, <1>3, <1>5
    <3> HIDE DEF Bad
    <3> QED BY <1>3, <3>1
  <2> QED BY <1>5, <2>1
<1>7. <<arr[k], arr[Parent(k)]>> \notin R
  BY <1>5 DEF InPlace
<1>8. 1 \in DOMAIN arr
  BY <1>1, <1>5
<1> QED BY <1>1, <1>3, <1>5, <1>6, <1>7, <1>8, RespectedOrder

LEMMA Swapped ==
  ASSUME NEW s \in Seq(Jobs), NEW i \in DOMAIN s, NEW j \in DOMAIN s
  PROVE  /\ Swap(s, i, j) \in Seq(Jobs) /\ Len(Swap(s, i, j)) = Len(s)
         /\ DOMAIN Swap(s, i, j) = 1..Len(s)
         /\ Swap(s, i, j)[i] = s[j] /\ Swap(s, i, j)[j] = s[i]
         /\ \A k \in 1..Len(s) : k # i /\ k # j => Swap(s, i, j)[k] = s[k]
  BY DEF Swap

(* A swap loses nothing.                                                     *)
LEMMA SwapKeeps ==
  ASSUME HeapTypeOK, JobsOnce, NEW i \in DOMAIN arr, NEW j \in DOMAIN arr,
         arr' = Swap(arr, i, j), UNCHANGED held
  PROVE  JobsOnce'
<1>1. /\ arr' \in Seq(Jobs) /\ Len(arr') = Len(arr) /\ DOMAIN arr' = DOMAIN arr
      /\ arr'[i] = arr[j] /\ arr'[j] = arr[i]
      /\ DOMAIN arr = 1..Len(arr) /\ \A k \in 1..Len(arr) : k # i /\ k # j => arr'[k] = arr[k]
  <2> DEFINE t == Swap(arr, i, j)
  <2>1. /\ t \in Seq(Jobs) /\ Len(t) = Len(arr) /\ DOMAIN t = 1..Len(arr)
        /\ t[i] = arr[j] /\ t[j] = arr[i]
        /\ \A k \in 1..Len(arr) : k # i /\ k # j => t[k] = arr[k]
    BY Swapped DEF HeapTypeOK
  <2>2. arr' = t /\ DOMAIN arr = 1..Len(arr)
    BY DEF HeapTypeOK
  <2> HIDE DEF t
  <2> QED BY <2>1, <2>2
<1>2. {arr'[k] : k \in DOMAIN arr'} = {arr[k] : k \in DOMAIN arr}
  BY <1>1
<1>3. \A k, l \in DOMAIN arr' : arr'[k] = arr'[l] => k = l
  BY <1>1 DEF JobsOnce
<1> QED BY <1>1, <1>2, <1>3 DEF JobsOnce, JobsConserved

LEMMA HeapInitInv == HeapInit => HeapInv
  BY FS_EmptySet DEF HeapInit, HeapInv, HeapTypeOK, JobsOnce, JobsConserved, HeapOrder, InPlace

LEMMA HeapPushInv ==
  ASSUME HeapInv, NEW job \in Jobs, HeapPush(job)
  PROVE  HeapInv'
<1>1. /\ arr \in Seq(Jobs) /\ Len(arr) \in Nat /\ DOMAIN arr = 1..Len(arr)
      /\ arr' = Append(arr, job) /\ arr' \in Seq(Jobs) /\ Len(arr') = Len(arr) + 1
      /\ DOMAIN arr' = 1..(Len(arr) + 1) /\ arr'[Len(arr) + 1] = job
      /\ \A k \in DOMAIN arr : arr'[k] = arr[k]
  BY DEF HeapInv, HeapTypeOK, HeapPush
<1>2. loop = "none" /\ loop' = "up" /\ at' = Len(arr) + 1 /\ held' = held \cup {job} /\ job \notin held
  BY DEF HeapPush
<1>3. HeapTypeOK'
  BY <1>1, <1>2 DEF HeapInv, HeapTypeOK
<1>4. JobsOnce'
  <2>1. IsFiniteSet(held') /\ Cardinality(held') = Cardinality(held) + 1
    BY <1>2, FS_AddElement DEF HeapInv, JobsOnce
  <2>2. {arr'[k] : k \in DOMAIN arr'} = held'
    BY <1>1, <1>2 DEF HeapInv, JobsOnce, JobsConserved
  <2>3. \A k \in DOMAIN arr : arr[k] # job
    BY <1>2 DEF HeapInv, JobsOnce, JobsConserved
  <2>4. \A i, j \in DOMAIN arr' : arr'[i] = arr'[j] => i = j
    BY <1>1, <2>3 DEF HeapInv, JobsOnce
  <2> QED BY <1>1, <2>1, <2>2, <2>4 DEF HeapInv, JobsOnce, JobsConserved
<1>5. ASSUME NEW R \in Respected PROVE Rising(R)'
  <2>1. \A k \in 2..Len(arr') : Parent(k) \in 1..(k - 1) /\ Parent(k) # Len(arr) + 1
    BY <1>1, Parents
  <2>2. InPlace(R)
    BY <1>2 DEF HeapInv, HeapOrder
  <2> QED BY <1>1, <1>2, <2>1, <2>2 DEF Rising, InPlace
<1> QED BY <1>2, <1>3, <1>4, <1>5 DEF HeapInv, HeapOrder

LEMMA HeapUpInv ==
  ASSUME HeapInv, HeapUp
  PROVE  HeapInv'
<1>1. /\ arr \in Seq(Jobs) /\ Len(arr) \in Nat /\ DOMAIN arr = 1..Len(arr) /\ at \in 1..Len(arr)
      /\ loop = "up" /\ held' = held /\ \A k \in 1..Len(arr) : arr[k] \in Jobs
  BY DEF HeapInv, HeapTypeOK, HeapUp
<1>2. \A R \in Respected : Rising(R)
  BY <1>1 DEF HeapInv, HeapOrder
<1>3. \A k \in 2..Len(arr) : Parent(k) \in 1..(k - 1) /\ Parent(k) \in 1..Len(arr)
  BY <1>1, Parents
<1>4. CASE at = 1 \/ ~Less(arr[at], arr[Parent(at)])
  <2>1. loop' = "none" /\ UNCHANGED <<arr, at>>
    BY <1>4 DEF HeapUp
  <2>2. HeapTypeOK' /\ JobsOnce'
    BY <1>1, <2>1 DEF HeapInv, HeapTypeOK, JobsOnce, JobsConserved
  <2>3. ASSUME NEW R \in Respected PROVE InPlace(R)'
    <3>1. at # 1 => <<arr[at], arr[Parent(at)]>> \notin R
      <4>1. SUFFICES ASSUME at # 1 PROVE <<arr[at], arr[Parent(at)]>> \notin R
        OBVIOUS
      <4>2. arr[at] \in Jobs /\ arr[Parent(at)] \in Jobs
        BY <1>1, <1>3, <4>1
      <4> QED BY <1>4, <4>1, <4>2, RespectedOrder
    <3> QED BY <1>1, <1>2, <2>1, <3>1 DEF Rising, InPlace
  <2> QED BY <2>1, <2>2, <2>3 DEF HeapInv, HeapOrder
<1>5. CASE at # 1 /\ Less(arr[at], arr[Parent(at)])
  <2> DEFINE up == Parent(at)
  <2>0. up = Parent(at)
    OBVIOUS
  <2>1. loop' = "up" /\ at' = up /\ arr' = Swap(arr, up, at)
    BY <1>1, <1>5 DEF HeapUp
  <2>2. up \in 1..(at - 1) /\ up \in 1..Len(arr) /\ at \in 2..Len(arr)
    BY <1>1, <1>3, <1>5
  <2> HIDE DEF up
  <2>3. /\ arr' \in Seq(Jobs) /\ Len(arr') = Len(arr) /\ DOMAIN arr' = 1..Len(arr)
        /\ arr'[up] = arr[at] /\ arr'[at] = arr[up]
        /\ \A k \in 1..Len(arr) : k # up /\ k # at => arr'[k] = arr[k]
    <3>1. up \in DOMAIN arr /\ at \in DOMAIN arr
      BY <1>1, <2>2
    <3> DEFINE t == Swap(arr, up, at)
    <3>2. /\ t \in Seq(Jobs) /\ Len(t) = Len(arr) /\ DOMAIN t = 1..Len(arr)
          /\ t[up] = arr[at] /\ t[at] = arr[up]
          /\ \A k \in 1..Len(arr) : k # up /\ k # at => t[k] = arr[k]
      BY <1>1, <3>1, Swapped
    <3>3. arr' = t
      BY <2>1
    <3> HIDE DEF t
    <3> QED BY <3>2, <3>3
  <2>4. JobsOnce'
    BY <1>1, <2>1, <2>2, SwapKeeps DEF HeapInv
  <2>5. HeapTypeOK'
    BY <1>1, <2>1, <2>2, <2>3 DEF HeapInv, HeapTypeOK
  <2>6. ASSUME NEW R \in Respected PROVE Rising(R)'
    <3>1. \A k \in 2..Len(arr) : k # at => <<arr[k], arr[Parent(k)]>> \notin R
      BY <1>2 DEF Rising
    <3>2. \A k \in 2..Len(arr) : Parent(k) = at => <<arr[k], arr[up]>> \notin R
      BY <1>2, <2>0, <2>2 DEF Rising
    <3>3. <<arr[up], arr[at]>> \notin R
      BY <1>1, <1>5, <2>0, <2>2, RespectedOrder
    <3>4. ASSUME NEW k \in 2..Len(arr), k # up PROVE <<arr'[k], arr'[Parent(k)]>> \notin R
      <4>1. CASE k = at
        BY <2>0, <2>3, <3>3, <4>1
      <4>2. CASE k # at /\ Parent(k) = up
        <5>1. <<arr[k], arr[up]>> \notin R
          BY <3>1, <4>2
        <5>2. <<arr[k], arr[at]>> \notin R
          <6>1. arr[k] \in Jobs /\ arr[up] \in Jobs /\ arr[at] \in Jobs
            BY <1>1, <2>2
          <6> QED BY <3>3, <5>1, <6>1, RespectedOrder
        <5> QED BY <2>3, <3>4, <4>2, <5>2
      <4>3. CASE k # at /\ Parent(k) = at
        BY <2>3, <3>2, <3>4, <4>3
      <4>4. CASE k # at /\ Parent(k) # up /\ Parent(k) # at
        BY <1>3, <2>3, <3>1, <3>4, <4>4
      <4> QED BY <4>1, <4>2, <4>3, <4>4
    <3>5. ASSUME NEW k \in 2..Len(arr), Parent(k) = up, up > 1
          PROVE  <<arr'[k], arr'[Parent(up)]>> \notin R
      <4>1. Parent(up) \in 1..(up - 1) /\ Parent(up) \in 1..Len(arr)
        BY <1>3, <2>2, <3>5
      <4>2. arr'[Parent(up)] = arr[Parent(up)]
        BY <2>2, <2>3, <4>1
      <4>3. <<arr[up], arr[Parent(up)]>> \notin R
        BY <2>2, <3>1, <3>5
      <4>4. CASE k = at
        BY <2>3, <4>2, <4>3, <4>4
      <4>5. CASE k # at
        <5>1. k # up /\ <<arr[k], arr[up]>> \notin R
          BY <1>3, <3>1, <3>5, <4>5
        <5>2. <<arr[k], arr[Parent(up)]>> \notin R
          <6>1. arr[k] \in Jobs /\ arr[up] \in Jobs /\ arr[Parent(up)] \in Jobs
            BY <1>1, <2>2, <4>1
          <6> QED BY <4>3, <5>1, <6>1, RespectedOrder
        <5> QED BY <2>3, <4>2, <4>5, <5>1, <5>2
      <4> QED BY <4>4, <4>5
    <3> QED BY <2>1, <2>3, <3>4, <3>5 DEF Rising
  <2> QED BY <2>1, <2>4, <2>5, <2>6 DEF HeapInv, HeapOrder
<1> QED BY <1>4, <1>5

LEMMA HeapPopInv ==
  ASSUME HeapInv, HeapPop
  PROVE  HeapInv'
<1>1. /\ arr \in Seq(Jobs) /\ Len(arr) \in Nat /\ DOMAIN arr = 1..Len(arr) /\ Len(arr) >= 1
      /\ loop = "none" /\ loop' = "down" /\ at' = 1 /\ held' = held
      /\ arr' = Swap(arr, 1, Len(arr)) /\ \A k \in 1..Len(arr) : arr[k] \in Jobs
  BY DEF HeapInv, HeapTypeOK, HeapPop
<1>2. 1 \in DOMAIN arr /\ Len(arr) \in DOMAIN arr
  BY <1>1
<1>3. /\ arr' \in Seq(Jobs) /\ Len(arr') = Len(arr) /\ DOMAIN arr' = 1..Len(arr)
      /\ arr'[1] = arr[Len(arr)] /\ arr'[Len(arr)] = arr[1]
      /\ \A k \in 1..Len(arr) : k # 1 /\ k # Len(arr) => arr'[k] = arr[k]
  <2> DEFINE t == Swap(arr, 1, Len(arr))
  <2>1. /\ t \in Seq(Jobs) /\ Len(t) = Len(arr) /\ DOMAIN t = 1..Len(arr)
        /\ t[1] = arr[Len(arr)] /\ t[Len(arr)] = arr[1]
        /\ \A k \in 1..Len(arr) : k # 1 /\ k # Len(arr) => t[k] = arr[k]
    BY <1>1, <1>2, Swapped, ZenonT(60)
  <2>2. arr' = t
    BY <1>1
  <2> HIDE DEF t
  <2> QED BY <2>1, <2>2
<1>4. JobsOnce'
  BY <1>1, <1>2, SwapKeeps DEF HeapInv
<1>5. HeapTypeOK'
  BY <1>1, <1>2, <1>3 DEF HeapInv, HeapTypeOK
<1>6. ASSUME NEW R \in Respected PROVE Sinking(R)'
  <2>1. InPlace(R)
    BY <1>1 DEF HeapInv, HeapOrder
  <2>2. \A k \in DOMAIN arr : <<arr[k], arr[1]>> \notin R
    BY <2>1, RootFirst DEF HeapInv
  <2>3. Rest' = Len(arr) - 1
    BY <1>3 DEF Rest
  <2>4. ASSUME NEW k \in 2..(Len(arr) - 1), Parent(k) # 1
        PROVE  <<arr'[k], arr'[Parent(k)]>> \notin R
    <3>1. Parent(k) \in 2..(Len(arr) - 1) /\ k \in 2..Len(arr)
      BY <1>1, <2>4, Parents
    <3>2. /\ k \in 1..Len(arr) /\ k # 1 /\ k # Len(arr)
          /\ Parent(k) \in 1..Len(arr) /\ Parent(k) # 1 /\ Parent(k) # Len(arr)
      <4>1. k \in 1..(Len(arr) - 1) /\ k # 1 /\ Parent(k) \in 1..(Len(arr) - 1) /\ Parent(k) # 1
        BY <3>1
      <4> QED BY <1>1, <4>1, BeforeLast
    <3>3. arr'[k] = arr[k] /\ arr'[Parent(k)] = arr[Parent(k)]
      BY <1>3, <3>2
    <3> QED BY <2>1, <3>1, <3>3 DEF InPlace
  <2>5. ASSUME NEW k \in 1..(Len(arr) - 1) PROVE <<arr'[k], arr'[Len(arr)]>> \notin R
    <3>1. k \in DOMAIN arr /\ k # Len(arr)
      <4>1. Len(arr) \in Nat /\ DOMAIN arr = 1..Len(arr)
        BY <1>1
      <4> QED BY <4>1, BeforeLast
    <3>2. arr'[k] = arr[k] \/ arr'[k] = arr[Len(arr)]
      BY <1>1, <1>3, <3>1
    <3>3. <<arr[k], arr[1]>> \notin R /\ <<arr[Len(arr)], arr[1]>> \notin R
      BY <1>2, <2>2, <3>1
    <3>4. arr'[Len(arr)] = arr[1]
      BY <1>3
    <3>5. CASE arr'[k] = arr[k]
      BY <3>3, <3>4, <3>5
    <3>6. CASE arr'[k] = arr[Len(arr)]
      BY <3>3, <3>4, <3>6
    <3> QED BY <3>2, <3>5, <3>6
  <2>6. Len(arr') = Len(arr) /\ at' = 1
    BY <1>1, <1>3
  <2>7. \A k \in 2..Rest' : Parent(k) # at' => <<arr'[k], arr'[Parent(k)]>> \notin R
    BY <2>3, <2>4, <2>6
  <2>8. \A k \in 1..Rest' : <<arr'[k], arr'[Len(arr')]>> \notin R
    BY <2>3, <2>5, <2>6
  <2> QED BY <2>6, <2>7, <2>8 DEF Sinking
<1> QED BY <1>1, <1>4, <1>5, <1>6 DEF HeapInv, HeapOrder

(* The child that goes up, if one does: the other one stays in order under it. *)
LEMMA FirstChild ==
  ASSUME HeapTypeOK, loop = "down", 2 * at <= Rest
  PROVE  LET c == SmallerChild(at) IN
         /\ c \in 2..Rest /\ c > at /\ Parent(c) = at
         /\ \A R \in Respected : \A k \in 2..Rest : Parent(k) = at /\ k # c => <<arr[k], arr[c]>> \notin R
<1> DEFINE c == SmallerChild(at)
<1>1. /\ arr \in Seq(Jobs) /\ Len(arr) \in Nat /\ at \in 1..Len(arr) /\ Rest = Len(arr) - 1
      /\ \A k \in 1..Len(arr) : arr[k] \in Jobs
  BY DEF HeapTypeOK, Rest
<1>0. at \in Nat /\ at >= 1 /\ Rest \in Int
  BY <1>1
<1>2. c = 2 * at \/ (c = 2 * at + 1 /\ 2 * at + 1 <= Rest)
  BY DEF SmallerChild
<1>3. c \in 2..Rest /\ c > at
  <2> HIDE DEF c
  <2> QED BY <1>1, <1>2
<1>4. Parent(c) = at
  <2> HIDE DEF c
  <2> QED BY <1>0, <1>2, Children
<1>5. ASSUME NEW R \in Respected, NEW k \in 2..Rest, Parent(k) = at, k # c
      PROVE  <<arr[k], arr[c]>> \notin R
  <2>1. k = 2 * at \/ k = 2 * at + 1
    <3>1. k \in Nat /\ k >= 2
      BY <1>0
    <3> QED BY <1>5, <3>1, Parents
  <2>2. arr[k] \in Jobs /\ arr[c] \in Jobs
    <3> HIDE DEF c
    <3> QED BY <1>1, <1>3
  <2>3. CASE Less(arr[2 * at + 1], arr[2 * at])
    <3>1. k = 2 * at /\ c = 2 * at + 1
      BY <1>1, <1>5, <2>1, <2>3 DEF SmallerChild
    <3>2. Less(arr[c], arr[k])
      BY <2>3, <3>1
    <3> HIDE DEF c
    <3> QED BY <2>2, <3>2, RespectedOrder
  <2>4. CASE ~Less(arr[2 * at + 1], arr[2 * at])
    <3>1. k = 2 * at + 1 /\ c = 2 * at
      BY <1>1, <1>5, <2>1, <2>4 DEF SmallerChild
    <3>2. ~Less(arr[k], arr[c])
      BY <2>4, <3>1
    <3> HIDE DEF c
    <3> QED BY <2>2, <3>2, RespectedOrder
  <2> QED BY <2>3, <2>4
<1> QED BY <1>3, <1>4, <1>5

LEMMA HeapDownInv ==
  ASSUME HeapInv, HeapDown
  PROVE  HeapInv'
<1> DEFINE c == SmallerChild(at)
<1>1. /\ arr \in Seq(Jobs) /\ Len(arr) \in Nat /\ DOMAIN arr = 1..Len(arr) /\ at \in 1..Len(arr)
      /\ loop = "down" /\ Rest = Len(arr) - 1 /\ \A k \in 1..Len(arr) : arr[k] \in Jobs
  BY DEF HeapInv, HeapTypeOK, HeapDown, Rest
<1>0. Len(arr) \in Nat /\ DOMAIN arr = 1..Len(arr) /\ at \in 1..Len(arr) /\ Rest = Len(arr) - 1
  BY <1>1
<1>2. \A R \in Respected : Sinking(R)
  BY <1>1 DEF HeapInv, HeapOrder
<1>3. \A k \in 2..Len(arr) : Parent(k) \in 1..(k - 1)
  BY <1>1, Parents
<1>4. CASE 2 * at > Rest \/ ~Less(arr[c], arr[at])
  <2>1. loop' = "none" /\ at' = at /\ arr' = SubSeq(arr, 1, Rest) /\ held' = held \ {arr[Len(arr)]}
    BY <1>4 DEF HeapDown
  <2>2. /\ arr' \in Seq(Jobs) /\ Len(arr') = Rest /\ DOMAIN arr' = 1..Rest
        /\ \A k \in 1..Rest : arr'[k] = arr[k]
    BY <1>1, <2>1
  <2>3. held' \subseteq Jobs /\ HeapTypeOK'
    BY <2>1, <2>2 DEF HeapInv, HeapTypeOK
  <2>4. JobsOnce'
    <3>1. arr[Len(arr)] \in held
      BY <1>1 DEF HeapInv, JobsOnce, JobsConserved
    <3>2. IsFiniteSet(held') /\ Cardinality(held') = Cardinality(held) - 1
      BY <2>1, <3>1, FS_RemoveElement DEF HeapInv, JobsOnce
    <3>3. {arr'[k] : k \in DOMAIN arr'} = held'
      <4>1. \A k \in DOMAIN arr' : k \in DOMAIN arr /\ arr'[k] \in held /\ arr'[k] # arr[Len(arr)]
        BY <1>1, <2>2 DEF HeapInv, JobsOnce, JobsConserved
      <4>2. ASSUME NEW j \in held' PROVE \E k \in DOMAIN arr' : arr'[k] = j
        <5>1. PICK k \in DOMAIN arr : arr[k] = j
          BY <2>1, <4>2 DEF HeapInv, JobsOnce, JobsConserved
        <5>2. k # Len(arr)
          BY <2>1, <4>2, <5>1
        <5>3. k \in 1..Rest
          BY <1>0, <5>1, <5>2
        <5> QED BY <2>2, <5>1, <5>3
      <4>3. held' \subseteq {arr'[k] : k \in DOMAIN arr'}
        BY <4>2
      <4>4. {arr'[k] : k \in DOMAIN arr'} \subseteq held'
        BY <2>1, <4>1
      <4> QED BY <4>3, <4>4
    <3>4. \A i, j \in DOMAIN arr' : arr'[i] = arr'[j] => i = j
      BY <1>1, <2>2 DEF HeapInv, JobsOnce
    <3> QED BY <1>1, <2>2, <3>2, <3>3, <3>4 DEF HeapInv, JobsOnce, JobsConserved
  <2>5. ASSUME NEW R \in Respected PROVE InPlace(R)'
    <3>1. ASSUME NEW k \in 2..Rest PROVE <<arr[k], arr[Parent(k)]>> \notin R
      <4>1. CASE Parent(k) # at
        BY <1>2, <4>1 DEF Sinking
      <4>2. CASE Parent(k) = at
        <5>1. 2 * at <= Rest
          <6>1. k \in Nat /\ k >= 2 /\ k <= Rest /\ Rest \in Nat /\ at \in Nat
            BY <1>0
          <6>2. k = 2 * at \/ k = 2 * at + 1
            BY <4>2, <6>1, Parents
          <6> QED BY <6>1, <6>2, FirstOfTwo
        <5>2. c \in 2..Rest /\ (k # c => <<arr[k], arr[c]>> \notin R)
          BY <1>1, <4>2, <5>1, FirstChild DEF HeapInv
        <5>3. arr[k] \in Jobs /\ arr[c] \in Jobs /\ arr[at] \in Jobs
          <6> HIDE DEF c
          <6> QED BY <1>1, <5>2
        <5>4. ~Less(arr[c], arr[at])
          BY <1>1, <1>4, <5>1
        <5>5. <<arr[c], arr[at]>> \notin R
          <6> HIDE DEF c
          <6> QED BY <5>3, <5>4, RespectedOrder
        <5> HIDE DEF c
        <5> QED BY <4>2, <5>2, <5>3, <5>5, RespectedOrder
      <4> QED BY <4>1, <4>2
    <3>2. \A k \in 2..Rest : Parent(k) \in 1..Rest
      BY <1>1, <1>3
    <3> QED BY <2>2, <3>1, <3>2 DEF InPlace
  <2> QED BY <2>1, <2>3, <2>4, <2>5 DEF HeapInv, HeapOrder
<1>5. CASE 2 * at <= Rest /\ Less(arr[c], arr[at])
  <2>1. loop' = "down" /\ at' = c /\ arr' = Swap(arr, at, c) /\ held' = held
    BY <1>1, <1>5 DEF HeapDown
  <2>2. c \in 2..Rest /\ c > at /\ Parent(c) = at
    BY <1>1, <1>5, FirstChild DEF HeapInv
  <2>3. \A R \in Respected : \A k \in 2..Rest : Parent(k) = at /\ k # c => <<arr[k], arr[c]>> \notin R
    BY <1>1, <1>5, FirstChild DEF HeapInv
  <2>4. Less(arr[c], arr[at])
    BY <1>5
  <2> HIDE DEF c
  <2>5. c \in DOMAIN arr /\ at \in DOMAIN arr /\ c # Len(arr) /\ at # Len(arr)
    <3>1. c \in 1..Rest /\ at \in 1..Rest
      BY <1>0, <2>2
    <3> QED BY <1>0, <3>1, BeforeLast
  <2>6. /\ arr' \in Seq(Jobs) /\ Len(arr') = Len(arr) /\ DOMAIN arr' = 1..Len(arr)
        /\ arr'[at] = arr[c] /\ arr'[c] = arr[at]
        /\ \A k \in 1..Len(arr) : k # at /\ k # c => arr'[k] = arr[k]
    BY <1>1, <2>1, <2>5, Swapped
  <2>7. JobsOnce'
    BY <1>1, <2>1, <2>5, SwapKeeps DEF HeapInv
  <2>8. HeapTypeOK'
    <3>1. c \in DOMAIN arr' /\ c \in Nat
      BY <1>0, <2>5, <2>6
    <3> QED BY <1>1, <2>1, <2>6, <3>1 DEF HeapInv, HeapTypeOK
  <2>9. Rest' = Rest
    BY <2>6 DEF Rest
  <2>10. ASSUME NEW R \in Respected PROVE Sinking(R)'
    <3>1. \A k \in 2..Rest : Parent(k) # at => <<arr[k], arr[Parent(k)]>> \notin R
      BY <1>2 DEF Sinking
    <3>2. at > 1 => <<arr[c], arr[Parent(at)]>> \notin R
      BY <1>2, <2>2 DEF Sinking
    <3>3. \A k \in 1..Rest : <<arr[k], arr[Len(arr)]>> \notin R
      BY <1>2 DEF Sinking
    <3>4. <<arr[at], arr[c]>> \notin R
      BY <1>1, <2>4, <2>5, RespectedOrder
    <3>5. ASSUME NEW k \in 2..Rest, Parent(k) # c PROVE <<arr'[k], arr'[Parent(k)]>> \notin R
      <4>1. k \in 1..Len(arr) /\ Parent(k) \in 1..(k - 1) /\ Parent(k) \in 1..Len(arr)
        BY <1>1, <1>3
      <4>2. CASE k = c
        BY <2>2, <2>6, <3>4, <4>2
      <4>3. CASE k = at
        BY <2>5, <2>6, <3>2, <3>5, <4>1, <4>3
      <4>4. CASE k # c /\ k # at /\ Parent(k) = at
        BY <2>3, <2>6, <4>1, <4>4
      <4>5. CASE k # c /\ k # at /\ Parent(k) # at
        BY <2>6, <3>1, <3>5, <4>1, <4>5
      <4> QED BY <4>2, <4>3, <4>4, <4>5
    <3>6. ASSUME NEW k \in 2..Rest, Parent(k) = c PROVE <<arr'[k], arr'[Parent(c)]>> \notin R
      <4>1. k # c /\ k # at /\ k \in 1..Len(arr) /\ Parent(k) # at
        BY <1>1, <1>3, <2>2, <3>6
      <4> QED BY <2>2, <2>6, <3>1, <3>6, <4>1
    <3>7. ASSUME NEW k \in 1..Rest PROVE <<arr'[k], arr'[Len(arr)]>> \notin R
      <4>1. arr'[Len(arr)] = arr[Len(arr)] /\ k \in 1..Len(arr)
        BY <1>1, <2>5, <2>6
      <4>2. arr'[k] \in {arr[k], arr[at], arr[c]}
        BY <2>6, <4>1
      <4>3. at \in 1..Rest /\ c \in 1..Rest
        BY <1>1, <2>2
      <4> QED BY <3>3, <4>1, <4>2, <4>3
    <3> QED BY <2>1, <2>6, <2>9, <3>5, <3>6, <3>7 DEF Sinking
  <2> QED BY <2>1, <2>7, <2>8, <2>10 DEF HeapInv, HeapOrder
<1>6. 2 * at > Rest \/ 2 * at <= Rest
  BY <1>1
<1> QED BY <1>4, <1>5, <1>6

LEMMA HeapDrainInv ==
  ASSUME HeapInv, HeapDrain
  PROVE  HeapInv'
<1>1. loop = "none" /\ arr' = <<>> /\ held' = {} /\ loop' = loop /\ at' = at
  BY DEF HeapDrain
<1> QED BY <1>1, FS_EmptySet
        DEF HeapInv, HeapTypeOK, JobsOnce, JobsConserved, HeapOrder, InPlace

LEMMA HeapInvImpliesSound == HeapInv => HeapSound
<1> SUFFICES ASSUME HeapInv PROVE RootIsBest
  BY DEF HeapInv, HeapSound, JobsOnce
<1> DEFINE best == IF loop = "down" THEN Len(arr) ELSE 1
<1>1. /\ DOMAIN arr = 1..Len(arr) /\ Len(arr) \in Nat /\ \A k \in DOMAIN arr : arr[k] \in Jobs
      /\ loop \in {"none", "up", "down"} /\ (loop # "none" => at \in DOMAIN arr)
  BY DEF HeapInv, HeapTypeOK
<1> SUFFICES ASSUME loop # "up", NEW i \in DOMAIN arr
             PROVE  ~Outranks(arr[i], arr[best]) /\ (~Mixed => ~Less(arr[i], arr[best]))
  BY DEF RootIsBest
<1>2. best \in DOMAIN arr
  BY <1>1
<1>3. ASSUME NEW R \in Respected PROVE <<arr[i], arr[best]>> \notin R
  <2>1. CASE loop = "none"
    <3>1. InPlace(R)
      BY <2>1 DEF HeapInv, HeapOrder
    <3> QED BY <2>1, <3>1, RootFirst DEF HeapInv
  <2>2. CASE loop = "down" /\ i # Len(arr)
    BY <1>1, <2>2 DEF HeapInv, HeapOrder, Sinking, Rest
  <2>3. CASE loop = "down" /\ i = Len(arr)
    BY <1>1, <2>3, RespectedOrder
  <2> QED BY <1>1, <2>1, <2>2, <2>3
<1> HIDE DEF best
<1>4. arr[i] \in Jobs /\ arr[best] \in Jobs
  BY <1>1, <1>2
<1>5. Outranked \in Respected /\ (~Mixed => Earlier \in Respected)
  BY DEF Respected
<1>6. <<arr[i], arr[best]>> \notin Outranked /\ (~Mixed => <<arr[i], arr[best]>> \notin Earlier)
  BY <1>3, <1>5
<1> QED BY <1>4, <1>6 DEF Outranked, Earlier

(* The inductive invariant of the heap: every job is in order with its parent *)
(* but the one a loop moves (container/heap up and down over Less and Swap).  *)
THEOREM HeapInvariant == HeapSafety => []HeapInv
<1>1. HeapInit => HeapInv
  BY HeapInitInv
<1>2. HeapInv /\ [HeapNext]_heapVars => HeapInv'
  <2> SUFFICES ASSUME HeapInv, [HeapNext]_heapVars PROVE HeapInv'
    OBVIOUS
  <2>1. ASSUME NEW job \in Jobs, HeapPush(job) PROVE HeapInv'
    BY <2>1, HeapPushInv
  <2>2. CASE HeapUp
    BY <2>2, HeapUpInv
  <2>3. CASE HeapPop
    BY <2>3, HeapPopInv
  <2>4. CASE HeapDown
    BY <2>4, HeapDownInv
  <2>5. CASE HeapDrain
    BY <2>5, HeapDrainInv
  <2>6. CASE UNCHANGED heapVars
    BY <2>6 DEF heapVars, HeapInv, HeapTypeOK, JobsOnce, JobsConserved, HeapOrder, InPlace,
                Rising, Sinking, Rest
  <2> QED BY <2>1, <2>2, <2>3, <2>4, <2>5, <2>6 DEF HeapNext
<1> QED BY <1>1, <1>2, PTL DEF HeapSafety

(* The array holds the jobs pushed and not taken, and the job a Pop takes is  *)
(* outranked by none, however Less compares dated and undated jobs.          *)
THEOREM HeapIsSound == HeapSafety => []HeapSound
  BY HeapInvariant, HeapInvImpliesSound, PTL
=============================================================================

-------------------------- MODULE WorkerPoolProofs --------------------------
(* The worker pool for every number of users, every bound and every size:    *)
(* its type invariant, and that workerControls, the live workers and         *)
(* numWorkers agree (PoolExact).                                             *)
EXTENDS WorkerPool, SequenceTheorems, TLAPS

Size == MinWorkerCount..MaxWorkers

(* The steps of a call; a size in one is never below MinWorkerCount.         *)
Step == [op : {"read", "store", "arm", "edit"}]
            \union [op : {"workers", "resize"}, value : Size]

StepsOK ==
    /\ todo \in [Goroutines -> Seq(Step)]
    /\ config \in [ver : Nat, workers : Size]

(* Controls that were not made yet have no goroutine.                        *)
UnbornOK == \A c \in Control : c > started => worker[c].pc = "unborn"

(* A control is registered under the id of its own worker only.              *)
RegisteredOwn ==
    \A i \in Id : workerControls[i] # NoControl => worker[workerControls[i]].id = i

LostBelow == lost \subseteq 0..(numWorkers - 1)

(* The inductive invariant.                                                  *)
PoolInv == TypeOK /\ UnbornOK /\ RegisteredOwn /\ LostBelow /\ PoolExact

IInv == StepsOK /\ PoolInv
-----------------------------------------------------------------------------
(* What a call is made of.                                                   *)
LEMMA CallSteps ==
    /\ Setter \in Seq(Step)
    /\ UpdateConfig \in Seq(Step)
    /\ Build \in Seq(Step)
    /\ \A n \in Nat : n <= MaxWorkers => SetWorkerCount(n) \in Seq(Step)
<1> USE PoolAssumption
<1>1. <<[op |-> "edit"]>> \in Seq(Step) /\ Schedule \in Seq(Step) /\ Build \in Seq(Step)
  BY DEF Step, Schedule, Build
<1>2. Setter \in Seq(Step) /\ UpdateConfig \in Seq(Step)
  BY <1>1, ConcatProperties DEF Setter, UpdateConfig
<1>3. ASSUME NEW n \in Nat, n <= MaxWorkers
      PROVE  SetWorkerCount(n) \in Seq(Step)
  <2>1. AtLeast(n, MinWorkerCount) \in Size
    BY <1>3 DEF AtLeast, Size
  <2>2. /\ <<[op |-> "workers", value |-> AtLeast(n, MinWorkerCount)]>> \in Seq(Step)
        /\ <<[op |-> "resize", value |-> AtLeast(n, MinWorkerCount)]>> \in Seq(Step)
    BY <2>1 DEF Step
  <2>3. QED
    BY <2>2, <1>1, ConcatProperties DEF SetWorkerCount
<1>4. QED
  BY <1>1, <1>2, <1>3

(* Taking the next step of a call.                                           *)
LEMMA AdvanceSteps ==
    ASSUME StepsOK, NEW t \in Goroutines, ~Idle(t), Advance(t)
    PROVE  /\ Head(todo[t]) \in Step
           /\ todo' \in [Goroutines -> Seq(Step)]
<1>1. todo[t] \in Seq(Step) /\ todo[t] # <<>>
  BY DEF StepsOK, Idle
<1>2. Head(todo[t]) \in Step /\ Tail(todo[t]) \in Seq(Step)
  BY <1>1, HeadTailProperties
<1>3. QED
  BY <1>2 DEF Advance, StepsOK

(* A step that carries a size carries a legal one.                           *)
LEMMA SizeOfStep ==
    ASSUME NEW s \in Step, s.op \in {"workers", "resize"}
    PROVE  s.value \in Size
  BY DEF Step
-----------------------------------------------------------------------------
(* The calls stay well formed.                                               *)
LEMMA StepsStep == StepsOK /\ TypeOK /\ [Next]_vars => StepsOK'
<1> SUFFICES ASSUME StepsOK, TypeOK, [Next]_vars PROVE StepsOK'
  OBVIOUS
<1> USE PoolAssumption
<1>0. Control \subseteq Goroutines /\ Users \subseteq Goroutines
  BY DEF Goroutines
<1>1. ASSUME NEW u \in Users, UserCalls(u) PROVE StepsOK'
  <2>1. PICK call \in {Setter, UpdateConfig} \union {SetWorkerCount(n) : n \in 0..MaxWorkers} :
          todo' = [todo EXCEPT ![u] = call]
    BY <1>1 DEF UserCalls
  <2>2. call \in Seq(Step)
    BY CallSteps
  <2>3. config' = config
    BY <1>1 DEF UserCalls, configVars
  <2>4. QED
    BY <2>1, <2>2, <2>3, <1>0 DEF StepsOK
<1>2. ASSUME NEW c \in Control, autoThrottleCheck(c) PROVE StepsOK'
  <2> DEFINE n == AtLeast((config.workers * 50) \div 100, MinThrottledWorkers)
  <2>1. n \in Nat /\ n <= MaxWorkers
    BY DEF StepsOK, AtLeast, Size
  <2>2. SetWorkerCount(n) \o Setter \in Seq(Step)
    BY <2>1, CallSteps, ConcatProperties
  <2>3. todo' = [todo EXCEPT ![c] = SetWorkerCount(n) \o Setter] /\ config' = config
    BY <1>2 DEF autoThrottleCheck, configVars
  <2>4. QED
    BY <2>2, <2>3, <1>0 DEF StepsOK
<1>3. ASSUME NEW t \in Goroutines, CallStep(t) PROVE StepsOK'
  <2>1. ~Idle(t) /\ Advance(t)
    BY <1>3 DEF CallStep, Resize, ConfigStep, Edit, EditWorkers, ReadConfig, StoreSnapshot,
                ArmTimer, At
  <2>2. Head(todo[t]) \in Step /\ todo' \in [Goroutines -> Seq(Step)]
    BY <2>1, AdvanceSteps
  <2>3. CASE EditWorkers(t)
    <3>1. Head(todo[t]).value \in Size
      BY <2>2, <2>3, SizeOfStep DEF EditWorkers, At
    <3>2. config' = [ver |-> config.ver + 1, workers |-> Head(todo[t]).value]
      BY <2>3 DEF EditWorkers, StepsOK
    <3>3. config' \in [ver : Nat, workers : Size]
      BY <3>1, <3>2 DEF StepsOK
    <3>4. QED
      BY <3>3, <2>2 DEF StepsOK
  <2>4. CASE Edit(t)
    <3>1. config' = [ver |-> config.ver + 1, workers |-> config.workers]
      BY <2>4 DEF Edit, StepsOK
    <3>2. config' \in [ver : Nat, workers : Size]
      BY <3>1 DEF StepsOK
    <3>3. QED
      BY <3>2, <2>2 DEF StepsOK
  <2>5. CASE Resize(t) \/ ReadConfig(t) \/ StoreSnapshot(t) \/ ArmTimer(t)
    <3>1. config' = config
      BY <2>5 DEF Resize, ReadConfig, StoreSnapshot, ArmTimer, configVars
    <3>2. QED
      BY <3>1, <2>2 DEF StepsOK
  <2>6. QED
    BY <1>3, <2>3, <2>4, <2>5 DEF CallStep, ConfigStep
<1>4. CASE Rebuild
  <2>1. PICK r \in Rebuilders : TimerFires(r)
    BY <1>4 DEF Rebuild
  <2>2. r \in Goroutines /\ config' = config /\ todo' = [todo EXCEPT ![r] = Build]
    BY <2>1 DEF TimerFires, Goroutines
  <2>3. QED
    BY <2>2, CallSteps DEF StepsOK
<1>5. CASE UNCHANGED <<config, todo>>
  BY <1>5 DEF StepsOK
<1>6. ASSUME NEW c \in Control, WorkerStep(c) PROVE StepsOK'
  BY <1>6, <1>5 DEF WorkerStep, PopJob, PopWake, FinishJob, QuitJob, Leave, configVars
<1>7. CASE ThrottleReset \/ QueueJob \/ UNCHANGED vars
  BY <1>7, <1>5 DEF ThrottleReset, QueueJob, vars, configVars
<1>8. QED
  BY <1>1, <1>2, <1>3, <1>4, <1>6, <1>7 DEF Next
-----------------------------------------------------------------------------
(* Growing the pool.                                                         *)
LEMMA GrowStep ==
    ASSUME PoolInv, NEW n \in Size, n > numWorkers, Grow(n), numWorkers' = n
    PROVE  PoolInv'
<1> USE PoolAssumption DEF PoolInv, Size, Control, Id, NoControl
<1> DEFINE d == n - numWorkers
<1>1. /\ numWorkers \in Nat /\ started \in Nat /\ d \in Nat /\ started' = started + d
      /\ started' <= MaxControls /\ cancelled' = cancelled /\ lost' = lost
  BY DEF TypeOK, Grow
<1>2. \A i \in Id : workerControls'[i] = IF i \in numWorkers..(n - 1)
                                         THEN started + 1 + (i - numWorkers)
                                         ELSE workerControls[i]
  BY DEF Grow
<1>3. \A c \in Control : worker'[c] = IF c \in (started + 1)..(started + d)
                                      THEN [pc |-> "pop", id |-> numWorkers + (c - started - 1)]
                                      ELSE worker[c]
  BY DEF Grow
<1>4. TypeOK'
  <2>1. workerControls' \in [Id -> 0..started']
    BY <1>1 DEF Grow, TypeOK
  <2>2. worker' \in [Control -> [pc : {"unborn", "pop", "wait", "busy", "leave", "gone"}, id : Id]]
    BY <1>1 DEF Grow, TypeOK
  <2>3. QED
    BY <1>1, <2>1, <2>2 DEF TypeOK
<1>5. UnbornOK'
  <2> SUFFICES ASSUME NEW c \in Control, c > started'
               PROVE  worker'[c].pc = "unborn"
    BY DEF UnbornOK
  <2>1. c > started /\ c \notin (started + 1)..(started + d)
    BY <1>1
  <2>2. worker'[c] = worker[c]
    BY <1>3, <2>1
  <2>3. QED
    BY <2>1, <2>2 DEF UnbornOK
<1>6. RegisteredOwn'
  <2> SUFFICES ASSUME NEW i \in Id, workerControls'[i] # 0
               PROVE  worker'[workerControls'[i]].id = i
    BY DEF RegisteredOwn
  <2>1. CASE i \in numWorkers..(n - 1)
    <3> DEFINE c == started + 1 + (i - numWorkers)
    <3>1. workerControls'[i] = c /\ c \in Control /\ c \in (started + 1)..(started + d)
      BY <1>1, <1>2, <2>1
    <3>2. worker'[c] = [pc |-> "pop", id |-> numWorkers + (c - started - 1)]
      BY <1>3, <3>1
    <3>3. QED
      BY <1>1, <2>1, <3>1, <3>2
  <2>2. CASE i \notin numWorkers..(n - 1)
    <3>1. workerControls'[i] = workerControls[i] /\ workerControls[i] \in 1..started
      BY <1>2, <2>2 DEF TypeOK
    <3>2. /\ workerControls[i] \in Control
          /\ workerControls[i] \notin (started + 1)..(started + d)
      BY <1>1, <3>1
    <3>3. worker'[workerControls[i]] = worker[workerControls[i]]
      BY <1>3, <3>2
    <3>4. QED
      BY <3>1, <3>3 DEF RegisteredOwn
  <2>3. QED
    BY <2>1, <2>2
<1>7. LostBelow'
  BY <1>1 DEF LostBelow
<1>8. ASSUME NEW c \in Control, Live(c)'
      PROVE  /\ workerControls'[worker'[c].id] = c
             /\ worker'[c].id \in (0..(numWorkers' - 1)) \ lost'
  <2>1. CASE c \in (started + 1)..(started + d)
    <3> DEFINE i == numWorkers + (c - started - 1)
    <3>0. worker'[c] = [pc |-> "pop", id |-> i]
      BY <1>3, <2>1
    <3>1. i \in Id /\ i \in numWorkers..(n - 1)
      BY <1>1, <2>1
    <3>2. workerControls'[i] = started + 1 + (i - numWorkers)
      BY <1>2, <3>1
    <3>3. i \notin lost
      BY <1>1, <3>1 DEF LostBelow
    <3>4. QED
      BY <1>1, <3>0, <3>1, <3>2, <3>3
  <2>2. CASE c \notin (started + 1)..(started + d)
    <3>1. worker'[c] = worker[c] /\ Live(c)
      BY <1>1, <1>3, <1>8, <2>2 DEF Live
    <3>2. worker[c].id \in Id /\ workerControls[worker[c].id] = c
          /\ worker[c].id \in (0..(numWorkers - 1)) \ lost
      BY <3>1 DEF PoolExact, TypeOK
    <3>3. QED
      BY <1>1, <1>2, <3>1, <3>2
  <2>3. QED
    BY <2>1, <2>2
<1>9. ASSUME NEW i \in (0..(numWorkers' - 1)) \ lost'
      PROVE  \E c \in Control : Live(c)' /\ worker'[c].id = i
  <2>1. CASE i < numWorkers
    <3>1. PICK c \in Control : Live(c) /\ worker[c].id = i
      BY <1>1, <1>9, <2>1 DEF PoolExact
    <3>2. c <= started
      BY <1>1, <3>1 DEF Live, UnbornOK
    <3>3. c \notin (started + 1)..(started + d)
      BY <1>1, <3>2
    <3>4. worker'[c] = worker[c]
      BY <1>3, <3>3
    <3>5. QED
      BY <1>1, <3>1, <3>4 DEF Live
  <2>2. CASE i >= numWorkers
    <3>1. PICK c \in (started + 1)..(started + d) : c = started + 1 + (i - numWorkers)
      BY <1>1, <1>9, <2>2
    <3>2. c \in Control /\ c \notin cancelled
      BY <1>1, <3>1 DEF TypeOK
    <3>3. worker'[c] = [pc |-> "pop", id |-> i]
      BY <1>1, <1>3, <1>9, <2>2, <3>1, <3>2
    <3>4. QED
      BY <1>1, <3>2, <3>3 DEF Live
  <2>3. QED
    BY <1>1, <1>9, <2>1, <2>2
<1>10. PoolExact'
  BY <1>8, <1>9 DEF PoolExact
<1>11. QED
  BY <1>4, <1>5, <1>6, <1>7, <1>10

(* Shrinking it: exactly the workers with the highest ids are told.          *)
LEMMA ShrinkStep ==
    ASSUME PoolInv, NEW n \in Size, n <= numWorkers, Shrink(n), numWorkers' = n
    PROVE  PoolInv'
<1> USE PoolAssumption DEF PoolInv, Size, Control, Id, NoControl
<1> DEFINE told == {workerControls[i] : i \in n..(numWorkers - 1)} \ {0}
<1>1. /\ numWorkers \in Nat /\ started \in Nat /\ numWorkers <= MaxWorkers
      /\ started' = started /\ workerControls' = workerControls /\ worker' = worker
      /\ cancelled' = cancelled \union told /\ lost' = lost \intersect 0..(n - 1)
  BY DEF TypeOK, Shrink
<1>2. told \subseteq 1..started
  BY <1>1 DEF TypeOK
<1>3. TypeOK'
  BY <1>1, <1>2 DEF TypeOK
<1>4. UnbornOK' /\ RegisteredOwn' /\ LostBelow'
  BY <1>1 DEF UnbornOK, RegisteredOwn, LostBelow
<1>5. ASSUME NEW c \in Control, Live(c)'
      PROVE  /\ workerControls'[worker'[c].id] = c
             /\ worker'[c].id \in (0..(numWorkers' - 1)) \ lost'
  <2>1. Live(c) /\ c \notin told
    BY <1>1, <1>5 DEF Live
  <2>2. workerControls[worker[c].id] = c /\ worker[c].id \in (0..(numWorkers - 1)) \ lost
    BY <2>1 DEF PoolExact
  <2>3. worker[c].id \notin n..(numWorkers - 1)
    BY <2>1, <2>2
  <2>4. QED
    BY <1>1, <2>2, <2>3
<1>6. ASSUME NEW i \in (0..(numWorkers' - 1)) \ lost'
      PROVE  \E c \in Control : Live(c)' /\ worker'[c].id = i
  <2>1. i \in (0..(numWorkers - 1)) \ lost
    BY <1>1, <1>6
  <2>2. PICK c \in Control : Live(c) /\ worker[c].id = i
    BY <2>1 DEF PoolExact
  <2>3. c \notin told
    <3> SUFFICES ASSUME NEW j \in n..(numWorkers - 1), workerControls[j] = c
                 PROVE  FALSE
      OBVIOUS
    <3>1. j \in Id /\ c # 0
      BY <1>1
    <3>2. worker[c].id = j
      BY <3>1 DEF RegisteredOwn
    <3>3. QED
      BY <1>1, <1>6, <2>2, <3>2
  <2>4. QED
    BY <1>1, <2>2, <2>3 DEF Live
<1>7. PoolExact'
  BY <1>5, <1>6 DEF PoolExact
<1>8. QED
  BY <1>3, <1>4, <1>7

(* What one worker does between two resizes.                                 *)
LEMMA WorkerKeepsPool ==
    ASSUME PoolInv, NEW c \in Control, WorkerStep(c)
    PROVE  PoolInv'
<1> USE PoolAssumption DEF PoolInv, Control, Id, NoControl
<1>1. CASE PopJob(c) \/ FinishJob(c) \/ (PopWake(c) /\ worker'[c].pc = "pop")
  <2>1. /\ UNCHANGED <<numWorkers, workerControls, cancelled, started, lost>>
        /\ worker[c].pc \in {"pop", "wait", "busy"}
        /\ \E label \in {"pop", "wait", "busy"} : Goto(c, label)
    BY <1>1 DEF PopJob, FinishJob, PopWake, Goto, TypeOK
  <2>2. PICK label \in {"pop", "wait", "busy"} : worker' = [worker EXCEPT ![c].pc = label]
    BY <2>1 DEF Goto
  <2>3. \A b \in Control : worker'[b].id = worker[b].id /\ (Live(b)' <=> Live(b))
    BY <2>1, <2>2 DEF Live, TypeOK
  <2>4. TypeOK'
    BY <2>1, <2>2 DEF TypeOK
  <2>5. UnbornOK'
    BY <2>1, <2>2 DEF UnbornOK, TypeOK
  <2>6. RegisteredOwn' /\ LostBelow'
    <3>1. \A i \in Id : workerControls[i] # 0 => workerControls[i] \in Control
      BY DEF TypeOK
    <3>2. QED
      BY <2>1, <2>3, <3>1 DEF RegisteredOwn, LostBelow
  <2>7. PoolExact'
    BY <2>1, <2>3 DEF PoolExact
  <2>8. QED
    BY <2>4, <2>5, <2>6, <2>7
<1>2. CASE QuitJob(c) \/ (PopWake(c) /\ worker'[c].pc = "leave")
  <2>1. /\ UNCHANGED <<numWorkers, workerControls, started>>
        /\ worker[c].pc \in {"wait", "busy"}
        /\ worker' = [worker EXCEPT ![c].pc = "leave"]
        /\ cancelled' = cancelled \union {c}
        /\ lost' = IF c \in cancelled THEN lost ELSE lost \union {worker[c].id}
    BY <1>2 DEF QuitJob, PopWake, Goto, TypeOK
  <2>2. c \in 1..started
    <3>1. ~(c > started)
      BY <2>1 DEF UnbornOK
    <3>2. started \in Nat /\ c \in Nat /\ c >= 1
      BY DEF TypeOK
    <3>3. QED
      BY <3>1, <3>2
  <2>3. \A b \in Control : worker'[b].id = worker[b].id /\ (Live(b)' <=> Live(b) /\ b # c)
    BY <2>1 DEF Live, TypeOK
  <2>4. Live(c) <=> c \notin cancelled
    BY <2>1 DEF Live
  <2>5. TypeOK'
    BY <2>1, <2>2 DEF TypeOK
  <2>6. UnbornOK'
    BY <2>1, <2>2 DEF UnbornOK, TypeOK
  <2>7. RegisteredOwn'
    BY <2>1, <2>3 DEF RegisteredOwn, TypeOK
  <2>8. LostBelow'
    BY <2>1, <2>4 DEF LostBelow, PoolExact
  <2>9. PoolExact'
    <3>1. ASSUME NEW b \in Control, Live(b)'
          PROVE  /\ workerControls[worker[b].id] = b
                 /\ worker[b].id \in (0..(numWorkers - 1)) \ lost'
      <4>1. Live(b) /\ b # c
        BY <2>3, <3>1
      <4>2. workerControls[worker[b].id] = b /\ worker[b].id \in (0..(numWorkers - 1)) \ lost
        BY <4>1 DEF PoolExact
      <4>3. c \notin cancelled => worker[b].id # worker[c].id
        BY <2>4, <4>1, <4>2 DEF PoolExact
      <4>4. QED
        BY <2>1, <4>2, <4>3
    <3>2. ASSUME NEW i \in (0..(numWorkers - 1)) \ lost'
          PROVE  \E b \in Control : Live(b)' /\ worker[b].id = i
      <4>1. PICK b \in Control : Live(b) /\ worker[b].id = i
        BY <2>1, <3>2 DEF PoolExact
      <4>2. b # c
        BY <2>1, <2>4, <3>2, <4>1
      <4>3. QED
        BY <2>3, <4>1, <4>2
    <3>3. QED
      BY <2>1, <2>3, <3>1, <3>2 DEF PoolExact
  <2>10. QED
    BY <2>5, <2>6, <2>7, <2>8, <2>9
<1>3. CASE Leave(c)
  <2> DEFINE id == worker[c].id
  <2>1. /\ UNCHANGED <<numWorkers, cancelled, started, lost>>
        /\ worker[c].pc = "leave" /\ worker' = [worker EXCEPT ![c].pc = "gone"]
        /\ id \in Id
    BY <1>3 DEF Leave, Goto, TypeOK
  <2>2. \A i \in Id : workerControls'[i] = workerControls[i]
                       \/ (i = id /\ workerControls[i] = c /\ workerControls'[i] = 0)
    BY <1>3, <2>1 DEF Leave, TypeOK
  <2>3. \A b \in Control : worker'[b].id = worker[b].id /\ (Live(b)' <=> Live(b))
    BY <2>1 DEF Live, TypeOK
  <2>4. ~Live(c)
    BY <2>1 DEF Live
  <2>5. TypeOK'
    <3>1. workerControls' \in [Id -> 0..started']
      BY <1>3, <2>1 DEF Leave, TypeOK
    <3>2. QED
      BY <2>1, <3>1 DEF TypeOK
  <2>6. UnbornOK'
    BY <2>1 DEF UnbornOK, TypeOK
  <2>7. RegisteredOwn'
    <3> SUFFICES ASSUME NEW i \in Id, workerControls'[i] # NoControl
                 PROVE  worker'[workerControls'[i]].id = i
      BY DEF RegisteredOwn
    <3>1. workerControls'[i] = workerControls[i]
      BY <2>2
    <3>2. workerControls[i] \in Control
      <4>1. workerControls[i] \in 0..started /\ started \in 0..MaxControls
        BY DEF TypeOK
      <4> QED BY <3>1, <4>1
    <3>3. worker[workerControls[i]].id = i
      BY <3>1 DEF RegisteredOwn
    <3>4. QED
      BY <2>3, <3>1, <3>2, <3>3
  <2>8. LostBelow'
    BY <2>1 DEF LostBelow
  <2>9. PoolExact'
    <3>1. ASSUME NEW b \in Control, Live(b)'
          PROVE  /\ workerControls'[worker[b].id] = b
                 /\ worker[b].id \in (0..(numWorkers - 1)) \ lost
      <4>1. Live(b) /\ b # c
        BY <2>3, <2>4, <3>1
      <4>2. /\ workerControls[worker[b].id] = b /\ worker[b].id \in Id
            /\ worker[b].id \in (0..(numWorkers - 1)) \ lost
        BY <4>1 DEF PoolExact, TypeOK
      <4>3. QED
        BY <2>2, <4>1, <4>2
    <3>2. QED
      BY <2>1, <2>3, <3>1 DEF PoolExact
  <2>10. QED
    BY <2>5, <2>6, <2>7, <2>8, <2>9
<1>4. PopWake(c) => worker'[c].pc \in {"pop", "leave"}
  BY DEF PopWake, Goto, TypeOK
<1>5. QED
  BY <1>1, <1>2, <1>3, <1>4 DEF WorkerStep
-----------------------------------------------------------------------------
LEMMA PoolStep == IInv /\ [Next]_vars => PoolInv'
<1> SUFFICES ASSUME IInv, [Next]_vars PROVE PoolInv'
  OBVIOUS
<1>0. PoolInv /\ StepsOK
  BY DEF IInv
<1>1. CASE UNCHANGED poolVars
  BY <1>0, <1>1 DEF PoolInv, TypeOK, UnbornOK, RegisteredOwn, LostBelow, PoolExact, Live, poolVars
<1>2. ASSUME NEW t \in Goroutines, Resize(t) PROVE PoolInv'
  <2> DEFINE n == Head(todo[t]).value
  <2>1. ~Idle(t) /\ Advance(t) /\ Head(todo[t]).op = "resize"
    BY <1>2 DEF Resize, At
  <2>2. n \in Size
    BY <1>0, <2>1, AdvanceSteps, SizeOfStep
  <2>3. numWorkers' = n /\ IF n > numWorkers THEN Grow(n) ELSE Shrink(n)
    BY <1>2 DEF Resize
  <2>4. CASE n > numWorkers
    BY <1>0, <2>2, <2>3, <2>4, GrowStep
  <2>5. CASE ~(n > numWorkers)
    <3>1. n <= numWorkers
      BY <1>0, <2>2, <2>5, PoolAssumption DEF PoolInv, TypeOK, Size
    <3>2. QED
      BY <1>0, <2>2, <2>3, <2>5, <3>1, ShrinkStep
  <2>6. QED
    BY <2>4, <2>5
<1>3. ASSUME NEW c \in Control, WorkerStep(c) PROVE PoolInv'
  BY <1>0, <1>3, WorkerKeepsPool
<1>4. QED
  BY <1>1, <1>2, <1>3
  DEF Next, CallStep, UserCalls, autoThrottleCheck, Rebuild, ThrottleReset, QueueJob, vars

(* The inductive invariant holds of every behaviour of the pool.             *)
THEOREM PoolInvariant == Safety => []IInv
<1>1. Init => IInv
  <2> SUFFICES ASSUME Init PROVE IInv
    OBVIOUS
  <2> USE PoolAssumption DEF Init, ConfigInit, Control, Id, NoControl
  <2>1. StepsOK
    BY DEF StepsOK, Size
  <2>2. TypeOK
    BY DEF TypeOK, Unborn
  <2>3. UnbornOK /\ LostBelow
    BY DEF UnbornOK, LostBelow, Unborn
  <2>4. RegisteredOwn
    BY DEF RegisteredOwn
  <2>5. ASSUME NEW c \in Control
        PROVE  Live(c) <=> c <= StartWorkers
    BY DEF Live, Unborn
  <2>6. ASSUME NEW i \in (0..(numWorkers - 1)) \ lost
        PROVE  i + 1 \in Control /\ Live(i + 1) /\ worker[i + 1].id = i
    BY <2>5, <2>6
  <2>7. ASSUME NEW c \in Control, Live(c)
        PROVE  /\ workerControls[worker[c].id] = c
               /\ worker[c].id \in (0..(numWorkers - 1)) \ lost
    <3>1. c <= StartWorkers
      BY <2>5, <2>7
    <3>2. worker[c].id = c - 1 /\ c - 1 \in Id
      BY <3>1
    <3>3. QED
      BY <3>1, <3>2
  <2>8. PoolExact
    BY <2>6, <2>7 DEF PoolExact
  <2>9. QED
    BY <2>1, <2>2, <2>3, <2>4, <2>8 DEF IInv, PoolInv
<1>2. IInv /\ [Next]_vars => IInv'
  BY StepsStep, PoolStep DEF IInv, PoolInv
<1>3. QED
  BY <1>1, <1>2, PTL DEF Safety

(* No size below MinWorkerCount, and workerControls, the live workers and    *)
(* numWorkers always agree.                                                  *)
THEOREM PoolIsSound == Safety => []PoolSound
<1>1. IInv => PoolSound
  BY DEF IInv, PoolInv, PoolSound
<1>2. QED
  BY PoolInvariant, <1>1, PTL
=============================================================================

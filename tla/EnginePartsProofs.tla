-------------------------- MODULE EnginePartsProofs --------------------------
(* Four parts of the engine that lose or repeat work when a step of theirs   *)
(* is misplaced: the hidden-parameter pool for any targets, parameters, scan *)
(* workers, fuzzers and capacity; the resume files for a wordlist of any     *)
(* length and any number of interruptions; the way of a result to the output *)
(* file for any results, log events and channel capacities; the discovery    *)
(* graph for any paths, workers, responses and number of nodes.              *)
EXTENDS ParamPool, Resume, ResultPipeline, DiscoveryGraph, FiniteSetTheorems, SequenceTheorems,
        TLAPS

-----------------------------------------------------------------------------
(* The hidden-parameter pool: its count of tasks is exact, and when Wait      *)
(* returns every hit of a task that was queued has been published, once.     *)
PoolSafety == PoolInit /\ [][PoolNext]_poolVars

-----------------------------------------------------------------------------
(* A goroutine between the reservation of a key and its outcome claims the   *)
(* task; what is seen and not claimed was admitted to the channel.           *)
Claiming(g) == pc[g] \in {"send", "rollback"}
Claimed == {task[g] : g \in {x \in Goroutines : Claiming(x)}}
Admitted == seen \ Claimed
Waiting == {tasks[i] : i \in DOMAIN tasks}

(* The hits a fuzzer has in its hands, and all that were ever found.         *)
Handling(f) == pc[f] \in {"range", "seen", "send", "rollback", "mark"}
InHand(f) == hits[f] \union {h \in Hit : h = hit[f] /\ Handling(f)}
AllHits == hitSeen \union UNION {InHand(f) : f \in Fuzzers}

Busy == {f \in Fuzzers : pc[f] \notin {"idle", "gone"}}

RolesOK ==
    /\ \A w \in Reporters : pc[w] \in {"idle", "remember", "seen", "send", "rollback"} /\ todo[w] = {}
    /\ \A f \in Fuzzers :
          /\ pc[f] # "remember"
          /\ pc[f] \in {"idle", "gone", "fuzz"} => hits[f] = {}
          /\ pc[f] \notin {"seen", "send", "rollback"} => todo[f] = {}
          /\ pc[f] = "gone" => closed

CallerOK ==
    /\ cancelled <=> caller \in {"stopping", "closing", "stopped"}
    /\ closed => caller \in {"closing", "stopped"}
    /\ caller \in {"waiting", "waited"} => reports = 0 /\ ReportersIdle
    /\ caller = "waited" => pending = 0

PublishedOK == \A h \in Hit : published[h] = IF h \in hitSeen THEN 1 ELSE 0

ClaimsOK ==
    /\ \A g \in Goroutines : Claiming(g) => task[g] \in seen
    /\ \A g, x \in Goroutines : Claiming(g) /\ Claiming(x) /\ task[g] = task[x] => g = x
    /\ Waiting \subseteq Admitted
    /\ \A f \in Fuzzers : pc[f] = "fuzz" => task[f] \in Admitted

(* Nothing is published that no admitted task found,                         *)
OriginOK == \A h \in AllHits : \E k \in Admitted : h \in Found(k)

(* and what an admitted task finds is out, in hand or still to be found.     *)
CoverOK ==
    ~cancelled => \A k \in Admitted : \/ k \in Waiting
                                      \/ \E f \in Fuzzers : pc[f] = "fuzz" /\ task[f] = k
                                      \/ Found(k) \subseteq AllHits

Plain == ParamTypeOK /\ RolesOK /\ CallerOK /\ PublishedOK
IInv == Plain /\ ParamAccounting /\ ClaimsOK /\ OriginOK /\ CoverOK

-----------------------------------------------------------------------------
Labels == {"idle", "remember", "seen", "send", "rollback", "fuzz", "hits", "range", "mark", "gone"}

(* What a step of goroutine g leaves alone, and the types of what it sets.   *)
Frame(g) ==
    /\ pc' \in [Goroutines -> Labels] /\ task' \in [Goroutines -> Task]
    /\ todo' \in [Goroutines -> SUBSET Task]
    /\ \A x \in Goroutines \ {g} : pc'[x] = pc[x] /\ task'[x] = task[x] /\ todo'[x] = todo[x]

LEMMA Typed ==
  /\ SomeTask \in Task /\ SomeHit \in Hit
  /\ \A k \in Task : k.target \in Targets /\ k.hints \in SUBSET Params /\ Found(k) \subseteq Hit
<1>1. PICK t \in Targets, p \in Params : TRUE
  BY ParamAssumption
<1>2. [target |-> t, hints |-> {}] \in Task /\ <<t, p>> \in Hit
  BY DEF Task, Hit
<1>3. SomeTask \in Task /\ SomeHit \in Hit
  BY <1>2 DEF SomeTask, SomeHit
<1>4. ASSUME NEW k \in Task
      PROVE  k.target \in Targets /\ k.hints \in SUBSET Params /\ Found(k) \subseteq Hit
  <2>1. k.target \in Targets /\ k.hints \in SUBSET Params
    BY DEF Task
  <2>2. Exists[k.target] \subseteq Params
    BY <2>1, ParamAssumption
  <2>3. QED
    BY <2>1, <2>2 DEF Found, Hit
<1>5. QED
  BY <1>3, <1>4

LEMMA IInvInit == PoolInit => IInv
<1> SUFFICES ASSUME PoolInit PROVE IInv
  OBVIOUS
<1>1. /\ \A g \in Goroutines : pc[g] = "idle" /\ todo[g] = {}
      /\ \A f \in Fuzzers : pc[f] = "idle" /\ todo[f] = {} /\ hits[f] = {}
  BY DEF PoolInit, Goroutines
<1>2. ParamTypeOK
  <2>1. published \in [Hit -> Nat] /\ hits \in [Fuzzers -> SUBSET Hit] /\ todo \in [Goroutines -> SUBSET Task]
    BY DEF PoolInit
  <2>2. task \in [Goroutines -> Task] /\ hit \in [Fuzzers -> Hit]
    BY Typed DEF PoolInit
  <2>3. pc \in [Goroutines -> Labels] /\ tasks \in Seq(Task) /\ reports \in 0..MaxReports
    BY ParamAssumption DEF PoolInit, Labels
  <2>4. QED
    BY <2>1, <2>2, <2>3 DEF PoolInit, ParamTypeOK, Labels
<1>3. RolesOK
  BY <1>1 DEF RolesOK, Goroutines
<1>4. CallerOK /\ PublishedOK
  BY DEF PoolInit, CallerOK, PublishedOK
<1>5. ParamAccounting
  <2>1. Busy = {}
    BY <1>1 DEF Busy
  <2>2. Cardinality(Busy) = 0
    BY <2>1, FS_EmptySet
  <2>3. Len(tasks) = 0 /\ pending = 0
    BY DEF PoolInit
  <2>4. QED
    BY <2>2, <2>3 DEF ParamAccounting, Busy
<1>6. seen = {} /\ Waiting = {}
  BY DEF PoolInit, Waiting
<1>7. ClaimsOK
  BY <1>1, <1>6 DEF ClaimsOK, Claiming
<1>8. AllHits = {} /\ Admitted = {}
  <2>1. hitSeen = {} /\ \A f \in Fuzzers : InHand(f) = {}
    BY <1>1 DEF PoolInit, InHand, Handling
  <2>2. QED
    BY <1>6, <2>1 DEF AllHits, Admitted
<1>9. QED
  BY <1>2, <1>3, <1>4, <1>5, <1>7, <1>8 DEF IInv, Plain, OriginOK, CoverOK

-----------------------------------------------------------------------------
(* A scan worker that has enqueued is idle again, a fuzzer goes on with its  *)
(* next target or its hit.                                                   *)
LEMMA AfterEnqueueMoves ==
  ASSUME ParamTypeOK, RolesOK, NEW g \in Goroutines, pc[g] \in {"seen", "send", "rollback"},
         AfterEnqueue(g)
  PROVE  /\ Frame(g)
         /\ g \in Fuzzers => pc'[g] \in {"seen", "mark"}
         /\ g \notin Fuzzers => pc'[g] = "idle" /\ todo'[g] = {}
         /\ pc'[g] # "seen" => todo'[g] = {}
<1>1. pc \in [Goroutines -> Labels] /\ task \in [Goroutines -> Task] /\ todo \in [Goroutines -> SUBSET Task]
  BY DEF ParamTypeOK, Labels
<1>2. g \notin Fuzzers => todo[g] = {}
  BY DEF RolesOK, Goroutines
<1>3. CASE todo[g] = {}
  <2>1. pc' = [pc EXCEPT ![g] = IF g \in Fuzzers THEN "mark" ELSE "idle"] /\ task' = task /\ todo' = todo
    BY <1>3 DEF AfterEnqueue, Goto
  <2>2. QED
    BY <1>1, <1>3, <2>1 DEF Frame, Labels
<1>4. CASE todo[g] # {}
  <2>1. PICK k \in todo[g] : /\ task' = [task EXCEPT ![g] = k] /\ todo' = [todo EXCEPT ![g] = @ \ {k}]
                             /\ pc' = [pc EXCEPT ![g] = "seen"]
    BY <1>4 DEF AfterEnqueue, Goto
  <2>2. k \in Task /\ todo[g] \ {k} \in SUBSET Task
    BY <1>1
  <2>3. QED
    BY <1>1, <1>2, <1>4, <2>1, <2>2 DEF Frame, Labels
<1>5. QED
  BY <1>3, <1>4

(* Every other step moves its goroutine to a place that is known.            *)
LEMMA Goes ==
  ASSUME ParamTypeOK, NEW g \in Goroutines, NEW l \in Labels, Goto(g, l), UNCHANGED <<task, todo>>
  PROVE  Frame(g) /\ pc'[g] = l /\ todo'[g] = todo[g] /\ task'[g] = task[g]
BY DEF ParamTypeOK, Labels, Goto, Frame

LEMMA Takes ==
  ASSUME ParamTypeOK, NEW g \in Goroutines, NEW l \in Labels, NEW k \in Task,
         Goto(g, l), task' = [task EXCEPT ![g] = k], todo' = todo
  PROVE  Frame(g) /\ pc'[g] = l /\ todo'[g] = todo[g] /\ task'[g] = k
BY DEF ParamTypeOK, Labels, Goto, Frame

-----------------------------------------------------------------------------
LEMMA BusySame ==
  ASSUME NEW g \in Goroutines, Frame(g),
         g \in Fuzzers => (pc'[g] \in {"idle", "gone"} <=> pc[g] \in {"idle", "gone"})
  PROVE  Busy' = Busy
BY DEF Busy, Frame, Goroutines

LEMMA BusyFinite == IsFiniteSet(Busy) /\ Cardinality(Busy) \in Nat
<1>1. Busy \subseteq Fuzzers /\ IsFiniteSet(Fuzzers)
  BY ParamAssumption DEF Busy
<1>2. IsFiniteSet(Busy)
  BY <1>1, FS_Subset
<1>3. QED
  BY <1>2, FS_CardinalityType

LEMMA AccountingAlt == ParamAccounting <=> pending = Len(tasks) + Cardinality(Busy)
BY DEF ParamAccounting, Busy

LEMMA AccountingAltNext == ParamAccounting' <=> pending' = Len(tasks') + Cardinality(Busy')
BY DEF ParamAccounting, Busy

-----------------------------------------------------------------------------
(* A goroutine that claims nothing before and after its step changes nothing *)
(* about claims, as long as the keys and the channel stay.                   *)
LEMMA AdmittedSame ==
  ASSUME NEW g \in Goroutines, Frame(g), ~Claiming(g), ~Claiming(g)', seen' = seen
  PROVE  Admitted' = Admitted
<1>1. \A x \in Goroutines : Claiming(x)' = Claiming(x) /\ (Claiming(x) => task'[x] = task[x])
  BY DEF Frame, Claiming
<1>2. Claimed' = Claimed
  BY <1>1 DEF Claimed
<1>3. QED
  BY <1>2 DEF Admitted

LEMMA HitsSame ==
  ASSUME NEW g \in Goroutines, Frame(g), UNCHANGED <<hitSeen, hits, hit>>,
         g \in Fuzzers => Handling(g)' = Handling(g)
  PROVE  AllHits' = AllHits
<1>1. \A f \in Fuzzers : Handling(f)' = Handling(f)
  BY DEF Frame, Handling, Goroutines
<1>2. \A f \in Fuzzers : InHand(f)' = InHand(f)
  BY <1>1 DEF InHand
<1>3. QED
  BY <1>2 DEF AllHits

LEMMA QuietData ==
  ASSUME ClaimsOK, OriginOK, CoverOK, NEW g \in Goroutines, Frame(g),
         ~Claiming(g), ~Claiming(g)', pc[g] # "fuzz", pc'[g] # "fuzz",
         UNCHANGED <<seen, tasks, cancelled>>, AllHits' = AllHits
  PROVE  ClaimsOK' /\ OriginOK' /\ CoverOK'
<1>1. Admitted' = Admitted /\ Waiting' = Waiting
  BY AdmittedSame DEF Waiting
<1>2. \A x \in Goroutines : Claiming(x)' = Claiming(x) /\ (Claiming(x) => task'[x] = task[x])
  BY DEF Frame, Claiming
<1>3. \A f \in Fuzzers : (pc'[f] = "fuzz") = (pc[f] = "fuzz") /\ (pc[f] = "fuzz" => task'[f] = task[f])
  BY DEF Frame, Goroutines
<1>4. ClaimsOK'
  BY <1>1, <1>2, <1>3 DEF ClaimsOK
<1>5. OriginOK'
  BY <1>1 DEF OriginOK, Found
<1>6. CoverOK'
  BY <1>1, <1>3 DEF CoverOK, Found
<1>7. QED
  BY <1>4, <1>5, <1>6

-----------------------------------------------------------------------------
LEMMA RolesStep ==
  ASSUME RolesOK, NEW g \in Goroutines, Frame(g), closed' = closed,
         \A f \in Fuzzers \ {g} : hits'[f] = hits[f],
         g \in Reporters => /\ pc'[g] \in {"idle", "remember", "seen", "send", "rollback"}
                            /\ todo'[g] = {},
         g \in Fuzzers => /\ pc'[g] # "remember"
                          /\ pc'[g] \in {"idle", "gone", "fuzz"} => hits'[g] = {}
                          /\ pc'[g] \notin {"seen", "send", "rollback"} => todo'[g] = {}
                          /\ pc'[g] = "gone" => closed
  PROVE  RolesOK'
<1>1. ASSUME NEW w \in Reporters
      PROVE  pc'[w] \in {"idle", "remember", "seen", "send", "rollback"} /\ todo'[w] = {}
  <2>1. CASE w = g
    BY <2>1
  <2>2. CASE w # g
    BY <2>2 DEF RolesOK, Frame, Goroutines
  <2>3. QED
    BY <2>1, <2>2
<1>2. ASSUME NEW f \in Fuzzers
      PROVE  /\ pc'[f] # "remember"
             /\ pc'[f] \in {"idle", "gone", "fuzz"} => hits'[f] = {}
             /\ pc'[f] \notin {"seen", "send", "rollback"} => todo'[f] = {}
             /\ pc'[f] = "gone" => closed'
  <2>1. CASE f = g
    BY <2>1
  <2>2. CASE f # g
    BY <2>2 DEF RolesOK, Frame, Goroutines
  <2>3. QED
    BY <2>1, <2>2
<1>3. QED
  BY <1>1, <1>2 DEF RolesOK

(* While Wait waits for the tasks the scan workers stay idle, and what a     *)
(* fuzzer does keeps the count above zero.                                   *)
LEMMA CallerStep ==
  ASSUME CallerOK, NEW g \in Goroutines, Frame(g), UNCHANGED <<closed, cancelled, caller>>,
         g \in Reporters => caller \notin {"waiting", "waited"},
         caller \in {"waiting", "waited"} => reports' = reports,
         caller = "waited" => pending' = 0
  PROVE  CallerOK'
<1>1. CASE caller \in {"waiting", "waited"}
  <2>1. \A w \in Reporters : pc'[w] = "idle"
    BY <1>1 DEF CallerOK, ReportersIdle, Frame, Goroutines
  <2>2. QED
    BY <1>1, <2>1 DEF CallerOK, ReportersIdle
<1>2. CASE caller \notin {"waiting", "waited"}
  BY <1>2 DEF CallerOK
<1>3. QED
  BY <1>1, <1>2

LEMMA ReporterFree ==
  ASSUME CallerOK, NEW w \in Reporters, pc[w] # "idle" \/ reports # 0
  PROVE  caller \notin {"waiting", "waited"}
BY DEF CallerOK, ReportersIdle

LEMMA BusyCounts ==
  ASSUME ParamTypeOK, ParamAccounting, NEW f \in Fuzzers, pc[f] \notin {"idle", "gone"}
  PROVE  pending \in Nat /\ pending >= Len(tasks) + 1
<1>1. f \in Busy /\ IsFiniteSet(Busy) /\ Cardinality(Busy) \in Nat
  BY BusyFinite DEF Busy
<1>2. Cardinality(Busy) # 0
  BY <1>1, FS_EmptySet
<1>3. pending = Len(tasks) + Cardinality(Busy) /\ Len(tasks) \in Nat /\ pending \in Nat
  BY AccountingAlt DEF ParamTypeOK
<1>4. QED
  BY <1>1, <1>2, <1>3

-----------------------------------------------------------------------------
LEMMA QueueStep ==
  ASSUME IInv, NEW w \in Reporters, queueParamFuzzFromResult(w) PROVE IInv'
<1>1. ParamTypeOK /\ RolesOK /\ CallerOK /\ PublishedOK /\ ParamAccounting /\ ClaimsOK /\ OriginOK /\ CoverOK
  BY DEF IInv, Plain
<1>2. w \in Goroutines /\ w \notin Fuzzers
  BY ParamAssumption DEF Goroutines
<1>3. /\ pc[w] = "idle" /\ reports > 0 /\ reports' = reports - 1
      /\ UNCHANGED <<chanVars, learnVars, todo, hitVars, cancelled, caller, panicked>>
  BY DEF queueParamFuzzFromResult, At
<1>4. Frame(w) /\ pc'[w] \in {"idle", "remember", "seen"} /\ todo'[w] = todo[w]
  <2>1. \/ UNCHANGED <<task, pc>>
        \/ \E t \in Targets, own \in Own, l \in {"remember", "seen"} :
              /\ task' = [task EXCEPT ![w] = [target |-> t,
                                             hints |-> own \union (IF t \in PHP THEN hints ELSE {})]]
              /\ Goto(w, l)
    BY DEF queueParamFuzzFromResult
  <2>2. \A t \in Targets, own \in Own :
          [target |-> t, hints |-> own \union (IF t \in PHP THEN hints ELSE {})] \in Task
    BY <1>1, ParamAssumption DEF Task, ParamTypeOK
  <2>3. todo' = todo
    BY <1>3
  <2>4. CASE UNCHANGED <<task, pc>>
    BY <1>1, <1>2, <1>3, <2>3, <2>4 DEF ParamTypeOK, Frame, Labels
  <2>5. CASE ~UNCHANGED <<task, pc>>
    <3>1. \E k \in Task, l \in {"remember", "seen"} : task' = [task EXCEPT ![w] = k] /\ Goto(w, l)
      BY <2>1, <2>2, <2>5
    <3>2. PICK k \in Task, l \in {"remember", "seen"} : task' = [task EXCEPT ![w] = k] /\ Goto(w, l)
      BY <3>1
    <3>3. l \in Labels
      BY DEF Labels
    <3>4. QED
      BY <1>1, <1>2, <2>3, <3>2, <3>3, Takes
  <2>6. QED
    BY <2>4, <2>5
<1>5. ParamTypeOK'
  <2>1. reports' \in 0..MaxReports
    BY <1>1, <1>3, ParamAssumption DEF ParamTypeOK
  <2>2. QED
    BY <1>1, <1>3, <1>4, <2>1 DEF ParamTypeOK, Frame, Labels, chanVars, learnVars, hitVars
<1>6. RolesOK' /\ PublishedOK'
  <2>1. RolesOK'
    BY <1>1, <1>2, <1>3, <1>4, RolesStep DEF chanVars, hitVars, RolesOK
  <2>2. QED
    BY <1>1, <1>3, <2>1 DEF PublishedOK, learnVars
<1>7. CallerOK'
  <2>1. caller \notin {"waiting", "waited"}
    BY <1>1, <1>3, ReporterFree
  <2>2. QED
    BY <1>1, <1>2, <1>3, <1>4, <2>1, CallerStep DEF chanVars
<1>8. ParamAccounting'
  BY <1>1, <1>2, <1>3, <1>4, BusySame, AccountingAlt, AccountingAltNext DEF chanVars
<1>9. AllHits' = AllHits
  BY <1>2, <1>3, <1>4, HitsSame DEF learnVars, hitVars
<1>10. ClaimsOK' /\ OriginOK' /\ CoverOK'
  BY <1>1, <1>2, <1>3, <1>4, <1>9, QuietData DEF Claiming, chanVars
<1>11. QED
  BY <1>5, <1>6, <1>7, <1>8, <1>10 DEF IInv, Plain

LEMMA RememberStep ==
  ASSUME IInv, NEW w \in Reporters, rememberPHPParamTarget(w) PROVE IInv'
<1>1. ParamTypeOK /\ RolesOK /\ CallerOK /\ PublishedOK /\ ParamAccounting /\ ClaimsOK /\ OriginOK /\ CoverOK
  BY DEF IInv, Plain
<1>2. w \in Goroutines /\ w \notin Fuzzers
  BY ParamAssumption DEF Goroutines
<1>3. /\ pc[w] = "remember" /\ known' = {k \in known : k.target # task[w].target} \union {task[w]}
      /\ Goto(w, "seen")
      /\ UNCHANGED <<chanVars, hints, hitSeen, published, task, todo, hitVars, callVars, panicked>>
  BY DEF rememberPHPParamTarget, At
<1>4. Frame(w) /\ pc'[w] = "seen" /\ todo'[w] = todo[w]
  BY <1>1, <1>2, <1>3, Goes DEF Labels
<1>5. ParamTypeOK'
  <2>1. task[w] \in Task
    BY <1>1, <1>2 DEF ParamTypeOK
  <2>2. known' \subseteq Task
    BY <1>1, <1>3, <2>1 DEF ParamTypeOK
  <2>3. QED
    BY <1>1, <1>3, <1>4, <2>2 DEF ParamTypeOK, Frame, Labels, chanVars, callVars, hitVars
<1>6. RolesOK' /\ PublishedOK'
  <2>1. RolesOK'
    BY <1>1, <1>2, <1>3, <1>4, RolesStep DEF chanVars, hitVars, RolesOK
  <2>2. QED
    BY <1>1, <1>3, <2>1 DEF PublishedOK
<1>7. CallerOK'
  <2>1. caller \notin {"waiting", "waited"}
    BY <1>1, <1>3, ReporterFree
  <2>2. QED
    BY <1>1, <1>2, <1>3, <1>4, <2>1, CallerStep DEF chanVars, callVars
<1>8. ParamAccounting'
  BY <1>1, <1>2, <1>3, <1>4, BusySame, AccountingAlt, AccountingAltNext DEF chanVars
<1>9. AllHits' = AllHits
  BY <1>2, <1>3, <1>4, HitsSame DEF hitVars
<1>10. ClaimsOK' /\ OriginOK' /\ CoverOK'
  BY <1>1, <1>2, <1>3, <1>4, <1>9, QuietData DEF Claiming, chanVars, callVars
<1>11. QED
  BY <1>5, <1>6, <1>7, <1>8, <1>10 DEF IInv, Plain

-----------------------------------------------------------------------------
(* A step of a fuzzer between its task and its last hit keeps it busy.       *)
LEMMA FuzzerCaller ==
  ASSUME IInv, NEW f \in Fuzzers, f \in Goroutines, Frame(f), pc[f] \notin {"idle", "gone"},
         UNCHANGED <<closed, cancelled, caller, reports>>
  PROVE  CallerOK'
<1>1. pending > 0
  <2>1. pending \in Nat /\ pending >= Len(tasks) + 1 /\ Len(tasks) \in Nat
    BY BusyCounts DEF IInv, Plain, ParamTypeOK
  <2>2. QED
    BY <2>1
<1>2. caller # "waited" /\ f \notin Reporters
  BY <1>1, ParamAssumption DEF IInv, Plain, CallerOK
<1>3. QED
  BY <1>2, CallerStep DEF IInv, Plain

LEMMA RangeStep ==
  ASSUME IInv, NEW f \in Fuzzers, queueKnownPHPTargetsForParams(f) PROVE IInv'
<1>1. ParamTypeOK /\ RolesOK /\ CallerOK /\ PublishedOK /\ ParamAccounting /\ ClaimsOK /\ OriginOK /\ CoverOK
  BY DEF IInv, Plain
<1>2. f \in Goroutines /\ f \notin Reporters
  BY ParamAssumption DEF Goroutines
<1>3. pc[f] = "range" /\ UNCHANGED <<chanVars, learnVars, hitVars, callVars, panicked>>
  BY DEF queueKnownPHPTargetsForParams, At
<1>4. Frame(f) /\ pc'[f] \in {"mark", "seen"} /\ (pc'[f] = "mark" => todo'[f] = {})
  <2> DEFINE learned == {[k EXCEPT !.hints = @ \union {hit[f][2]}] : k \in known}
  <2>1. learned \subseteq Task
    <3>1. hit[f][2] \in Params /\ known \subseteq Task
      BY <1>1 DEF ParamTypeOK, Hit
    <3>2. \A k \in Task : [k EXCEPT !.hints = @ \union {hit[f][2]}] \in Task
      BY <3>1 DEF Task
    <3>3. QED
      BY <3>1, <3>2
  <2>2. CASE learned = {}
    <3>1. Goto(f, "mark") /\ UNCHANGED <<task, todo>>
      BY <2>2 DEF queueKnownPHPTargetsForParams
    <3>2. todo[f] = {}
      BY <1>1, <1>3 DEF RolesOK
    <3>3. QED
      BY <1>1, <1>2, <3>1, <3>2, Goes DEF Labels
  <2>3. CASE learned # {}
    <3>1. PICK k \in learned : /\ task' = [task EXCEPT ![f] = k]
                               /\ todo' = [todo EXCEPT ![f] = learned \ {k}]
                               /\ pc' = [pc EXCEPT ![f] = "seen"]
      BY <2>3 DEF queueKnownPHPTargetsForParams, Goto
    <3>2. k \in Task /\ learned \ {k} \in SUBSET Task
      BY <2>1
    <3> HIDE DEF learned
    <3>3. QED
      BY <1>1, <1>2, <3>1, <3>2 DEF ParamTypeOK, Frame, Labels
  <2>4. QED
    BY <2>2, <2>3
<1>5. ParamTypeOK' /\ PublishedOK'
  BY <1>1, <1>3, <1>4 DEF ParamTypeOK, PublishedOK, Frame, Labels, chanVars, learnVars, hitVars, callVars
<1>6. RolesOK'
  BY <1>1, <1>2, <1>3, <1>4, RolesStep DEF chanVars, hitVars
<1>7. CallerOK'
  BY <1>2, <1>3, <1>4, FuzzerCaller DEF chanVars, callVars
<1>8. ParamAccounting'
  <2>1. Busy' = Busy
    BY <1>2, <1>3, <1>4, BusySame
  <2>2. QED
    BY <1>1, <1>3, <2>1, AccountingAlt, AccountingAltNext DEF chanVars
<1>9. AllHits' = AllHits
  BY <1>2, <1>3, <1>4, HitsSame DEF learnVars, hitVars, Handling
<1>10. ClaimsOK' /\ OriginOK' /\ CoverOK'
  BY <1>1, <1>2, <1>3, <1>4, <1>9, QuietData DEF Claiming, chanVars, callVars
<1>11. QED
  BY <1>5, <1>6, <1>7, <1>8, <1>10 DEF IInv, Plain

(* The hit a fuzzer marks stays among the hits found.                        *)
LEMMA MarkStep ==
  ASSUME IInv, NEW f \in Fuzzers, markParamHitSeen(f) PROVE IInv'
<1>1. ParamTypeOK /\ RolesOK /\ CallerOK /\ PublishedOK /\ ParamAccounting /\ ClaimsOK /\ OriginOK /\ CoverOK
  BY DEF IInv, Plain
<1>2. f \in Goroutines /\ f \notin Reporters /\ hit[f] \in Hit
  BY <1>1, ParamAssumption DEF Goroutines, ParamTypeOK
<1>3. /\ pc[f] = "mark" /\ hitSeen' = hitSeen \union {hit[f]} /\ Goto(f, "hits")
      /\ published' = IF hit[f] \in hitSeen THEN published ELSE [published EXCEPT ![hit[f]] = @ + 1]
      /\ UNCHANGED <<chanVars, hints, known, task, todo, hitVars, callVars, panicked>>
  BY DEF markParamHitSeen, At
<1>4. Frame(f) /\ pc'[f] = "hits" /\ todo'[f] = {}
  <2>1. todo[f] = {}
    BY <1>1, <1>3 DEF RolesOK
  <2>2. QED
    BY <1>1, <1>2, <1>3, <2>1, Goes DEF Labels
<1>5. published' \in [Hit -> Nat] /\ PublishedOK'
  <2>1. published \in [Hit -> Nat] /\ \A h \in Hit : published[h] = IF h \in hitSeen THEN 1 ELSE 0
    BY <1>1 DEF ParamTypeOK, PublishedOK
  <2>2. CASE hit[f] \in hitSeen
    BY <1>3, <2>1, <2>2 DEF PublishedOK
  <2>3. CASE hit[f] \notin hitSeen
    BY <1>2, <1>3, <2>1, <2>3 DEF PublishedOK
  <2>4. QED
    BY <2>2, <2>3
<1>6. ParamTypeOK'
  BY <1>1, <1>2, <1>3, <1>4, <1>5 DEF ParamTypeOK, Frame, Labels, chanVars, hitVars, callVars
<1>7. RolesOK'
  BY <1>1, <1>2, <1>3, <1>4, RolesStep DEF chanVars, hitVars
<1>8. CallerOK'
  BY <1>2, <1>3, <1>4, FuzzerCaller DEF chanVars, callVars
<1>9. ParamAccounting'
  <2>1. Busy' = Busy
    BY <1>2, <1>3, <1>4, BusySame
  <2>2. QED
    BY <1>1, <1>3, <2>1, AccountingAlt, AccountingAltNext DEF chanVars
<1>10. AllHits' = AllHits
  <2>1. InHand(f) = hits[f] \union {hit[f]} /\ InHand(f)' = hits[f]
    BY <1>2, <1>3, <1>4 DEF InHand, Handling, hitVars
  <2>2. \A x \in Fuzzers \ {f} : InHand(x)' = InHand(x)
    BY <1>3, <1>4 DEF InHand, Handling, Frame, Goroutines, hitVars
  <2>3. QED
    BY <1>3, <2>1, <2>2 DEF AllHits
<1>11. ClaimsOK' /\ OriginOK' /\ CoverOK'
  BY <1>1, <1>2, <1>3, <1>4, <1>10, QuietData DEF Claiming, chanVars, callVars
<1>12. QED
  BY <1>5, <1>6, <1>7, <1>8, <1>9, <1>11 DEF IInv, Plain

LEMMA HintStep ==
  ASSUME IInv, NEW f \in Fuzzers, rememberGlobalParamHints(f) PROVE IInv'
<1>1. ParamTypeOK /\ RolesOK /\ CallerOK /\ PublishedOK /\ ParamAccounting /\ ClaimsOK /\ OriginOK /\ CoverOK
  BY DEF IInv, Plain
<1>2. f \in Goroutines /\ f \notin Reporters
  BY ParamAssumption DEF Goroutines
<1>3. /\ pc[f] = "hits"
      /\ UNCHANGED <<chanVars, known, hitSeen, published, task, todo, callVars, panicked>>
  BY DEF rememberGlobalParamHints, At
<1>4. PICK h \in hits[f] : /\ hits' = [hits EXCEPT ![f] = @ \ {h}] /\ hit' = [hit EXCEPT ![f] = h]
                           /\ hints' = hints \union {h[2]}
                           /\ Goto(f, IF h[2] \in hints THEN "mark" ELSE "range")
  BY DEF rememberGlobalParamHints
<1>5. h \in Hit /\ h[2] \in Params
  BY <1>1 DEF ParamTypeOK, Hit
<1>6. Frame(f) /\ pc'[f] \in {"mark", "range"} /\ todo'[f] = {}
  <2>1. todo[f] = {}
    BY <1>1, <1>3 DEF RolesOK
  <2>2. QED
    BY <1>1, <1>2, <1>3, <1>4, <2>1, Goes DEF Labels
<1>7. /\ hits' \in [Fuzzers -> SUBSET Hit] /\ hit' \in [Fuzzers -> Hit]
      /\ hits'[f] = hits[f] \ {h} /\ hit'[f] = h
      /\ \A x \in Fuzzers \ {f} : hits'[x] = hits[x] /\ hit'[x] = hit[x]
  BY <1>1, <1>4, <1>5 DEF ParamTypeOK
<1>8. ParamTypeOK' /\ PublishedOK'
  BY <1>1, <1>3, <1>4, <1>5, <1>6, <1>7 DEF ParamTypeOK, PublishedOK, Frame, Labels, chanVars, callVars
<1>9. RolesOK'
  BY <1>1, <1>2, <1>3, <1>6, <1>7, RolesStep DEF chanVars
<1>10. CallerOK'
  BY <1>2, <1>3, <1>6, FuzzerCaller DEF chanVars, callVars
<1>11. ParamAccounting'
  <2>1. Busy' = Busy
    BY <1>2, <1>3, <1>6, BusySame
  <2>2. QED
    BY <1>1, <1>3, <2>1, AccountingAlt, AccountingAltNext DEF chanVars
<1>12. AllHits' = AllHits
  <2>1. InHand(f) = hits[f]
    BY <1>3 DEF InHand, Handling
  <2>2. InHand(f)' = (hits[f] \ {h}) \union {h}
    BY <1>5, <1>6, <1>7 DEF InHand, Handling
  <2>3. \A x \in Fuzzers \ {f} : InHand(x)' = InHand(x)
    BY <1>6, <1>7 DEF InHand, Handling, Frame, Goroutines
  <2>4. QED
    BY <1>3, <2>1, <2>2, <2>3 DEF AllHits
<1>13. ClaimsOK' /\ OriginOK' /\ CoverOK'
  BY <1>1, <1>2, <1>3, <1>6, <1>12, QuietData DEF Claiming, chanVars, callVars
<1>14. QED
  BY <1>8, <1>9, <1>10, <1>11, <1>13 DEF IInv, Plain

-----------------------------------------------------------------------------
LEMMA DoneStep ==
  ASSUME IInv, NEW f \in Fuzzers, TaskDone(f) PROVE IInv'
<1>1. ParamTypeOK /\ RolesOK /\ CallerOK /\ PublishedOK /\ ParamAccounting /\ ClaimsOK /\ OriginOK /\ CoverOK
  BY DEF IInv, Plain
<1>2. f \in Goroutines /\ f \notin Reporters
  BY ParamAssumption DEF Goroutines
<1>3. /\ pc[f] = "hits" /\ hits[f] = {} /\ pending' = pending - 1 /\ Goto(f, "idle")
      /\ UNCHANGED <<tasks, closed, seen, learnVars, task, todo, hitVars, callVars, panicked>>
  BY DEF TaskDone, At
<1>4. Frame(f) /\ pc'[f] = "idle" /\ todo'[f] = {}
  <2>1. todo[f] = {}
    BY <1>1, <1>3 DEF RolesOK
  <2>2. QED
    BY <1>1, <1>2, <1>3, <2>1, Goes DEF Labels
<1>5. pending \in Nat /\ pending >= Len(tasks) + 1 /\ Len(tasks) \in Nat
  BY <1>1, <1>3, BusyCounts DEF ParamTypeOK
<1>6. ParamTypeOK' /\ PublishedOK'
  <2>1. pending' \in Nat
    BY <1>3, <1>5
  <2>2. QED
    BY <1>1, <1>3, <1>4, <2>1 DEF ParamTypeOK, PublishedOK, Frame, Labels, learnVars, hitVars, callVars
<1>7. RolesOK'
  BY <1>1, <1>2, <1>3, <1>4, RolesStep DEF hitVars
<1>8. CallerOK'
  BY <1>2, <1>3, <1>4, FuzzerCaller DEF callVars
<1>9. ParamAccounting'
  <2>1. Busy' = Busy \ {f} /\ f \in Busy
    BY <1>2, <1>3, <1>4 DEF Busy, Frame, Goroutines
  <2>2. IsFiniteSet(Busy) /\ Cardinality(Busy) \in Nat
    BY BusyFinite
  <2>3. Cardinality(Busy') = Cardinality(Busy) - 1
    BY <2>1, <2>2, FS_RemoveElement
  <2>4. pending = Len(tasks) + Cardinality(Busy) /\ tasks' = tasks
    BY <1>1, <1>3, AccountingAlt
  <2>5. pending' = Len(tasks') + Cardinality(Busy')
    BY <1>3, <1>5, <2>2, <2>3, <2>4
  <2>6. QED
    BY <2>5, AccountingAltNext
<1>10. AllHits' = AllHits
  BY <1>2, <1>3, <1>4, HitsSame DEF learnVars, hitVars, Handling
<1>11. ClaimsOK' /\ OriginOK' /\ CoverOK'
  BY <1>1, <1>2, <1>3, <1>4, <1>10, QuietData DEF Claiming, callVars
<1>12. QED
  BY <1>6, <1>7, <1>8, <1>9, <1>11 DEF IInv, Plain

LEMMA WaitingSplit ==
  ASSUME tasks \in Seq(Task), tasks # <<>>, tasks' = Tail(tasks)
  PROVE  /\ Head(tasks) \in Task /\ tasks' \in Seq(Task) /\ Len(tasks') = Len(tasks) - 1
         /\ Waiting = Waiting' \union {Head(tasks)}
<1>1. /\ Head(tasks) \in Task /\ Head(tasks) = tasks[1] /\ tasks' \in Seq(Task)
      /\ Len(tasks) \in Nat \ {0} /\ Len(tasks') = Len(tasks) - 1
      /\ \A i \in 1..Len(tasks) - 1 : tasks'[i] = tasks[i + 1]
      /\ DOMAIN tasks = 1..Len(tasks) /\ DOMAIN tasks' = 1..Len(tasks) - 1
  OBVIOUS
<1>2. Waiting' \union {Head(tasks)} \subseteq Waiting
  BY <1>1 DEF Waiting
<1>3. Waiting \subseteq Waiting' \union {Head(tasks)}
  <2> SUFFICES ASSUME NEW i \in 1..Len(tasks), i # 1 PROVE tasks[i] \in Waiting'
    BY <1>1 DEF Waiting
  <2>1. i - 1 \in 1..Len(tasks) - 1 /\ tasks[i] = tasks'[i - 1]
    BY <1>1
  <2>2. QED
    BY <1>1, <2>1 DEF Waiting
<1>4. QED
  BY <1>1, <1>2, <1>3

(* The task a fuzzer takes moves from the channel to its hands.              *)
LEMMA TakeStep ==
  ASSUME IInv, NEW f \in Fuzzers, Receive(f), tasks # <<>> PROVE IInv'
<1>1. ParamTypeOK /\ RolesOK /\ CallerOK /\ PublishedOK /\ ParamAccounting /\ ClaimsOK /\ OriginOK /\ CoverOK
  BY DEF IInv, Plain
<1>2. f \in Goroutines /\ f \notin Reporters
  BY ParamAssumption DEF Goroutines
<1>3. /\ pc[f] = "idle" /\ task' = [task EXCEPT ![f] = Head(tasks)] /\ tasks' = Tail(tasks) /\ Goto(f, "fuzz")
      /\ UNCHANGED <<closed, seen, pending, learnVars, todo, hitVars, callVars, panicked>>
  BY DEF Receive, At
<1>4. /\ Head(tasks) \in Task /\ tasks' \in Seq(Task) /\ Len(tasks') = Len(tasks) - 1 /\ Len(tasks) \in Nat
      /\ Waiting = Waiting' \union {Head(tasks)}
  BY <1>1, <1>3, WaitingSplit DEF ParamTypeOK
<1>5. Frame(f) /\ pc'[f] = "fuzz" /\ task'[f] = Head(tasks) /\ todo'[f] = {}
  <2>1. todo[f] = {}
    BY <1>1, <1>3 DEF RolesOK
  <2>2. todo' = todo
    BY <1>3
  <2>3. QED
    BY <1>1, <1>2, <1>3, <1>4, <2>1, <2>2, Takes DEF Labels
<1>6. ParamTypeOK' /\ PublishedOK'
  BY <1>1, <1>3, <1>4, <1>5 DEF ParamTypeOK, PublishedOK, Frame, Labels, learnVars, hitVars, callVars
<1>7. RolesOK'
  <2>1. hits[f] = {}
    BY <1>1, <1>3 DEF RolesOK
  <2>2. QED
    BY <1>1, <1>2, <1>3, <1>5, <2>1, RolesStep DEF hitVars
<1>8. CallerOK'
  BY <1>1, <1>2, <1>3, <1>5, CallerStep DEF callVars, CallerOK
<1>9. ParamAccounting'
  <2>1. Busy' = Busy \union {f} /\ f \notin Busy
    BY <1>2, <1>3, <1>5 DEF Busy, Frame, Goroutines
  <2>2. IsFiniteSet(Busy) /\ Cardinality(Busy) \in Nat
    BY BusyFinite
  <2>3. Cardinality(Busy') = Cardinality(Busy) + 1
    BY <2>1, <2>2, FS_AddElement
  <2>4. pending = Len(tasks) + Cardinality(Busy)
    BY <1>1, AccountingAlt
  <2>5. pending' = Len(tasks') + Cardinality(Busy')
    BY <1>3, <1>4, <2>2, <2>3, <2>4
  <2>6. QED
    BY <2>5, AccountingAltNext
<1>10. AllHits' = AllHits
  BY <1>2, <1>3, <1>5, HitsSame DEF learnVars, hitVars, Handling
<1>11. Admitted' = Admitted
  BY <1>2, <1>3, <1>5, AdmittedSame DEF Claiming
<1>12. ClaimsOK'
  <2>1. \A x \in Goroutines : Claiming(x)' = Claiming(x) /\ (Claiming(x) => task'[x] = task[x])
    BY <1>3, <1>5 DEF Frame, Claiming
  <2>2. \A x \in Fuzzers : pc'[x] = "fuzz" => task'[x] \in Admitted
    BY <1>1, <1>4, <1>5 DEF ClaimsOK, Frame, Goroutines
  <2>3. QED
    BY <1>1, <1>3, <1>4, <1>11, <2>1, <2>2 DEF ClaimsOK
<1>13. OriginOK'
  BY <1>1, <1>10, <1>11 DEF OriginOK, Found
<1>14. CoverOK'
  <2> SUFFICES ASSUME ~cancelled, NEW k \in Admitted
               PROVE  \/ k \in Waiting' \/ \E x \in Fuzzers : pc'[x] = "fuzz" /\ task'[x] = k
                      \/ Found(k) \subseteq AllHits
    BY <1>3, <1>10, <1>11 DEF CoverOK, callVars, Found
  <2>1. CASE k \in Waiting
    BY <1>4, <1>5, <2>1
  <2>2. CASE \E x \in Fuzzers : pc[x] = "fuzz" /\ task[x] = k
    BY <1>3, <1>5, <2>2 DEF Frame, Goroutines
  <2>3. QED
    BY <1>1, <2>1, <2>2 DEF CoverOK
<1>15. QED
  BY <1>6, <1>7, <1>8, <1>9, <1>12, <1>13, <1>14 DEF IInv, Plain

LEMMA LeaveStep ==
  ASSUME IInv, NEW f \in Fuzzers, Receive(f), tasks = <<>> PROVE IInv'
<1>1. ParamTypeOK /\ RolesOK /\ CallerOK /\ PublishedOK /\ ParamAccounting /\ ClaimsOK /\ OriginOK /\ CoverOK
  BY DEF IInv, Plain
<1>2. f \in Goroutines /\ f \notin Reporters
  BY ParamAssumption DEF Goroutines
<1>3. /\ pc[f] = "idle" /\ closed /\ Goto(f, "gone") /\ UNCHANGED <<task, tasks>>
      /\ UNCHANGED <<closed, seen, pending, learnVars, todo, hitVars, callVars, panicked>>
  BY DEF Receive, At
<1>4. Frame(f) /\ pc'[f] = "gone" /\ todo'[f] = {}
  <2>1. todo[f] = {}
    BY <1>1, <1>3 DEF RolesOK
  <2>2. QED
    BY <1>1, <1>2, <1>3, <2>1, Goes DEF Labels
<1>5. ParamTypeOK' /\ PublishedOK'
  BY <1>1, <1>3, <1>4 DEF ParamTypeOK, PublishedOK, Frame, Labels, learnVars, hitVars, callVars
<1>6. RolesOK'
  <2>1. hits[f] = {}
    BY <1>1, <1>3 DEF RolesOK
  <2>2. QED
    BY <1>1, <1>2, <1>3, <1>4, <2>1, RolesStep DEF hitVars
<1>7. CallerOK'
  BY <1>1, <1>2, <1>3, <1>4, CallerStep DEF callVars, CallerOK
<1>8. ParamAccounting'
  <2>1. Busy' = Busy
    BY <1>2, <1>3, <1>4, BusySame
  <2>2. QED
    BY <1>1, <1>3, <2>1, AccountingAlt, AccountingAltNext
<1>9. AllHits' = AllHits
  BY <1>2, <1>3, <1>4, HitsSame DEF learnVars, hitVars, Handling
<1>10. ClaimsOK' /\ OriginOK' /\ CoverOK'
  BY <1>1, <1>2, <1>3, <1>4, <1>9, QuietData DEF Claiming, callVars
<1>11. QED
  BY <1>5, <1>6, <1>7, <1>8, <1>10 DEF IInv, Plain

(* What a fuzzer finds stays in its hands; without a cancellation that is    *)
(* everything the task can find.                                             *)
LEMMA FuzzStep ==
  ASSUME IInv, NEW f \in Fuzzers, FuzzParams(f) PROVE IInv'
<1>1. ParamTypeOK /\ RolesOK /\ CallerOK /\ PublishedOK /\ ParamAccounting /\ ClaimsOK /\ OriginOK /\ CoverOK
  BY DEF IInv, Plain
<1>2. f \in Goroutines /\ f \notin Reporters
  BY ParamAssumption DEF Goroutines
<1>3. /\ pc[f] = "fuzz" /\ Goto(f, "hits")
      /\ UNCHANGED <<chanVars, learnVars, task, todo, hit, callVars, panicked>>
  BY DEF FuzzParams, At
<1>4. PICK some \in SUBSET Found(task[f]) :
        (some = Found(task[f]) \/ cancelled) /\ hits' = [hits EXCEPT ![f] = some]
  BY DEF FuzzParams
<1>5. task[f] \in Task /\ some \subseteq Hit
  BY <1>1, <1>2, Typed DEF ParamTypeOK
<1>6. Frame(f) /\ pc'[f] = "hits" /\ todo'[f] = {}
  <2>1. todo[f] = {}
    BY <1>1, <1>3 DEF RolesOK
  <2>2. QED
    BY <1>1, <1>2, <1>3, <2>1, Goes DEF Labels
<1>7. hits' \in [Fuzzers -> SUBSET Hit] /\ hits'[f] = some /\ \A x \in Fuzzers \ {f} : hits'[x] = hits[x]
  BY <1>1, <1>4, <1>5 DEF ParamTypeOK
<1>8. ParamTypeOK' /\ PublishedOK'
  BY <1>1, <1>3, <1>6, <1>7 DEF ParamTypeOK, PublishedOK, Frame, Labels, chanVars, learnVars, callVars
<1>9. RolesOK'
  BY <1>1, <1>2, <1>3, <1>6, <1>7, RolesStep DEF chanVars
<1>10. CallerOK'
  BY <1>2, <1>3, <1>6, FuzzerCaller DEF chanVars, callVars
<1>11. ParamAccounting'
  <2>1. Busy' = Busy
    BY <1>2, <1>3, <1>6, BusySame
  <2>2. QED
    BY <1>1, <1>3, <2>1, AccountingAlt, AccountingAltNext DEF chanVars
<1>12. AllHits' = AllHits \union some
  <2>1. InHand(f) = {}
    BY <1>1, <1>3 DEF InHand, Handling, RolesOK
  <2>2. InHand(f)' = some
    BY <1>6, <1>7 DEF InHand, Handling
  <2>3. \A x \in Fuzzers \ {f} : InHand(x)' = InHand(x)
    BY <1>3, <1>6, <1>7 DEF InHand, Handling, Frame, Goroutines
  <2>4. QED
    BY <1>3, <2>1, <2>2, <2>3 DEF AllHits, learnVars
<1>13. Admitted' = Admitted /\ Waiting' = Waiting
  BY <1>2, <1>3, <1>6, AdmittedSame DEF Claiming, chanVars, Waiting
<1>14. ClaimsOK'
  <2>1. \A x \in Goroutines : Claiming(x)' = Claiming(x) /\ (Claiming(x) => task'[x] = task[x])
    BY <1>3, <1>6 DEF Frame, Claiming
  <2>2. \A x \in Fuzzers : pc'[x] = "fuzz" => task'[x] \in Admitted
    BY <1>1, <1>6 DEF ClaimsOK, Frame, Goroutines
  <2>3. QED
    BY <1>1, <1>3, <1>13, <2>1, <2>2 DEF ClaimsOK, chanVars
<1>15. OriginOK'
  <2>1. task[f] \in Admitted
    BY <1>1, <1>3 DEF ClaimsOK
  <2>2. QED
    BY <1>1, <1>12, <1>13, <2>1 DEF OriginOK, Found
<1>16. CoverOK'
  <2> SUFFICES ASSUME ~cancelled, NEW k \in Admitted
               PROVE  \/ k \in Waiting \/ \E x \in Fuzzers : pc'[x] = "fuzz" /\ task'[x] = k
                      \/ Found(k) \subseteq AllHits \union some
    BY <1>3, <1>12, <1>13 DEF CoverOK, callVars, Found
  <2>1. CASE \E x \in Fuzzers : pc[x] = "fuzz" /\ task[x] = k
    BY <1>3, <1>4, <1>6, <2>1 DEF Frame, Goroutines
  <2>2. QED
    BY <1>1, <2>1 DEF CoverOK
<1>17. QED
  BY <1>8, <1>9, <1>10, <1>11, <1>14, <1>15, <1>16 DEF IInv, Plain

-----------------------------------------------------------------------------
(* enqueueParamTask, by a scan worker or a fuzzer.                           *)
LEMMA EnqueueCaller ==
  ASSUME IInv, NEW g \in Goroutines, Frame(g), pc[g] \in {"seen", "send", "rollback"},
         UNCHANGED <<closed, cancelled, caller, reports>>
  PROVE  CallerOK'
<1>1. CASE g \in Fuzzers
  BY <1>1, FuzzerCaller
<1>2. CASE g \in Reporters
  <2>1. caller \notin {"waiting", "waited"}
    BY <1>2, ReporterFree DEF IInv, Plain
  <2>2. QED
    BY <2>1, CallerStep DEF IInv, Plain
<1>3. QED
  BY <1>1, <1>2 DEF Goroutines

LEMMA EnqueueRoles ==
  ASSUME IInv, NEW g \in Goroutines, Frame(g), UNCHANGED <<closed, hits>>,
         g \in Fuzzers => pc'[g] \in {"seen", "send", "rollback", "mark"},
         g \notin Fuzzers => pc'[g] \in {"idle", "send", "rollback"} /\ todo'[g] = {},
         pc'[g] \notin {"seen", "send", "rollback"} => todo'[g] = {}
  PROVE  RolesOK'
<1>1. g \in Reporters => g \notin Fuzzers
  BY ParamAssumption
<1>2. RolesOK
  BY DEF IInv, Plain
<1>3. QED
  BY <1>1, <1>2, RolesStep

LEMMA EnqueueBusy ==
  ASSUME NEW g \in Goroutines, Frame(g), pc[g] \in {"seen", "send", "rollback"},
         UNCHANGED <<hits, hit, hitSeen>>,
         g \in Fuzzers => pc'[g] \in {"seen", "send", "rollback", "mark"}
  PROVE  Busy' = Busy /\ AllHits' = AllHits
<1>1. Busy' = Busy
  BY BusySame
<1>2. AllHits' = AllHits
  BY HitsSame DEF Handling
<1>3. QED
  BY <1>1, <1>2

LEMMA KnownTask ==
  ASSUME IInv, NEW g \in Goroutines, EnqueueSeen(g), task[g] \in seen PROVE IInv'
<1>1. ParamTypeOK /\ RolesOK /\ CallerOK /\ PublishedOK /\ ParamAccounting /\ ClaimsOK /\ OriginOK /\ CoverOK
  BY DEF IInv, Plain
<1>2. /\ pc[g] = "seen" /\ AfterEnqueue(g) /\ seen' = seen
      /\ UNCHANGED <<tasks, closed, pending, learnVars, hitVars, callVars, panicked>>
  BY DEF EnqueueSeen, At
<1>3. /\ Frame(g)
      /\ g \in Fuzzers => pc'[g] \in {"seen", "mark"}
      /\ g \notin Fuzzers => pc'[g] = "idle" /\ todo'[g] = {}
      /\ pc'[g] # "seen" => todo'[g] = {}
  BY <1>1, <1>2, AfterEnqueueMoves
<1>4. ParamTypeOK' /\ PublishedOK'
  BY <1>1, <1>2, <1>3 DEF ParamTypeOK, PublishedOK, Frame, Labels, learnVars, hitVars, callVars
<1>5. RolesOK' /\ CallerOK'
  BY <1>2, <1>3, EnqueueRoles, EnqueueCaller DEF hitVars, callVars
<1>6. Busy' = Busy /\ AllHits' = AllHits
  BY <1>2, <1>3, EnqueueBusy DEF hitVars, learnVars
<1>7. ParamAccounting'
  BY <1>1, <1>2, <1>6, AccountingAlt, AccountingAltNext
<1>8. ClaimsOK' /\ OriginOK' /\ CoverOK'
  <2>1. pc'[g] \in {"seen", "mark", "idle"}
    BY <1>3
  <2>2. QED
    BY <1>1, <1>2, <1>3, <1>6, <2>1, QuietData DEF Claiming, callVars
<1>9. QED
  BY <1>4, <1>5, <1>7, <1>8 DEF IInv, Plain

(* The key is reserved: seen, and claimed by nobody else.                    *)
LEMMA NewTask ==
  ASSUME IInv, NEW g \in Goroutines, EnqueueSeen(g), task[g] \notin seen PROVE IInv'
<1>1. ParamTypeOK /\ RolesOK /\ CallerOK /\ PublishedOK /\ ParamAccounting /\ ClaimsOK /\ OriginOK /\ CoverOK
  BY DEF IInv, Plain
<1>2. /\ pc[g] = "seen" /\ seen' = seen \union {task[g]} /\ Goto(g, "send") /\ UNCHANGED <<task, todo>>
      /\ UNCHANGED <<tasks, closed, pending, learnVars, hitVars, callVars, panicked>>
  BY DEF EnqueueSeen, At
<1>3. Frame(g) /\ pc'[g] = "send" /\ todo'[g] = todo[g] /\ task'[g] = task[g] /\ task[g] \in Task
  BY <1>1, <1>2, Goes DEF Labels, ParamTypeOK
<1>4. ParamTypeOK' /\ PublishedOK'
  BY <1>1, <1>2, <1>3 DEF ParamTypeOK, PublishedOK, Frame, Labels, learnVars, hitVars, callVars
<1>5. RolesOK' /\ CallerOK'
  <2>1. g \notin Fuzzers => todo'[g] = {}
    BY <1>1, <1>3 DEF RolesOK, Goroutines
  <2>2. QED
    BY <1>2, <1>3, <2>1, EnqueueRoles, EnqueueCaller DEF hitVars, callVars
<1>6. Busy' = Busy /\ AllHits' = AllHits
  BY <1>2, <1>3, EnqueueBusy DEF hitVars, learnVars
<1>7. ParamAccounting'
  BY <1>1, <1>2, <1>6, AccountingAlt, AccountingAltNext
<1>8. \A x \in Goroutines : Claiming(x)' = (Claiming(x) \/ x = g)
  BY <1>3 DEF Frame, Claiming
<1>9. Admitted' = Admitted
  <2>1. Claimed' = Claimed \union {task[g]}
    BY <1>2, <1>8 DEF Claimed
  <2>2. QED
    BY <1>2, <2>1 DEF Admitted
<1>10. ClaimsOK'
  <2>1. \A x \in Goroutines : Claiming(x) => task[x] \in seen /\ task[x] # task[g]
    BY <1>1 DEF ClaimsOK
  <2>2. \A x, y \in Goroutines : Claiming(x)' /\ Claiming(y)' /\ task[x] = task[y] => x = y
    BY <1>1, <1>8, <2>1 DEF ClaimsOK
  <2>3. \A x \in Goroutines : Claiming(x)' => task[x] \in seen'
    BY <1>2, <1>8, <2>1
  <2>4. \A x \in Fuzzers : pc'[x] = "fuzz" => pc[x] = "fuzz"
    BY <1>3 DEF Frame, Goroutines
  <2>5. Waiting' = Waiting
    BY <1>2 DEF Waiting
  <2>6. QED
    BY <1>1, <1>2, <1>9, <2>2, <2>3, <2>4, <2>5 DEF ClaimsOK
<1>11. OriginOK'
  BY <1>1, <1>6, <1>9 DEF OriginOK, Found
<1>12. CoverOK'
  <2>1. \A x \in Fuzzers : pc[x] = "fuzz" => pc'[x] = "fuzz"
    BY <1>2, <1>3 DEF Frame, Goroutines
  <2>2. Waiting' = Waiting
    BY <1>2 DEF Waiting
  <2>3. QED
    BY <1>1, <1>2, <1>6, <1>9, <2>1, <2>2 DEF CoverOK, Found, callVars
<1>13. QED
  BY <1>4, <1>5, <1>7, <1>10, <1>11, <1>12 DEF IInv, Plain

-----------------------------------------------------------------------------
(* A claim given up leaves the claims of the others.                         *)
LEMMA Release ==
  ASSUME ClaimsOK, NEW g \in Goroutines, Frame(g), Claiming(g), ~Claiming(g)'
  PROVE  /\ Claimed' = Claimed \ {task[g]} /\ task[g] \in Claimed /\ task[g] \in seen
         /\ \A x \in Goroutines : Claiming(x)' => /\ x # g /\ Claiming(x)
                                                  /\ task'[x] = task[x] /\ task[x] # task[g]
<1>1. \A x \in Goroutines : Claiming(x)' => x # g /\ Claiming(x) /\ task'[x] = task[x]
  BY DEF Frame, Claiming
<1>2. \A x \in Goroutines : Claiming(x) /\ x # g => Claiming(x)' /\ task'[x] = task[x] /\ task[x] # task[g]
  BY DEF Frame, Claiming, ClaimsOK
<1>3. Claimed' = Claimed \ {task[g]}
  <2>1. \A k \in Claimed' : k \in Claimed /\ k # task[g]
    BY <1>1, <1>2 DEF Claimed
  <2>2. \A k \in Claimed : k # task[g] => k \in Claimed'
    BY <1>2 DEF Claimed
  <2>3. QED
    BY <2>1, <2>2
<1>4. QED
  BY <1>1, <1>2, <1>3 DEF Claimed, ClaimsOK

LEMMA Unclaimed ==
  ASSUME NEW g \in Goroutines, Frame(g), pc[g] \in {"seen", "send", "rollback"},
         pc'[g] \in {"seen", "send", "rollback", "mark", "idle"}
  PROVE  \A x \in Fuzzers : /\ (pc'[x] = "fuzz") = (pc[x] = "fuzz")
                            /\ pc[x] = "fuzz" => task'[x] = task[x]
BY DEF Frame, Goroutines

LEMMA SentTask ==
  ASSUME IInv, NEW g \in Goroutines, EnqueueSend(g), ~closed, Len(tasks) < Capacity PROVE IInv'
<1>1. ParamTypeOK /\ RolesOK /\ CallerOK /\ PublishedOK /\ ParamAccounting /\ ClaimsOK /\ OriginOK /\ CoverOK
  BY DEF IInv, Plain
<1>2. /\ pc[g] = "send" /\ panicked' = closed
      /\ tasks' = Append(tasks, task[g]) /\ pending' = pending + 1 /\ AfterEnqueue(g)
      /\ UNCHANGED <<closed, seen, learnVars, hitVars, callVars>>
  BY DEF EnqueueSend, At
<1>3. /\ Frame(g)
      /\ g \in Fuzzers => pc'[g] \in {"seen", "mark"}
      /\ g \notin Fuzzers => pc'[g] = "idle" /\ todo'[g] = {}
      /\ pc'[g] # "seen" => todo'[g] = {}
  BY <1>1, <1>2, AfterEnqueueMoves
<1>4. /\ task[g] \in Task /\ tasks' \in Seq(Task) /\ Len(tasks') = Len(tasks) + 1 /\ Len(tasks) \in Nat
      /\ Waiting' = Waiting \union {task[g]}
  <2>1. tasks \in Seq(Task) /\ task[g] \in Task
    BY <1>1 DEF ParamTypeOK
  <2>2. /\ tasks' \in Seq(Task) /\ Len(tasks') = Len(tasks) + 1 /\ Len(tasks) \in Nat
        /\ DOMAIN tasks = 1..Len(tasks) /\ DOMAIN tasks' = 1..Len(tasks) + 1
        /\ tasks'[Len(tasks) + 1] = task[g] /\ \A i \in 1..Len(tasks) : tasks'[i] = tasks[i]
    BY <1>2, <2>1
  <2>3. Waiting' = Waiting \union {task[g]}
    BY <2>2 DEF Waiting
  <2>4. QED
    BY <2>1, <2>2, <2>3
<1>5. pending' \in Nat /\ panicked' \in BOOLEAN
  BY <1>1, <1>2 DEF ParamTypeOK
<1>6. ParamTypeOK' /\ PublishedOK'
  BY <1>1, <1>2, <1>3, <1>4, <1>5 DEF ParamTypeOK, PublishedOK, Frame, Labels, learnVars, hitVars, callVars
<1>7. RolesOK' /\ CallerOK'
  BY <1>2, <1>3, EnqueueRoles, EnqueueCaller DEF hitVars, callVars
<1>8. Busy' = Busy /\ AllHits' = AllHits
  BY <1>2, <1>3, EnqueueBusy DEF hitVars, learnVars
<1>9. ParamAccounting'
  <2>1. pending = Len(tasks) + Cardinality(Busy) /\ Cardinality(Busy) \in Nat
    BY <1>1, AccountingAlt, BusyFinite
  <2>2. pending' = Len(tasks') + Cardinality(Busy')
    BY <1>2, <1>4, <1>8, <2>1
  <2>3. QED
    BY <2>2, AccountingAltNext
<1>10. pc'[g] \in {"seen", "mark", "idle"} /\ Claiming(g) /\ ~Claiming(g)'
  BY <1>2, <1>3 DEF Claiming
<1>11. /\ Claimed' = Claimed \ {task[g]} /\ task[g] \in Claimed /\ task[g] \in seen
       /\ \A x \in Goroutines : Claiming(x)' => /\ x # g /\ Claiming(x)
                                                /\ task'[x] = task[x] /\ task[x] # task[g]
  BY <1>1, <1>3, <1>10, Release
<1>12. Admitted' = Admitted \union {task[g]}
  BY <1>2, <1>11 DEF Admitted
<1>13. \A x \in Fuzzers : (pc'[x] = "fuzz") = (pc[x] = "fuzz") /\ (pc[x] = "fuzz" => task'[x] = task[x])
  BY <1>2, <1>3, <1>10, Unclaimed
<1>14. ClaimsOK'
  BY <1>1, <1>2, <1>4, <1>11, <1>12, <1>13 DEF ClaimsOK
<1>15. OriginOK'
  BY <1>1, <1>8, <1>12 DEF OriginOK, Found
<1>16. CoverOK'
  <2> SUFFICES ASSUME ~cancelled, NEW k \in Admitted \union {task[g]}
               PROVE  \/ k \in Waiting' \/ \E x \in Fuzzers : pc'[x] = "fuzz" /\ task'[x] = k
                      \/ Found(k) \subseteq AllHits
    BY <1>2, <1>8, <1>12 DEF CoverOK, callVars, Found
  <2>1. CASE k = task[g]
    BY <1>4, <2>1
  <2>2. CASE k \in Admitted
    BY <1>1, <1>4, <1>13, <2>2 DEF CoverOK
  <2>3. QED
    BY <2>1, <2>2
<1>17. QED
  BY <1>6, <1>7, <1>9, <1>14, <1>15, <1>16 DEF IInv, Plain

LEMMA RefusedTask ==
  ASSUME IInv, NEW g \in Goroutines, EnqueueSend(g), ~(~closed /\ Len(tasks) < Capacity) PROVE IInv'
<1>1. ParamTypeOK /\ RolesOK /\ CallerOK /\ PublishedOK /\ ParamAccounting /\ ClaimsOK /\ OriginOK /\ CoverOK
  BY DEF IInv, Plain
<1>2. /\ pc[g] = "send" /\ panicked' = closed /\ Goto(g, "rollback") /\ UNCHANGED <<tasks, pending, task, todo>>
      /\ UNCHANGED <<closed, seen, learnVars, hitVars, callVars>>
  BY DEF EnqueueSend, At
<1>3. Frame(g) /\ pc'[g] = "rollback" /\ todo'[g] = todo[g] /\ task'[g] = task[g]
  BY <1>1, <1>2, Goes DEF Labels
<1>4. ParamTypeOK' /\ PublishedOK'
  <2>1. panicked' \in BOOLEAN
    BY <1>1, <1>2 DEF ParamTypeOK
  <2>2. QED
    BY <1>1, <1>2, <1>3, <2>1 DEF ParamTypeOK, PublishedOK, Frame, Labels, learnVars, hitVars, callVars
<1>5. RolesOK' /\ CallerOK'
  <2>1. g \notin Fuzzers => todo'[g] = {}
    BY <1>1, <1>3 DEF RolesOK, Goroutines
  <2>2. QED
    BY <1>2, <1>3, <2>1, EnqueueRoles, EnqueueCaller DEF hitVars, callVars
<1>6. Busy' = Busy /\ AllHits' = AllHits
  BY <1>2, <1>3, EnqueueBusy DEF hitVars, learnVars
<1>7. ParamAccounting'
  BY <1>1, <1>2, <1>6, AccountingAlt, AccountingAltNext
<1>8. \A x \in Goroutines : Claiming(x)' = Claiming(x)
  BY <1>2, <1>3 DEF Frame, Claiming
<1>9. Admitted' = Admitted /\ Waiting' = Waiting
  BY <1>2, <1>8 DEF Admitted, Claimed, Waiting
<1>10. \A x \in Fuzzers : (pc'[x] = "fuzz") = (pc[x] = "fuzz")
  BY <1>2, <1>3, Unclaimed
<1>11. ClaimsOK'
  BY <1>1, <1>2, <1>8, <1>9, <1>10 DEF ClaimsOK
<1>12. OriginOK' /\ CoverOK'
  BY <1>1, <1>2, <1>6, <1>9, <1>10 DEF OriginOK, CoverOK, Found, callVars
<1>13. QED
  BY <1>4, <1>5, <1>7, <1>11, <1>12 DEF IInv, Plain

LEMMA RolledBack ==
  ASSUME IInv, NEW g \in Goroutines, EnqueueRollback(g) PROVE IInv'
<1>1. ParamTypeOK /\ RolesOK /\ CallerOK /\ PublishedOK /\ ParamAccounting /\ ClaimsOK /\ OriginOK /\ CoverOK
  BY DEF IInv, Plain
<1>2. /\ pc[g] = "rollback" /\ seen' = seen \ {task[g]} /\ AfterEnqueue(g)
      /\ UNCHANGED <<tasks, closed, pending, learnVars, hitVars, callVars, panicked>>
  BY DEF EnqueueRollback, At
<1>3. /\ Frame(g)
      /\ g \in Fuzzers => pc'[g] \in {"seen", "mark"}
      /\ g \notin Fuzzers => pc'[g] = "idle" /\ todo'[g] = {}
      /\ pc'[g] # "seen" => todo'[g] = {}
  BY <1>1, <1>2, AfterEnqueueMoves
<1>4. ParamTypeOK' /\ PublishedOK'
  BY <1>1, <1>2, <1>3 DEF ParamTypeOK, PublishedOK, Frame, Labels, learnVars, hitVars, callVars
<1>5. RolesOK' /\ CallerOK'
  BY <1>2, <1>3, EnqueueRoles, EnqueueCaller DEF hitVars, callVars
<1>6. Busy' = Busy /\ AllHits' = AllHits
  BY <1>2, <1>3, EnqueueBusy DEF hitVars, learnVars
<1>7. ParamAccounting'
  BY <1>1, <1>2, <1>6, AccountingAlt, AccountingAltNext
<1>8. pc'[g] \in {"seen", "mark", "idle"} /\ Claiming(g) /\ ~Claiming(g)'
  BY <1>2, <1>3 DEF Claiming
<1>9. /\ Claimed' = Claimed \ {task[g]} /\ task[g] \in Claimed
      /\ \A x \in Goroutines : Claiming(x)' => /\ x # g /\ Claiming(x)
                                               /\ task'[x] = task[x] /\ task[x] # task[g]
  BY <1>1, <1>3, <1>8, Release
<1>10. Admitted' = Admitted /\ Waiting' = Waiting
  BY <1>2, <1>9 DEF Admitted, Waiting
<1>11. \A x \in Fuzzers : (pc'[x] = "fuzz") = (pc[x] = "fuzz") /\ (pc[x] = "fuzz" => task'[x] = task[x])
  BY <1>2, <1>3, <1>8, Unclaimed
<1>12. ClaimsOK'
  BY <1>1, <1>2, <1>9, <1>10, <1>11 DEF ClaimsOK
<1>13. OriginOK' /\ CoverOK'
  BY <1>1, <1>2, <1>6, <1>10, <1>11 DEF OriginOK, CoverOK, Found, callVars
<1>14. QED
  BY <1>4, <1>5, <1>7, <1>12, <1>13 DEF IInv, Plain

-----------------------------------------------------------------------------
(* Wait and Shutdown change only how far they are.                           *)
LEMMA WaitsAndShuts == ASSUME IInv, Waits \/ ShutdownCancels PROVE IInv'
<1>1. ParamTypeOK /\ RolesOK /\ CallerOK /\ PublishedOK /\ ParamAccounting /\ ClaimsOK /\ OriginOK /\ CoverOK
  BY DEF IInv, Plain
<1>2. /\ UNCHANGED <<tasks, seen, pending, learnVars, pc, task, todo, hitVars, reports, panicked>>
      /\ cancelled => cancelled'
      /\ closed => closed'
  BY DEF Waits, WaitForScan, WaitForTasks, ShutdownCloses, ShutdownReturns, ShutdownCancels, chanVars
<1>3. ParamTypeOK'
  <2>1. caller' \in {"scanning", "waiting", "waited", "stopping", "closing", "stopped"}
        /\ closed' \in BOOLEAN /\ cancelled' \in BOOLEAN
    BY <1>1 DEF ParamTypeOK, Waits, WaitForScan, WaitForTasks, ShutdownCloses, ShutdownReturns,
                ShutdownCancels, chanVars
  <2>2. QED
    BY <1>1, <1>2, <2>1 DEF ParamTypeOK, learnVars, hitVars
<1>4. RolesOK' /\ PublishedOK'
  BY <1>1, <1>2 DEF RolesOK, PublishedOK, learnVars, hitVars
<1>5. CallerOK'
  BY <1>1 DEF CallerOK, ReportersIdle, Waits, WaitForScan, WaitForTasks, ShutdownCloses,
              ShutdownReturns, ShutdownCancels, chanVars
<1>6. ParamAccounting'
  BY <1>1, <1>2 DEF ParamAccounting
<1>7. Admitted' = Admitted /\ Waiting' = Waiting /\ AllHits' = AllHits
  BY <1>2 DEF Admitted, Claimed, Claiming, Waiting, AllHits, InHand, Handling, learnVars, hitVars
<1>8. ClaimsOK' /\ OriginOK' /\ CoverOK'
  BY <1>1, <1>2, <1>7 DEF ClaimsOK, Claiming, OriginOK, CoverOK, Found
<1>9. QED
  BY <1>3, <1>4, <1>5, <1>6, <1>8 DEF IInv, Plain

LEMMA IInvStep == IInv /\ [PoolNext]_poolVars => IInv'
<1> SUFFICES ASSUME IInv, [PoolNext]_poolVars PROVE IInv'
  OBVIOUS
<1>1. CASE \E w \in Reporters : Reporter(w)
  BY <1>1, QueueStep, RememberStep DEF Reporter
<1>2. CASE \E g \in Goroutines : Enqueue(g)
  BY <1>2, KnownTask, NewTask, SentTask, RefusedTask, RolledBack DEF Enqueue
<1>3. CASE \E f \in Fuzzers : Fuzzer(f)
  BY <1>3, TakeStep, LeaveStep, FuzzStep, HintStep, RangeStep, MarkStep, DoneStep DEF Fuzzer
<1>4. CASE Waits \/ ShutdownCancels
  BY <1>4, WaitsAndShuts
<1>5. CASE UNCHANGED poolVars
  <2>1. UNCHANGED <<tasks, closed, seen, pending, hints, known, hitSeen, published, pc, task, todo,
                    hits, hit, reports, cancelled, caller, panicked>>
    BY <1>5 DEF poolVars, chanVars, learnVars, hitVars, callVars
  <2>2. Plain' /\ ParamAccounting'
    BY <2>1 DEF IInv, Plain, ParamTypeOK, RolesOK, CallerOK, ReportersIdle, PublishedOK, ParamAccounting
  <2>3. Admitted' = Admitted /\ Waiting' = Waiting /\ AllHits' = AllHits
    BY <2>1 DEF Admitted, Claimed, Claiming, Waiting, AllHits, InHand, Handling
  <2>4. ClaimsOK' /\ OriginOK' /\ CoverOK'
    BY <2>1, <2>3 DEF IInv, ClaimsOK, Claiming, OriginOK, CoverOK, Found
  <2>5. QED
    BY <2>2, <2>4 DEF IInv
<1>6. QED
  BY <1>1, <1>2, <1>3, <1>4, <1>5 DEF PoolNext

-----------------------------------------------------------------------------
(* When Wait is past the tasks nobody holds one: the count is exact.         *)
LEMMA WaitIsExact == ASSUME IInv, caller = "waited" PROVE tasks = <<>> /\ \A f \in Fuzzers : pc[f] = "idle"
<1>1. pending = 0 /\ pending = Len(tasks) + Cardinality(Busy) /\ Len(tasks) \in Nat
  BY AccountingAlt DEF IInv, Plain, CallerOK, ParamTypeOK
<1>2. IsFiniteSet(Busy) /\ Cardinality(Busy) \in Nat
  BY BusyFinite
<1>3. Len(tasks) = 0 /\ Cardinality(Busy) = 0
  BY <1>1, <1>2
<1>4. Busy = {} /\ tasks = <<>>
  BY <1>2, <1>3, FS_EmptySet DEF IInv, Plain, ParamTypeOK
<1>5. ~closed
  BY DEF IInv, Plain, CallerOK
<1>6. QED
  BY <1>4, <1>5 DEF Busy, IInv, Plain, RolesOK

LEMMA IInvImpliesSound == IInv => ParamPoolSound
<1> SUFFICES ASSUME IInv PROVE ParamPoolSound
  OBVIOUS
<1>1. ParamTypeOK /\ ParamAccounting
  BY DEF IInv, Plain
<1>2. ParamHitOnce
  BY DEF IInv, Plain, PublishedOK, ParamHitOnce
<1>3. ParamWaitCovers
  <2> SUFFICES ASSUME caller = "waited"
               PROVE  /\ tasks = <<>>
                      /\ \A f \in Fuzzers : hits[f] = {} /\ todo[f] = {} /\ pc[f] = "idle"
                      /\ \A h \in Hit : published[h] = 0 <=> h \notin UNION {Found(k) : k \in seen}
    BY DEF ParamWaitCovers
  <2>1. tasks = <<>> /\ \A f \in Fuzzers : pc[f] = "idle" /\ hits[f] = {} /\ todo[f] = {}
    BY WaitIsExact DEF IInv, Plain, RolesOK
  <2>2. \A g \in Goroutines : ~Claiming(g)
    BY <2>1 DEF IInv, Plain, CallerOK, ReportersIdle, Claiming, Goroutines
  <2>3. Admitted = seen /\ Waiting = {}
    BY <2>1, <2>2 DEF Admitted, Claimed, Waiting
  <2>4. AllHits = hitSeen
    BY <2>1 DEF AllHits, InHand, Handling
  <2>5. \A k \in seen : Found(k) \subseteq hitSeen
    BY <2>1, <2>3, <2>4 DEF IInv, Plain, CallerOK, CoverOK
  <2>6. \A h \in hitSeen : \E k \in seen : h \in Found(k)
    BY <2>3, <2>4 DEF IInv, OriginOK
  <2>7. \A h \in Hit : published[h] = 0 <=> h \notin hitSeen
    BY DEF IInv, Plain, PublishedOK
  <2>8. QED
    BY <2>1, <2>5, <2>6, <2>7
<1>4. QED
  BY <1>1, <1>2, <1>3 DEF ParamPoolSound

(* The inductive invariant of the pool, pkg/engine/paramfuzz.go.             *)
THEOREM ParamPoolInvariant == PoolSafety => []IInv
BY IInvInit, IInvStep, PTL DEF PoolSafety

(* paramTasksWg is exact although tasks are reserved, counted, sent and      *)
(* rolled back in steps, and a fuzzer queues tasks while it holds one: when  *)
(* Wait returns, the hits of every key in paramTaskSeen have been published, *)
(* no other has, and none twice (pkg/engine/paramfuzz.go, engine.go).        *)
THEOREM ParamPoolIsSound == PoolSafety => []ParamPoolSound
BY ParamPoolInvariant, IInvImpliesSound, PTL

-----------------------------------------------------------------------------
(* The resume files.                                                         *)
ResumeSafety == ResumeInit /\ [][ResumeNext]_resumeVars

-----------------------------------------------------------------------------
(* A line no resumed scan has to read again.                                 *)
Traced(l) == l \in offered \/ l \in inHand
TracedTo(n) == \A l \in 1..n : Traced(l)

FilesOK ==
    /\ lineFile \in [set : BOOLEAN, torn : BOOLEAN, line : 0..NumLines]
    /\ bloomFile \in [set : BOOLEAN, torn : BOOLEAN, seen : SUBSET Lines]

ScannerOK ==
    /\ up \in {"down", "next", "line", "saving", "dump", "dumping", "exit"}
    /\ afterSave \in {"line", "dump", "exit"}
    /\ up = "saving" => afterSave \in {"line", "dump"}
    /\ runs \in Nat /\ lineNum \in 0..NumLines /\ startLine \in 0..NumLines
    /\ up = "line" \/ (up = "saving" /\ afterSave = "line") => lineNum > 0
    /\ filter \subseteq Lines /\ waiting \subseteq filter
    /\ offered \subseteq Lines /\ pushed \in [Lines -> Nat] /\ clean \in BOOLEAN
    /\ runs = 0 => up = "down" /\ ~lineFile.set /\ \A l \in Lines : pushed[l] = 0

(* What the scanner has passed, and what the file says it has passed, left a *)
(* trace; the line in its hand is the one it may yet lose.                   *)
TraceOK ==
    /\ TracedTo(lineFile.line)
    /\ TracedTo(startLine)
    /\ up \notin {"down", "line"} => TracedTo(lineNum)
    /\ up = "line" => TracedTo(lineNum - 1)

(* While every stop was graceful, each line that was queued is in the filter *)
(* of the running scan, or in the dump of the last one.                      *)
DumpOK ==
    clean => \A l \in Lines :
        /\ pushed[l] <= 1
        /\ pushed[l] > 0 => IF up \in {"down", "exit"} THEN l \in bloomFile.seen ELSE l \in filter

RInv == FilesOK /\ ScannerOK /\ TraceOK /\ DumpOK

-----------------------------------------------------------------------------
(* Before the first start nothing was read, queued or saved.                 *)
LEMMA ResumeInvInit == ResumeInit => RInv
<1> SUFFICES ASSUME ResumeInit PROVE RInv
  OBVIOUS
<1>1. NumLines \in Nat /\ 0 \in 0..NumLines
  BY ResumeAssumption
<1>2. FilesOK /\ ScannerOK
  BY <1>1 DEF ResumeInit, FilesOK, ScannerOK
<1>3. TraceOK
  BY <1>1 DEF ResumeInit, TraceOK, TracedTo
<1>4. DumpOK
  BY DEF ResumeInit, DumpOK
<1>5. QED
  BY <1>2, <1>3, <1>4 DEF RInv

(* A start takes the line of the file, or none, and reads from the top.      *)
LEMMA Launches ==
  ASSUME RInv, NEW from \in 0..NumLines, NEW seenThen \in SUBSET Lines, Launch(from, seenThen),
         TracedTo(from), UNCHANGED historyVars, clean' \in BOOLEAN,
         clean' => \A l \in Lines : pushed[l] <= 1 /\ (pushed[l] > 0 => l \in seenThen)
  PROVE  RInv'
<1>1. NumLines \in Nat
  BY ResumeAssumption
<1>2. /\ up' = "next" /\ lineNum' = 0 /\ startLine' = from /\ filter' = seenThen /\ waiting' = {}
      /\ runs' = runs + 1 /\ UNCHANGED <<afterSave, lineFile, bloomFile, offered, inHand, pushed>>
  BY DEF Launch, historyVars
<1>3. FilesOK'
  BY <1>2 DEF RInv, FilesOK
<1>4. ScannerOK'
  <2>1. runs \in Nat /\ runs' # 0
    BY <1>2 DEF RInv, ScannerOK
  <2>2. QED
    BY <1>1, <1>2, <2>1 DEF RInv, ScannerOK
<1>5. TraceOK'
  <2>1. TracedTo(lineFile.line) /\ \A l \in 1..0 : Traced(l)
    BY DEF RInv, TraceOK
  <2>2. QED
    BY <1>2, <2>1 DEF TraceOK, TracedTo, Traced
<1>6. DumpOK'
  BY <1>2 DEF DumpOK
<1>7. QED
  BY <1>3, <1>4, <1>5, <1>6 DEF RInv

(* A resumed scan trusts the line on file and the dump; a fresh one neither. *)
LEMMA Starts == ASSUME RInv, StartAfresh \/ LoadResumeState PROVE RInv'
<1>1. NumLines \in Nat /\ 0 \in 0..NumLines
  BY ResumeAssumption
<1>2. up = "down"
  BY DEF StartAfresh, LoadResumeState, Launch
<1>3. CASE StartAfresh
  <2>1. Launch(0, {}) /\ clean' = (runs = 0) /\ UNCHANGED historyVars
    BY <1>3 DEF StartAfresh
  <2>2. TracedTo(0)
    BY DEF TracedTo
  <2>3. runs = 0 => \A l \in Lines : pushed[l] = 0
    BY DEF RInv, ScannerOK
  <2>4. pushed \in [Lines -> Nat] /\ {} \in SUBSET Lines
    BY DEF RInv, ScannerOK
  <2>5. clean' \in BOOLEAN /\ (clean' => \A l \in Lines : pushed[l] <= 1 /\ (pushed[l] > 0 => l \in {}))
    <3>1. CASE runs = 0
      <4>1. clean' = TRUE
        BY <2>1, <3>1
      <4>2. QED
        BY <2>3, <3>1, <4>1
    <3>2. CASE runs # 0
      <4>1. clean' = FALSE
        BY <2>1, <3>2
      <4>2. QED
        BY <4>1
    <3>3. QED
      BY <3>1, <3>2
  <2>6. QED
    BY <1>1, <2>1, <2>2, <2>4, <2>5, Launches
<1>4. CASE LoadResumeState
  <2>1. Launch(lineFile.line, bloomFile.seen) /\ UNCHANGED historyVars /\ clean' = clean
    BY <1>4 DEF LoadResumeState, RestoredFilter
  <2>2. lineFile.line \in 0..NumLines /\ bloomFile.seen \in SUBSET Lines /\ clean \in BOOLEAN
    BY DEF RInv, FilesOK, ScannerOK
  <2>3. TracedTo(lineFile.line)
    BY DEF RInv, TraceOK
  <2>4. clean => \A l \in Lines : pushed[l] <= 1 /\ (pushed[l] > 0 => l \in bloomFile.seen)
    BY <1>2 DEF RInv, DumpOK
  <2>5. QED
    BY <2>1, <2>2, <2>3, <2>4, Launches
<1>5. QED
  BY <1>3, <1>4

-----------------------------------------------------------------------------
(* A line is read; a periodic save names it before it is submitted.          *)
LEMMA Reads == ASSUME RInv, ScanLine PROVE RInv'
<1>1. NumLines \in Nat
  BY ResumeAssumption
<1>2. FilesOK /\ ScannerOK /\ TraceOK /\ DumpOK /\ lineNum \in 0..NumLines
  BY DEF RInv, ScannerOK
<1>3. /\ up = "next" /\ lineNum < NumLines /\ lineNum' = lineNum + 1
      /\ \/ up' = "line" /\ UNCHANGED <<afterSave, lineFile, inHand>>
         \/ /\ up' = "saving" /\ afterSave' = "line"
            /\ lineFile' = [lineFile EXCEPT !.set = TRUE, !.torn = TRUE]
            /\ inHand' = inHand \union {lineNum'}
      /\ UNCHANGED <<startLine, filter, waiting, bloomFile, runs, offered, pushed, clean>>
  BY DEF ScanLine
<1>4. lineNum' \in 1..NumLines /\ lineNum' - 1 = lineNum /\ runs # 0
  BY <1>1, <1>2, <1>3 DEF ScannerOK
<1>5. FilesOK' /\ lineFile'.line = lineFile.line
  BY <1>2, <1>3 DEF FilesOK
<1>6. ScannerOK'
  BY <1>2, <1>3, <1>4 DEF ScannerOK
<1>7. TraceOK'
  <2>1. TracedTo(lineFile.line) /\ TracedTo(startLine) /\ TracedTo(lineNum)
    BY <1>2, <1>3 DEF TraceOK
  <2>2. offered' = offered /\ inHand \subseteq inHand'
    BY <1>3
  <2>3. TracedTo(lineFile.line)' /\ TracedTo(startLine)'
    BY <1>3, <1>5, <2>1, <2>2 DEF TracedTo, Traced
  <2>4. \A l \in 1..lineNum : Traced(l)'
    BY <2>1, <2>2 DEF TracedTo, Traced
  <2>5. up' = "line" => TracedTo(lineNum - 1)'
    BY <1>4, <2>4 DEF TracedTo
  <2>6. up' = "saving" => TracedTo(lineNum)'
    <3>1. SUFFICES ASSUME up' = "saving", NEW l \in 1..lineNum' PROVE Traced(l)'
      BY DEF TracedTo
    <3>2. l \in 1..lineNum \/ l = lineNum'
      BY <1>2, <1>3
    <3>3. lineNum' \in inHand'
      BY <1>3, <3>1
    <3>4. QED
      BY <2>4, <3>2, <3>3 DEF Traced
  <2>7. QED
    BY <1>3, <2>3, <2>5, <2>6 DEF TraceOK
<1>8. DumpOK'
  BY <1>2, <1>3 DEF DumpOK
<1>9. QED
  BY <1>5, <1>6, <1>7, <1>8 DEF RInv

(* A line that is not skipped is traced from here on, queued or not.         *)
LEMMA Submits == ASSUME RInv, SubmitLine PROVE RInv'
<1>1. NumLines \in Nat
  BY ResumeAssumption
<1>2. FilesOK /\ ScannerOK /\ TraceOK /\ DumpOK
  BY DEF RInv
<1>3. /\ up = "line" /\ up' = "next"
      /\ UNCHANGED <<afterSave, lineNum, startLine, lineFile, bloomFile, runs, inHand, clean>>
      /\ IF Skips THEN UNCHANGED <<filter, waiting, offered, pushed>>
         ELSE /\ offered' = offered \union {lineNum} /\ filter' = filter \union {lineNum}
              /\ IF lineNum \in filter \/ ended THEN UNCHANGED <<waiting, pushed>>
                 ELSE waiting' = waiting \union {lineNum} /\ pushed' = [pushed EXCEPT ![lineNum] = @ + 1]
  BY DEF SubmitLine, fileVars
<1>4. lineNum \in 1..NumLines /\ lineNum \in Lines /\ startLine \in 0..NumLines /\ runs # 0
  BY <1>1, <1>2, <1>3 DEF ScannerOK, Lines
<1>5. /\ pushed' \in [Lines -> Nat] /\ filter \subseteq filter'
      /\ \A l \in Lines : pushed'[l] = pushed[l] \/ (l \notin filter /\ l \in filter' /\ pushed'[l] = pushed[l] + 1)
  BY <1>2, <1>3, <1>4 DEF ScannerOK
<1>6. FilesOK'
  BY <1>2, <1>3 DEF FilesOK
<1>7. ScannerOK'
  <2>1. filter' \subseteq Lines /\ waiting' \subseteq filter' /\ offered' \subseteq Lines
    BY <1>2, <1>3, <1>4 DEF ScannerOK
  <2>2. QED
    BY <1>2, <1>3, <1>4, <1>5, <2>1 DEF ScannerOK
<1>8. TraceOK'
  <2>1. TracedTo(lineFile.line) /\ TracedTo(startLine) /\ TracedTo(lineNum - 1)
    BY <1>2, <1>3 DEF TraceOK
  <2>2. inHand' = inHand /\ offered \subseteq offered'
    BY <1>3
  <2>3. TracedTo(lineFile.line)' /\ TracedTo(startLine)'
    BY <1>3, <2>1, <2>2 DEF TracedTo, Traced
  <2>4. Traced(lineNum)'
    <3>1. CASE Skips
      BY <1>3, <1>4, <2>3, <3>1 DEF Skips, TracedTo
    <3>2. CASE ~Skips
      BY <1>3, <3>2 DEF Traced
    <3>3. QED
      BY <3>1, <3>2
  <2>5. TracedTo(lineNum)'
    <3>1. SUFFICES ASSUME NEW l \in 1..lineNum PROVE Traced(l)'
      BY <1>3 DEF TracedTo
    <3>2. l \in 1..lineNum - 1 \/ l = lineNum
      BY <1>4
    <3>3. QED
      BY <1>3, <2>1, <2>2, <2>4, <3>2 DEF TracedTo, Traced
  <2>6. QED
    BY <1>3, <2>3, <2>5 DEF TraceOK
<1>9. DumpOK'
  <2> SUFFICES ASSUME clean, NEW l \in Lines PROVE pushed'[l] <= 1 /\ (pushed'[l] > 0 => l \in filter')
    BY <1>3 DEF DumpOK
  <2>1. pushed[l] \in Nat /\ pushed[l] <= 1 /\ (pushed[l] > 0 => l \in filter)
    BY <1>2, <1>3 DEF DumpOK, ScannerOK
  <2>2. QED
    BY <1>5, <2>1
<1>10. QED
  BY <1>6, <1>7, <1>8, <1>9 DEF RInv

-----------------------------------------------------------------------------
(* The saves: the line the scanner has passed, and the filter as it is.      *)
LEMMA Saves == ASSUME RInv, Cancelled \/ SaveLine \/ saveBloomResumeState PROVE RInv'
<1>1. FilesOK /\ ScannerOK /\ TraceOK /\ DumpOK
  BY DEF RInv
<1>2. UNCHANGED <<lineNum, startLine, filter, waiting, runs, offered, inHand, pushed, clean>>
  BY DEF Cancelled, SaveLine, saveBloomResumeState, historyVars
<1>3. lineNum \in 0..NumLines /\ filter \in SUBSET Lines
  BY <1>1 DEF ScannerOK
<1>4. FilesOK' /\ (lineFile'.line = lineFile.line \/ (up = "saving" /\ lineFile'.line = lineNum))
  <2>1. CASE Cancelled
    BY <1>1, <2>1 DEF Cancelled, FilesOK
  <2>2. CASE SaveLine
    BY <1>1, <1>3, <2>2 DEF SaveLine, SavedLine, FilesOK
  <2>3. CASE saveBloomResumeState
    <3>1. lineFile' = lineFile
      BY <2>3 DEF saveBloomResumeState
    <3>2. bloomFile' \in [set : BOOLEAN, torn : BOOLEAN, seen : SUBSET Lines]
      <4>1. \/ bloomFile' = [bloomFile EXCEPT !.set = TRUE, !.torn = TRUE]
            \/ bloomFile' = [set |-> TRUE, torn |-> FALSE, seen |-> filter]
        BY <2>3 DEF saveBloomResumeState
      <4>2. bloomFile \in [set : BOOLEAN, torn : BOOLEAN, seen : SUBSET Lines]
        BY <1>1 DEF FilesOK
      <4>3. CASE bloomFile' = [bloomFile EXCEPT !.set = TRUE, !.torn = TRUE]
        BY <4>2, <4>3
      <4>4. CASE bloomFile' = [set |-> TRUE, torn |-> FALSE, seen |-> filter]
        BY <1>3, <4>4
      <4>5. QED
        BY <4>1, <4>3, <4>4
    <3>3. QED
      BY <1>1, <3>1, <3>2 DEF FilesOK
  <2>4. QED
    BY <2>1, <2>2, <2>3
<1>5. /\ up \in {"next", "saving", "dump", "dumping"} /\ up' \in {"saving", "line", "dump", "dumping", "exit"}
      /\ afterSave' \in {"line", "dump", "exit"} /\ runs # 0
      /\ up' = "saving" => afterSave' = "dump"
      /\ up' = "line" => up = "saving" /\ afterSave = "line"
      /\ up' = "exit" => bloomFile'.seen = filter
  BY <1>1 DEF Cancelled, SaveLine, saveBloomResumeState, ScannerOK
<1>6. ScannerOK'
  BY <1>1, <1>2, <1>5 DEF ScannerOK
<1>7. TraceOK'
  <2>1. TracedTo(lineFile.line) /\ TracedTo(startLine) /\ TracedTo(lineNum)
    BY <1>1, <1>5 DEF TraceOK
  <2>2. TracedTo(lineNum - 1)
    BY <1>3, <2>1 DEF TracedTo
  <2>3. \A l : Traced(l)' = Traced(l)
    BY <1>2 DEF Traced
  <2>4. QED
    BY <1>2, <1>4, <2>1, <2>2, <2>3 DEF TraceOK, TracedTo
<1>8. DumpOK'
  BY <1>1, <1>2, <1>5 DEF DumpOK
<1>9. QED
  BY <1>4, <1>6, <1>7, <1>8 DEF RInv

(* The ends of a scan, the worker and the signal leave lines and files.      *)
LEMMA Ends == ASSUME RInv, ScanEnds \/ Exit \/ Crash \/ Work \/ Interrupt \/ UNCHANGED resumeVars PROVE RInv'
<1>1. FilesOK /\ ScannerOK /\ TraceOK /\ DumpOK
  BY DEF RInv
<1>2. /\ UNCHANGED <<afterSave, lineNum, startLine, filter, lineFile, bloomFile, runs, offered, inHand, pushed>>
      /\ waiting' \subseteq waiting
      /\ \/ up' = up /\ clean' = clean
         \/ up' = "down" /\ clean' = FALSE
         \/ up = "exit" /\ up' = "down" /\ clean' = clean
  BY DEF ScanEnds, Exit, Crash, Work, Interrupt, resumeVars, fileVars, historyVars
<1>3. FilesOK'
  BY <1>1, <1>2 DEF FilesOK
<1>4. ScannerOK'
  BY <1>1, <1>2 DEF ScannerOK
<1>5. TraceOK'
  BY <1>1, <1>2 DEF TraceOK, TracedTo, Traced
<1>6. DumpOK'
  BY <1>1, <1>2 DEF DumpOK
<1>7. QED
  BY <1>3, <1>4, <1>5, <1>6 DEF RInv

(* Every step of the scanner, the worker, the user and the crash.            *)
LEMMA ResumeInvStep == RInv /\ [ResumeNext]_resumeVars => RInv'
BY Starts, Reads, Submits, Saves, Ends DEF ResumeNext

(* At the end of the list the last line read is the last line.               *)
LEMMA ResumeInvImpliesSound == RInv => ResumeSound
<1> SUFFICES ASSUME RInv PROVE ResumeSound
  OBVIOUS
<1>1. NumLines \in Nat
  BY ResumeAssumption
<1>2. ResumeTypeOK
  BY <1>1 DEF RInv, FilesOK, ScannerOK, ResumeTypeOK
<1>3. ResumeMissesNothing
  BY DEF RInv, TraceOK, TracedTo, Traced, ResumeMissesNothing, Lines
<1>4. ResumeExactlyOnce
  BY DEF RInv, DumpOK, ResumeExactlyOnce
<1>5. QED
  BY <1>2, <1>3, <1>4 DEF ResumeSound

(* The inductive invariant of the resume files and the scanner that writes   *)
(* them, pkg/engine/engine_resume.go.                                        *)
THEOREM ResumeInvariant == ResumeSafety => []RInv
BY ResumeInvInit, ResumeInvStep, PTL DEF ResumeSafety

(* However often a scan is interrupted, killed between two writes and        *)
(* resumed: a scan that reads the list to its end leaves out no line but one *)
(* an earlier scan handed to Submit or a periodic save named too early, and  *)
(* after graceful stops only no line is queued twice (engine_resume.go,      *)
(* StartWordlistScanner).                                                    *)
THEOREM ResumeIsSound == ResumeSafety => []ResumeSound
BY ResumeInvariant, ResumeInvImpliesSound, PTL

-----------------------------------------------------------------------------
(* The way of a result.                                                      *)
PipeSafety == PipeInit /\ [][PipeNext]_pipeVars

-----------------------------------------------------------------------------
Results == Hits \union SideHits
GivenUp == {r \in Results : sender[r] = "lost"}

SendersOK == sender \in [Results -> {"todo", "done", "lost"}] /\ logTodo \subseteq Logs
ChannelsOK ==
    /\ results \in Seq(Results) /\ logs \in Seq(Logs)
    /\ Len(results) <= ResultsCap /\ Len(logs) <= LogCap
ReaderOK ==
    /\ written \in Seq(Results) /\ tuiCh \in Seq(Results) /\ inFan \in Seq(Results)
    /\ Len(tuiCh) <= TuiCap /\ tuiDropped \in Nat
    /\ fan \in {"run", "show", "end"} /\ (fan = "show" => inFan # <<>>)
    /\ shutPc \in {"idle", "cancelled", "logs", "done"} /\ screen \in {"run", "quit", "end"}

(* A result that was sent is in the channel or in the file, at one place.    *)
PlaceOK ==
    /\ \A r \in Results : sender[r] = "done" <=> r \in Range(results) \/ r \in Range(written)
    /\ Range(results) \intersect Range(written) = {}
    /\ IsInjective(results) /\ IsInjective(written)

(* Results is closed when nobody can send any more, and the reader ends when *)
(* it is closed and empty.                                                   *)
ClosedOK ==
    /\ resultsShut <=> shutPc = "done"
    /\ shutPc \in {"logs", "done"} => AllSent
    /\ fan = "end" => resultsShut /\ results = <<>>
    /\ screen = "end" => fan = "end"

(* A result is counted as dropped before the channel or after the file.      *)
Showing == IF fan = "show" THEN 1 ELSE 0
DroppedOK == tuiDropped + Showing <= Cardinality(GivenUp) + Len(written)

PInv == SendersOK /\ ChannelsOK /\ ReaderOK /\ PlaceOK /\ ClosedOK /\ DroppedOK

-----------------------------------------------------------------------------
(* What Append adds to a sequence without repetitions.                       *)
LEMMA Appended ==
  ASSUME NEW S, NEW s \in Seq(S), NEW x \in S
  PROVE  /\ Append(s, x) \in Seq(S) /\ Len(Append(s, x)) = Len(s) + 1
         /\ Range(Append(s, x)) = Range(s) \union {x}
         /\ (IsInjective(s) /\ x \notin Range(s) => IsInjective(Append(s, x)))
<1>1. /\ Append(s, x) \in Seq(S) /\ Len(Append(s, x)) = Len(s) + 1 /\ Len(s) \in Nat
      /\ \A i \in 1..Len(s) : Append(s, x)[i] = s[i]
      /\ Append(s, x)[Len(s) + 1] = x
      /\ DOMAIN s = 1..Len(s) /\ DOMAIN Append(s, x) = 1..(Len(s) + 1)
  OBVIOUS
<1>2. Range(Append(s, x)) \subseteq Range(s) \union {x}
  BY <1>1 DEF Range
<1>3. Range(s) \union {x} \subseteq Range(Append(s, x))
  <2>1. Len(s) + 1 \in 1..(Len(s) + 1) /\ \A i \in 1..Len(s) : i \in 1..(Len(s) + 1)
    BY <1>1
  <2>2. x \in Range(Append(s, x))
    BY <1>1, <2>1 DEF Range
  <2>3. \A i \in 1..Len(s) : s[i] \in Range(Append(s, x))
    BY <1>1, <2>1 DEF Range
  <2>4. QED
    BY <1>1, <2>2, <2>3 DEF Range
<1>4. ASSUME IsInjective(s), x \notin Range(s) PROVE IsInjective(Append(s, x))
  <2> SUFFICES ASSUME NEW a \in 1..(Len(s) + 1), NEW b \in 1..(Len(s) + 1),
                      Append(s, x)[a] = Append(s, x)[b], a # b
               PROVE  FALSE
    BY <1>1 DEF IsInjective
  <2>1. \A i \in 1..Len(s) : s[i] # x
    BY <1>1, <1>4 DEF Range
  <2>2. \A i \in 1..(Len(s) + 1) : i \in 1..Len(s) \/ i = Len(s) + 1
    BY <1>1
  <2>3. CASE a \in 1..Len(s) /\ b \in 1..Len(s)
    BY <1>1, <1>4, <2>3 DEF IsInjective
  <2>4. QED
    BY <1>1, <2>1, <2>2, <2>3
<1>5. QED
  BY <1>1, <1>2, <1>3, <1>4

(* What Tail takes off a sequence without repetitions.                       *)
LEMMA TakenOff ==
  ASSUME NEW S, NEW s \in Seq(S), s # <<>>
  PROVE  /\ Head(s) \in S /\ Tail(s) \in Seq(S) /\ Len(Tail(s)) = Len(s) - 1 /\ Len(s) \in Nat
         /\ Range(s) = Range(Tail(s)) \union {Head(s)}
         /\ (IsInjective(s) => IsInjective(Tail(s)) /\ Head(s) \notin Range(Tail(s)))
<1>1. /\ Head(s) \in S /\ Tail(s) \in Seq(S) /\ Len(Tail(s)) = Len(s) - 1
      /\ Len(s) \in Nat /\ Len(s) > 0 /\ Head(s) = s[1]
      /\ \A i \in 1..(Len(s) - 1) : Tail(s)[i] = s[i + 1]
      /\ DOMAIN s = 1..Len(s) /\ DOMAIN Tail(s) = 1..(Len(s) - 1)
  OBVIOUS
<1>2. /\ \A i \in 1..(Len(s) - 1) : i + 1 \in 1..Len(s)
      /\ \A i \in 1..Len(s) : i = 1 \/ (i - 1 \in 1..(Len(s) - 1) /\ (i - 1) + 1 = i)
      /\ 1 \in 1..Len(s)
  BY <1>1
<1>3. Range(Tail(s)) \union {Head(s)} \subseteq Range(s)
  BY <1>1, <1>2 DEF Range
<1>4. Range(s) \subseteq Range(Tail(s)) \union {Head(s)}
  <2> SUFFICES ASSUME NEW i \in 1..Len(s), i # 1 PROVE s[i] \in Range(Tail(s))
    BY <1>1 DEF Range
  <2>1. i - 1 \in 1..(Len(s) - 1) /\ Tail(s)[i - 1] = s[i]
    BY <1>1, <1>2
  <2>2. QED
    BY <1>1, <2>1 DEF Range
<1>5. ASSUME IsInjective(s) PROVE IsInjective(Tail(s)) /\ Head(s) \notin Range(Tail(s))
  <2>1. ASSUME NEW a \in 1..(Len(s) - 1), NEW b \in 1..(Len(s) - 1), Tail(s)[a] = Tail(s)[b]
        PROVE  a = b
    <3>1. s[a + 1] = s[b + 1] /\ a + 1 \in 1..Len(s) /\ b + 1 \in 1..Len(s)
      BY <1>1, <1>2, <2>1
    <3>2. a + 1 = b + 1
      BY <1>1, <1>5, <3>1 DEF IsInjective
    <3>3. QED
      BY <3>2
  <2>2. ASSUME NEW a \in 1..(Len(s) - 1) PROVE Tail(s)[a] # Head(s)
    <3>1. a + 1 \in 1..Len(s) /\ a + 1 # 1
      BY <1>2
    <3>2. s[a + 1] # s[1]
      BY <1>1, <1>2, <1>5, <3>1 DEF IsInjective
    <3>3. QED
      BY <1>1, <3>2
  <2>3. QED
    BY <1>1, <2>1, <2>2 DEF IsInjective, Range
<1>6. QED
  BY <1>1, <1>3, <1>4, <1>5

(* Results that were given up can be counted.                                *)
LEMMA GivenUpFinite == IsFiniteSet(GivenUp) /\ Cardinality(GivenUp) \in Nat
                       /\ Cardinality(GivenUp) <= Cardinality(Results) /\ Cardinality(Results) \in Nat
<1>1. IsFiniteSet(Results)
  BY PipeAssumption, FS_Union DEF Results
<1>2. GivenUp \in SUBSET Results
  BY DEF GivenUp
<1>3. QED
  BY <1>1, <1>2, FS_Subset, FS_CardinalityType

-----------------------------------------------------------------------------
(* At the start nothing was sent.                                            *)
LEMMA PipeInvInit == PipeInit => PInv
<1> SUFFICES ASSUME PipeInit PROVE PInv
  OBVIOUS
<1>1. Range(results) = {} /\ Range(written) = {} /\ IsInjective(results) /\ IsInjective(written)
  BY DEF PipeInit, Range, IsInjective
<1>2. SendersOK /\ ChannelsOK /\ ReaderOK
  BY PipeAssumption DEF PipeInit, SendersOK, ChannelsOK, ReaderOK, Results
<1>3. PlaceOK
  BY <1>1 DEF PipeInit, PlaceOK, Results
<1>4. ClosedOK
  BY DEF PipeInit, ClosedOK
<1>5. DroppedOK
  BY GivenUpFinite DEF PipeInit, DroppedOK, Showing
<1>6. QED
  BY <1>2, <1>3, <1>4, <1>5 DEF PInv

(* A result that nobody sent yet enters the channel.                         *)
LEMMA Sends ==
  ASSUME PInv, NEW r \in Results, sender[r] = "todo", Send(r),
         UNCHANGED <<tuiMode, logTodo, ctxDone, resultsShut, logs, logsShut, shutPc, outVars>>
  PROVE  PInv'
<1>1. /\ results' = Append(results, r) /\ sender' = [sender EXCEPT ![r] = "done"]
      /\ Len(results) < ResultsCap
      /\ UNCHANGED <<tuiDropped, logTodo, resultsShut, logs, shutPc, tuiCh, fan, inFan, screen, written>>
  BY DEF Send, outVars
<1>2. /\ r \notin Range(results) /\ r \notin Range(written)
      /\ results \in Seq(Results) /\ IsInjective(results) /\ sender \in [Results -> {"todo", "done", "lost"}]
  BY DEF PInv, SendersOK, ChannelsOK, PlaceOK
<1>3. /\ results' \in Seq(Results) /\ Len(results') = Len(results) + 1
      /\ Range(results') = Range(results) \union {r} /\ IsInjective(results')
  BY <1>1, <1>2, Appended
<1>4. \A q \in Results : sender'[q] = IF q = r THEN "done" ELSE sender[q]
  BY <1>1, <1>2
<1>5. SendersOK' /\ ReaderOK'
  BY <1>1, <1>2 DEF PInv, SendersOK, ReaderOK
<1>6. ChannelsOK'
  BY <1>1, <1>2, <1>3, PipeAssumption DEF PInv, ChannelsOK
<1>7. PlaceOK'
  <2>1. \A q \in Results : sender'[q] = "done" <=> q \in Range(results') \/ q \in Range(written')
    BY <1>1, <1>3, <1>4 DEF PInv, PlaceOK
  <2>2. Range(results') \intersect Range(written') = {}
    BY <1>1, <1>2, <1>3 DEF PInv, PlaceOK
  <2>3. IsInjective(written')
    BY <1>1 DEF PInv, PlaceOK
  <2>4. QED
    BY <1>3, <2>1, <2>2, <2>3 DEF PlaceOK
<1>8. ClosedOK'
  <2>1. ~AllSent
    BY DEF AllSent, Results
  <2>2. ~resultsShut /\ shutPc \notin {"logs", "done"} /\ fan # "end" /\ screen # "end"
    BY <2>1 DEF PInv, ClosedOK
  <2>3. QED
    BY <1>1, <2>2 DEF PInv, ClosedOK
<1>9. DroppedOK'
  <2>1. GivenUp' = GivenUp
    BY <1>4 DEF GivenUp
  <2>2. QED
    BY <1>1, <2>1 DEF PInv, DroppedOK, Showing
<1>10. QED
  BY <1>5, <1>6, <1>7, <1>8, <1>9 DEF PInv

(* A result is given up, and perhaps counted as dropped.                     *)
LEMMA GivesUp ==
  ASSUME PInv, NEW r \in Results, sender[r] = "todo", sender' = [sender EXCEPT ![r] = "lost"],
         tuiDropped' \in {tuiDropped, tuiDropped + 1}, UNCHANGED results,
         UNCHANGED <<tuiMode, logTodo, ctxDone, resultsShut, logs, logsShut, shutPc, outVars>>
  PROVE  PInv'
<1>1. UNCHANGED <<logTodo, results, resultsShut, logs, shutPc, tuiCh, fan, inFan, screen, written>>
  BY DEF outVars
<1>2. /\ sender \in [Results -> {"todo", "done", "lost"}] /\ tuiDropped \in Nat /\ Len(written) \in Nat
      /\ Showing \in Nat /\ Showing' = Showing
  BY <1>1 DEF PInv, SendersOK, ReaderOK, Showing
<1>3. \A q \in Results : sender'[q] = IF q = r THEN "lost" ELSE sender[q]
  BY <1>2
<1>4. SendersOK' /\ ChannelsOK'
  BY <1>1, <1>2 DEF PInv, SendersOK, ChannelsOK
<1>5. ReaderOK'
  <2>1. tuiDropped' \in Nat
    BY <1>2
  <2>2. QED
    BY <1>1, <2>1 DEF PInv, ReaderOK
<1>6. PlaceOK'
  <2>1. \A q \in Results : sender'[q] = "done" <=> sender[q] = "done"
    BY <1>3
  <2>2. QED
    BY <1>1, <2>1 DEF PInv, PlaceOK
<1>7. ClosedOK'
  <2>1. ~AllSent
    BY DEF AllSent, Results
  <2>2. ~resultsShut /\ shutPc \notin {"logs", "done"} /\ fan # "end" /\ screen # "end"
    BY <2>1 DEF PInv, ClosedOK
  <2>3. QED
    BY <1>1, <2>2 DEF PInv, ClosedOK
<1>8. DroppedOK'
  <2>1. GivenUp' = GivenUp \union {r} /\ r \notin GivenUp
    BY <1>3 DEF GivenUp
  <2>2. Cardinality(GivenUp') = Cardinality(GivenUp) + 1
    BY <2>1, GivenUpFinite, FS_AddElement
  <2>3. tuiDropped' <= tuiDropped + 1
    BY <1>2
  <2>4. written' = written
    BY <1>1
  <2>5. tuiDropped + Showing <= Cardinality(GivenUp) + Len(written)
    BY DEF PInv, DroppedOK
  <2>6. tuiDropped' + Showing' <= Cardinality(GivenUp') + Len(written')
    <3>1. tuiDropped' \in Nat
      BY <1>2
    <3>2. QED
      BY <1>2, <2>2, <2>3, <2>4, <2>5, <3>1, GivenUpFinite
  <2>7. QED
    BY <2>6 DEF DroppedOK
<1>9. QED
  BY <1>4, <1>5, <1>6, <1>7, <1>8 DEF PInv

(* A log event moves to its channel or is dropped; no result is touched.     *)
LEMMA EmitsLog == ASSUME PInv, emitLogEvent PROVE PInv'
<1>1. PICK l \in logTodo :
        /\ logTodo' = logTodo \ {l}
        /\ logs' = IF ~logsShut /\ Len(logs) < LogCap THEN Append(logs, l) ELSE logs
        /\ UNCHANGED <<sender, results, resultsShut, shutPc, tuiCh, fan, inFan, screen, written, tuiDropped>>
  BY DEF emitLogEvent, outVars
<1>2. l \in Logs /\ logs \in Seq(Logs) /\ Len(logs) <= LogCap /\ LogCap \in Nat
  BY PipeAssumption DEF PInv, SendersOK, ChannelsOK
<1>3. logs' \in Seq(Logs) /\ Len(logs') <= LogCap
  <2>1. CASE logs' = logs
    BY <1>2, <2>1
  <2>2. CASE logs' = Append(logs, l) /\ Len(logs) < LogCap
    BY <1>2, <2>2, Appended
  <2>3. QED
    BY <1>1, <2>1, <2>2
<1>4. SendersOK' /\ ChannelsOK' /\ ReaderOK'
  BY <1>1, <1>3 DEF PInv, SendersOK, ChannelsOK, ReaderOK
<1>5. PlaceOK' /\ ClosedOK' /\ DroppedOK'
  BY <1>1 DEF PInv, PlaceOK, ClosedOK, AllSent, DroppedOK, Showing, GivenUp
<1>6. QED
  BY <1>4, <1>5 DEF PInv

(* The reader writes a result to the file before anything else happens to it. *)
LEMMA ReadsResult == ASSUME PInv, FanResult PROVE PInv'
<1>1. /\ fan = "run" /\ results # <<>> /\ results' = Tail(results)
      /\ written' = Append(written, Head(results))
      /\ UNCHANGED <<sender, logTodo, resultsShut, logs, shutPc, tuiCh, screen, tuiDropped>>
  BY DEF FanResult, engineVars
<1>2. (fan' = "show" /\ inFan' = <<Head(results)>>) \/ (fan' = fan /\ inFan' = inFan)
  BY DEF FanResult
<1>3. /\ results \in Seq(Results) /\ written \in Seq(Results) /\ Len(results) <= ResultsCap
      /\ IsInjective(results) /\ IsInjective(written)
      /\ Range(results) \intersect Range(written) = {}
  BY DEF PInv, ChannelsOK, ReaderOK, PlaceOK
<1>4. /\ Head(results) \in Results /\ results' \in Seq(Results)
      /\ Len(results') = Len(results) - 1 /\ Len(results) \in Nat
      /\ Range(results) = Range(results') \union {Head(results)}
      /\ IsInjective(results') /\ Head(results) \notin Range(results')
  BY <1>1, <1>3, TakenOff
<1>5. Head(results) \notin Range(written)
  BY <1>3, <1>4
<1>6. /\ written' \in Seq(Results) /\ Len(written') = Len(written) + 1
      /\ Range(written') = Range(written) \union {Head(results)} /\ IsInjective(written')
  BY <1>1, <1>3, <1>4, <1>5, Appended
<1>7. SendersOK' /\ ChannelsOK'
  BY <1>1, <1>3, <1>4, PipeAssumption DEF PInv, SendersOK, ChannelsOK
<1>8. ReaderOK'
  <2>1. CASE fan' = "show" /\ inFan' = <<Head(results)>>
    <3>1. inFan' \in Seq(Results) /\ inFan' # <<>>
      BY <1>4, <2>1
    <3>2. QED
      BY <1>1, <1>6, <2>1, <3>1 DEF PInv, ReaderOK
  <2>2. CASE fan' = fan /\ inFan' = inFan
    BY <1>1, <1>6, <2>2 DEF PInv, ReaderOK
  <2>3. QED
    BY <1>2, <2>1, <2>2
<1>9. PlaceOK'
  <2>1. \A q \in Results : sender'[q] = "done" <=> q \in Range(results') \/ q \in Range(written')
    BY <1>1, <1>4, <1>6 DEF PInv, PlaceOK
  <2>2. Range(results') \intersect Range(written') = {}
    BY <1>3, <1>4, <1>6
  <2>3. QED
    BY <1>4, <1>6, <2>1, <2>2 DEF PlaceOK
<1>10. ClosedOK'
  <2>1. fan' # "end"
    BY <1>1, <1>2
  <2>2. screen # "end"
    BY <1>1 DEF PInv, ClosedOK
  <2>3. QED
    BY <1>1, <2>1, <2>2 DEF PInv, ClosedOK, AllSent
<1>11. DroppedOK'
  <2>1. Showing = 0 /\ Showing' \in 0..1
    BY <1>1 DEF Showing
  <2>2. tuiDropped \in Nat /\ Len(written) \in Nat
    BY <1>3 DEF PInv, ReaderOK
  <2>3. tuiDropped <= Cardinality(GivenUp) + Len(written)
    BY <2>1, <2>2 DEF PInv, DroppedOK
  <2>4. GivenUp' = GivenUp /\ tuiDropped' = tuiDropped
    BY <1>1 DEF GivenUp
  <2>5. tuiDropped' + Showing' <= Cardinality(GivenUp') + Len(written')
    BY <1>6, <2>1, <2>2, <2>3, <2>4, GivenUpFinite
  <2>6. QED
    BY <2>5 DEF DroppedOK
<1>12. QED
  BY <1>7, <1>8, <1>9, <1>10, <1>11 DEF PInv

(* A result already in the file reaches the screen's channel or is counted.  *)
LEMMA Shows == ASSUME PInv, FanShow PROVE PInv'
<1>1. /\ fan = "show" /\ fan' = "run" /\ inFan' = <<>>
      /\ UNCHANGED <<sender, logTodo, results, resultsShut, logs, shutPc, screen, written>>
  BY DEF FanShow, engineVars, channelVars
<1>2. \/ Len(tuiCh) < TuiCap /\ tuiCh' = Append(tuiCh, Head(inFan)) /\ tuiDropped' = tuiDropped
      \/ tuiDropped' = tuiDropped + 1 /\ tuiCh' = tuiCh
  BY DEF FanShow
<1>3. /\ tuiCh \in Seq(Results) /\ inFan \in Seq(Results) /\ inFan # <<>> /\ Len(tuiCh) <= TuiCap
      /\ tuiDropped \in Nat /\ written \in Seq(Results)
  BY <1>1 DEF PInv, ReaderOK
<1>4. Head(inFan) \in Results
  BY <1>3, TakenOff
<1>5. /\ tuiCh' \in Seq(Results) /\ Len(tuiCh') <= TuiCap
      /\ tuiDropped' \in Nat /\ tuiDropped' <= tuiDropped + 1
  <2>1. CASE Len(tuiCh) < TuiCap /\ tuiCh' = Append(tuiCh, Head(inFan)) /\ tuiDropped' = tuiDropped
    <3>1. tuiCh' \in Seq(Results) /\ Len(tuiCh') = Len(tuiCh) + 1 /\ Len(tuiCh) \in Nat
      BY <1>3, <1>4, <2>1, Appended
    <3>2. QED
      BY <1>3, <2>1, <3>1, PipeAssumption
  <2>2. CASE tuiDropped' = tuiDropped + 1 /\ tuiCh' = tuiCh
    BY <1>3, <2>2
  <2>3. QED
    BY <1>2, <2>1, <2>2
<1>6. SendersOK' /\ ChannelsOK'
  BY <1>1 DEF PInv, SendersOK, ChannelsOK
<1>7. ReaderOK'
  <2>1. inFan' \in Seq(Results)
    BY <1>1
  <2>2. QED
    BY <1>1, <1>5, <2>1 DEF PInv, ReaderOK
<1>8. PlaceOK' /\ ClosedOK'
  BY <1>1 DEF PInv, PlaceOK, ClosedOK, AllSent
<1>9. DroppedOK'
  <2>1. Showing = 1 /\ Showing' = 0 /\ GivenUp' = GivenUp
    BY <1>1 DEF Showing, GivenUp
  <2>2. tuiDropped + 1 <= Cardinality(GivenUp) + Len(written) /\ Len(written) \in Nat
    BY <1>3, <2>1 DEF PInv, DroppedOK
  <2>3. written' = written
    BY <1>1
  <2>4. tuiDropped' + Showing' <= Cardinality(GivenUp') + Len(written')
    BY <1>3, <1>5, <2>1, <2>2, <2>3, GivenUpFinite
  <2>5. QED
    BY <2>4 DEF DroppedOK
<1>10. QED
  BY <1>6, <1>7, <1>8, <1>9 DEF PInv

(* The reader drains the log channel between results.                        *)
LEMMA ReadsLog == ASSUME PInv, FanLog PROVE PInv'
<1>1. /\ logs # <<>> /\ logs' = Tail(logs)
      /\ UNCHANGED <<sender, logTodo, results, resultsShut, shutPc, tuiCh, fan, inFan, screen, written, tuiDropped>>
  BY DEF FanLog, engineVars, outVars
<1>2. logs' \in Seq(Logs) /\ Len(logs') <= LogCap
  <2>1. logs \in Seq(Logs) /\ Len(logs) <= LogCap /\ LogCap \in Nat
    BY PipeAssumption DEF PInv, ChannelsOK
  <2>2. logs' \in Seq(Logs) /\ Len(logs') = Len(logs) - 1 /\ Len(logs) \in Nat
    BY <1>1, <2>1, TakenOff
  <2>3. QED
    BY <2>1, <2>2
<1>3. SendersOK' /\ ChannelsOK' /\ ReaderOK'
  BY <1>1, <1>2 DEF PInv, SendersOK, ChannelsOK, ReaderOK
<1>4. PlaceOK' /\ ClosedOK' /\ DroppedOK'
  BY <1>1 DEF PInv, PlaceOK, ClosedOK, AllSent, DroppedOK, Showing, GivenUp
<1>5. QED
  BY <1>3, <1>4 DEF PInv

(* The reader ends when Results is closed and empty.                         *)
LEMMA ReaderEnds == ASSUME PInv, FanEnd PROVE PInv'
<1>1. /\ fan = "run" /\ fan' = "end" /\ resultsShut /\ results = <<>>
      /\ UNCHANGED <<sender, logTodo, results, resultsShut, logs, shutPc, tuiCh, inFan, screen, written, tuiDropped>>
  BY DEF FanEnd, FanMayEnd, engineVars, channelVars
<1>2. SendersOK' /\ ChannelsOK' /\ ReaderOK'
  BY <1>1 DEF PInv, SendersOK, ChannelsOK, ReaderOK
<1>3. PlaceOK' /\ ClosedOK'
  BY <1>1 DEF PInv, PlaceOK, ClosedOK, AllSent
<1>4. DroppedOK'
  BY <1>1 DEF PInv, DroppedOK, Showing, GivenUp
<1>5. QED
  BY <1>2, <1>3, <1>4 DEF PInv

(* Shutdown closes Results after everybody who sends has ended.              *)
LEMMA Shuts ==
  ASSUME PInv,
         \/ /\ shutPc = "idle" /\ shutPc' = "cancelled" /\ UNCHANGED resultsShut
         \/ /\ shutPc = "cancelled" /\ AllSent /\ shutPc' = "logs" /\ UNCHANGED resultsShut
         \/ /\ shutPc = "logs" /\ shutPc' = "done" /\ resultsShut' = TRUE,
         UNCHANGED <<sender, logTodo, results, logs, outVars, tuiDropped>>
  PROVE  PInv'
<1>1. UNCHANGED <<sender, logTodo, results, logs, tuiCh, fan, inFan, screen, written, tuiDropped>>
  BY DEF outVars
<1>2. SendersOK' /\ ChannelsOK' /\ ReaderOK'
  BY <1>1 DEF PInv, SendersOK, ChannelsOK, ReaderOK
<1>3. PlaceOK' /\ DroppedOK'
  BY <1>1 DEF PInv, PlaceOK, DroppedOK, Showing, GivenUp
<1>4. ClosedOK'
  BY <1>1 DEF PInv, ClosedOK, AllSent
<1>5. QED
  BY <1>2, <1>3, <1>4 DEF PInv

(* The screen is quit, reads its channel, or ends after the reader.          *)
LEMMA ScreenMoves ==
  ASSUME PInv,
         \/ screen' = "quit" /\ screen = "run" /\ UNCHANGED tuiCh
         \/ screen' = "end" /\ fan = "end" /\ UNCHANGED tuiCh
         \/ tuiCh # <<>> /\ tuiCh' = Tail(tuiCh) /\ UNCHANGED screen,
         UNCHANGED <<engineVars, channelVars, shutPc, fan, inFan, written, tuiDropped>>
  PROVE  PInv'
<1>1. UNCHANGED <<sender, logTodo, results, resultsShut, logs, shutPc, fan, inFan, written, tuiDropped>>
  BY DEF engineVars, channelVars
<1>2. tuiCh' \in Seq(Results) /\ Len(tuiCh') <= TuiCap
  <2>1. tuiCh \in Seq(Results) /\ Len(tuiCh) <= TuiCap /\ TuiCap \in Nat
    BY PipeAssumption DEF PInv, ReaderOK
  <2>2. CASE tuiCh' = tuiCh
    BY <2>1, <2>2
  <2>3. CASE tuiCh # <<>> /\ tuiCh' = Tail(tuiCh)
    <3>1. tuiCh' \in Seq(Results) /\ Len(tuiCh') = Len(tuiCh) - 1 /\ Len(tuiCh) \in Nat
      BY <2>1, <2>3, TakenOff
    <3>2. QED
      BY <2>1, <3>1
  <2>4. QED
    BY <2>2, <2>3
<1>3. SendersOK' /\ ChannelsOK' /\ ReaderOK'
  BY <1>1, <1>2 DEF PInv, SendersOK, ChannelsOK, ReaderOK
<1>4. PlaceOK' /\ DroppedOK'
  BY <1>1 DEF PInv, PlaceOK, DroppedOK, Showing, GivenUp
<1>5. ClosedOK'
  BY <1>1 DEF PInv, ClosedOK, AllSent
<1>6. QED
  BY <1>3, <1>4, <1>5 DEF PInv

(* Every step of senders, reader, screen and Shutdown.                       *)
LEMMA PipeInvStep == PInv /\ [PipeNext]_pipeVars => PInv'
<1> SUFFICES ASSUME PInv, [PipeNext]_pipeVars PROVE PInv'
  OBVIOUS
<1>1. ASSUME NEW r \in Hits \union SideHits, Sender(r) PROVE PInv'
  <2>1. r \in Results
    BY DEF Results
  <2>2. CASE handleResultWithContext(r)
    <3>1. CASE Send(r)
      BY <2>1, <2>2, <3>1, Sends DEF handleResultWithContext
    <3>2. CASE sender' = [sender EXCEPT ![r] = "lost"] /\ UNCHANGED <<results, tuiDropped>>
      BY <2>1, <2>2, <3>2, GivesUp DEF handleResultWithContext
    <3>3. QED
      BY <2>2, <3>1, <3>2 DEF handleResultWithContext
  <2>3. CASE handleResultNonBlocking(r)
    <3>1. CASE Send(r)
      BY <2>1, <2>3, <3>1, Sends DEF handleResultNonBlocking
    <3>2. CASE sender' = [sender EXCEPT ![r] = "lost"] /\ tuiDropped' = tuiDropped + 1 /\ UNCHANGED results
      BY <2>1, <2>3, <3>2, GivesUp DEF handleResultNonBlocking
    <3>3. QED
      BY <2>3, <3>1, <3>2 DEF handleResultNonBlocking
  <2>4. QED
    BY <1>1, <2>2, <2>3 DEF Sender
<1>2. ASSUME NEW by \in BOOLEAN, ShutdownCancel(by) PROVE PInv'
  BY <1>2, Shuts DEF ShutdownCancel, engineVars, channelVars
<1>3. CASE ShutdownClose
  BY <1>3, Shuts DEF ShutdownClose, engineVars
<1>4. CASE RunReturns
  BY <1>4, ScreenMoves DEF RunReturns, Finished
<1>5. CASE QuitScreen
  BY <1>5, ScreenMoves DEF QuitScreen
<1>6. CASE ScreenRead
  BY <1>6, ScreenMoves DEF ScreenRead
<1>7. CASE Reader
  BY <1>7, ReadsResult, Shows, ReadsLog, ReaderEnds DEF Reader
<1>8. CASE ShutdownCancel(WaitDone \/ screen = "quit")
  BY <1>2, <1>8 DEF ShutdownCancel, WaitDone
<1>9. CASE UNCHANGED pipeVars
  BY <1>9 DEF pipeVars, PInv, SendersOK, ChannelsOK, ReaderOK, PlaceOK, ClosedOK, AllSent,
              DroppedOK, Showing, GivenUp
<1>10. QED
  BY <1>1, <1>2, <1>3, <1>4, <1>5, <1>6, <1>7, <1>8, <1>9, EmitsLog DEF PipeNext, Stopper

(* An empty closed channel leaves every sent result to the file, and a file  *)
(* without repetitions is no longer than there are results.                  *)
LEMMA PipeInvImpliesSound == PInv => PipeSound
<1> SUFFICES ASSUME PInv PROVE PipeSound
  OBVIOUS
<1>1. /\ written \in Seq(Results) /\ IsInjective(written) /\ tuiDropped \in Nat /\ Showing \in Nat
      /\ Len(written) \in Nat /\ DOMAIN written = 1..Len(written)
  BY DEF PInv, ReaderOK, PlaceOK, Showing
<1>2. Len(written) <= Cardinality(Results)
  <2>1. written \in [1..Len(written) -> Results]
    BY <1>1
  <2>2. written \in Injection(1..Len(written), Results)
    BY <1>1, <2>1 DEF Injection, IsInjective
  <2>3. IsFiniteSet(Results)
    BY PipeAssumption, FS_Union DEF Results
  <2>4. Cardinality(1..Len(written)) <= Cardinality(Results)
    BY <2>2, <2>3, FS_Injection
  <2>5. Cardinality(1..Len(written)) = Len(written)
    BY <1>1, FS_Interval
  <2>6. QED
    BY <2>4, <2>5
<1>3. tuiDropped \in 0..(2 * Cardinality(Results))
  <2>1. tuiDropped + Showing <= Cardinality(GivenUp) + Len(written)
    BY DEF PInv, DroppedOK
  <2>2. QED
    BY <1>1, <1>2, <2>1, GivenUpFinite
<1>4. PipeTypeOK
  BY <1>3 DEF PInv, ChannelsOK, ReaderOK, PipeTypeOK, Results
<1>5. PipeWritesAll
  <2> SUFFICES ASSUME screen = "end" PROVE Range(written) = {r \in Hits \union SideHits : sender[r] = "done"}
    BY <1>1 DEF PipeWritesAll
  <2>1. results = <<>>
    BY DEF PInv, ClosedOK
  <2>2. Range(results) = {}
    BY <2>1 DEF Range
  <2>3. Range(written) \subseteq Results
    BY <1>1 DEF Range
  <2>4. QED
    BY <2>2, <2>3 DEF PInv, PlaceOK, Results
<1>6. QED
  BY <1>4, <1>5 DEF PipeSound

(* The inductive invariant of the way of a result, pkg/engine/worker.go and  *)
(* cmd/dirfuzz/scan.go.                                                      *)
THEOREM PipeInvariant == PipeSafety => []PInv
<1>1. QED
  BY PipeInvInit, PipeInvStep, PTL DEF PipeSafety

(* However the user, the duration limit and the end of the scan race: the file *)
(* holds what entered the Results channel, each result once, when runPlain or *)
(* runTUI returns, whether or not anybody looked at the screen, and TUIDropped *)
(* stays within its bound (handleResultWithContext, Shutdown, runTUI).       *)
THEOREM PipeIsSound == PipeSafety => []PipeSound
BY PipeInvariant, PipeInvImpliesSound, PTL

-----------------------------------------------------------------------------
(* The discovery graph: a forest whose edges, indexes and log agree with its *)
(* nodes, and the jobs that harvests and feedback make of them.              *)
GraphSafety == GraphInit /\ [][GraphNext]_graphVars


Sources == SourceTypes \union {"response"}
Actions == {"paramfuzz", "validation"}
Node ==
    [kind : {"source", "path"}, path : Paths \union {NoPath}, src : Sources, parent : Nat,
     children : SUBSET Nat, confidence : 0..100, risk : 0..100, priority : Nat,
     derived : 0..MaxDerivedJobsPerNode, feedback : 0..MaxFeedbackActionsPerNode,
     hash : Seq(Responses)]
GraphJob == [type : {"discovery", "other"} \union Actions, path : Paths,
             method : Methods \union {"GET", NoMethod}, node : Nat, run : Nat]

(* A parent is older than its children, and each edge is known at both ends. *)
NodesOK ==
    /\ nodes \in Seq(Node)
    /\ \A id \in DOMAIN nodes :
          /\ nodes[id].kind = "source" <=> nodes[id].path = NoPath
          /\ nodes[id].parent < id
          /\ nodes[id].children = {c \in DOMAIN nodes : nodes[c].parent = id}

Signature(n) == <<n.parent, n.path, n.src>>
(* No node stands for an excluded path.                                      *)
AllowedOK == \A id \in DOMAIN nodes : nodes[id].path \in (Paths \ Excluded) \union {NoPath}

SignaturesOK ==
    /\ \A id \in DOMAIN nodes : /\ Signature(nodes[id]) \in DOMAIN bySignature
                                /\ bySignature[Signature(nodes[id])] = id
    /\ \A sig \in DOMAIN bySignature : /\ bySignature[sig] \in DOMAIN nodes
                                       /\ Signature(nodes[bySignature[sig]]) = sig
PathsOK ==
    /\ byPath \in [Paths -> Seq(Nat)]
    /\ \A p \in Paths : /\ Range(byPath[p]) = {id \in DOMAIN nodes : nodes[id].path = p}
                        /\ IsInjective(byPath[p])

(* Events name nodes, and the log keeps to its length.                       *)
Kinds == {"node_added", "action_created", "response_observed"}
EventsOK == events \in Seq(Kinds \X Nat) /\ Len(events) <= MaxEvents

(* A job of the graph asks for the path of its node, in a run that has       *)
(* begun; a feedback job answers the response to an earlier request for that *)
(* node.  A job of another submitter has no node.                            *)
Fits(job) == /\ job \in GraphJob /\ job.method \in {"GET", NoMethod}
             /\ job.node \in DOMAIN nodes /\ nodes[job.node].path = job.path
             /\ job.run \in 0..runID
Asked(id) == \E job \in answered : job.node = id /\ job.method = "GET"
JobsOK ==
    /\ toSubmit \in [Workers -> Seq(GraphJob)]
    /\ \A w \in Workers : \A i \in DOMAIN toSubmit[w] :
          /\ Fits(toSubmit[w][i])
          /\ toSubmit[w][i].method = NoMethod => Asked(toSubmit[w][i].node)
    /\ \A job \in answered : /\ job \in GraphJob /\ job.run \in 0..runID
                             /\ job.node # None => Fits(job) /\ Asked(job.node)

(* The filter admits one job for a key in a run, and holds the keys of this  *)
(* run's jobs; only a cancelled scan leaves a key of no job in it.           *)
Marked(key, run) == \E job \in answered : FilterKey(job) = key /\ job.run = run
FilterOK ==
    /\ runID \in 0..MaxRestarts /\ restarting \in BOOLEAN /\ scanCancelled \in BOOLEAN
    /\ restarting => runID > 0
    /\ \A job \in answered : /\ job.run <= FilterRun
                             /\ job.run = FilterRun => FilterKey(job) \in submitted
    /\ \A key \in submitted : scanCancelled \/ Marked(key, FilterRun)
    /\ \A a, b \in answered : FilterKey(a) = FilterKey(b) /\ a.run = b.run => a = b

(* What Submit let go was seen, of another run, or cancelled.                *)
LetGoOK ==
    \A d \in letGo :
        \/ d[2] = "seen" /\ (scanCancelled \/ Marked(FilterKey(d[1]), d[1].run))
        \/ d[2] = "run" /\ runID > 0
        \/ d[2] = "cancelled" /\ scanCancelled

(* Only the response to a request for a node gives a path node children.     *)
ParentsOK ==
    \A id \in DOMAIN nodes : nodes[id].kind = "path" /\ nodes[id].children # {} => Asked(id)

(* A follow-up in the history is in a worker's hands, in the queue, or was   *)
(* let go.                                                                   *)
Followed(id) ==
    \/ \E job \in answered : job.node = id /\ job.method = NoMethod
    \/ \E d \in letGo : d[1].node = id
InFlight(id) ==
    \E w \in Workers : \E i \in DOMAIN toSubmit[w] :
        toSubmit[w][i].node = id /\ toSubmit[w][i].method = NoMethod
FeedbackOK ==
    \A h \in history : h[2] = "validation_feedback" =>
        h[1] \in DOMAIN nodes /\ (Followed(h[1]) \/ InFlight(h[1]))

GInv == /\ NodesOK /\ AllowedOK /\ SignaturesOK /\ PathsOK /\ EventsOK
        /\ JobsOK /\ FilterOK /\ LetGoOK /\ ParentsOK /\ FeedbackOK

-----------------------------------------------------------------------------
(* Facts about the operators of the graph.                                   *)
LEMMA EventsKept ==
  ASSUME NEW E, NEW log \in Seq(E), NEW kind, NEW id, <<kind, id>> \in E, NEW count \in Nat
  PROVE  /\ AddEvents(log, kind, id, count) \in Seq(E)
         /\ Len(AddEvents(log, kind, id, count)) <= MaxEvents
<1> DEFINE e == <<kind, id>>
           added == [i \in 1..count |-> e]
           grown == log \o added
<1>1. MaxEvents \in Nat /\ MaxEvents > 0
  <2> USE GraphAssumption
  <2>1. MaxEvents \in Nat \ {0}
    OBVIOUS
  <2>2. QED
    BY <2>1
<1>2. e \in E
  OBVIOUS
<1> HIDE DEF e
<1>3. added \in Seq(E)
  BY <1>2
<1> HIDE DEF added
<1>4. grown \in Seq(E) /\ Len(grown) \in Nat
  BY <1>3
<1>5. AddEvents(log, kind, id, count) =
        IF Len(grown) > MaxEvents THEN SubSeq(grown, Len(grown) - MaxEvents + 1, Len(grown)) ELSE grown
  BY DEF AddEvents, added, e
<1> HIDE DEF grown
<1>6. CASE Len(grown) > MaxEvents
  <2>1. Len(grown) - MaxEvents + 1 \in 1..Len(grown) /\ Len(grown) \in 1..Len(grown)
    BY <1>1, <1>4, <1>6
  <2>2. /\ SubSeq(grown, Len(grown) - MaxEvents + 1, Len(grown)) \in Seq(E)
        /\ Len(SubSeq(grown, Len(grown) - MaxEvents + 1, Len(grown))) = MaxEvents
    BY <1>1, <1>4, <2>1
  <2>3. QED
    BY <1>1, <1>5, <1>6, <2>2
<1>7. CASE ~(Len(grown) > MaxEvents)
  BY <1>1, <1>4, <1>5, <1>7
<1>8. QED
  BY <1>6, <1>7

(* A new node has a priority within the range.                               *)
LEMMA PriorityKept == \A path, src : CalculatePriority(path, src) \in 0..100
<1> TAKE path, src
<1>1. GetEvidenceQuality(src) \in {95, 70, 20, 10}
  BY DEF GetEvidenceQuality
<1>2. GetEvidenceQuality(src) \div 2 \in Int
  BY <1>1
<1>3. \A x \in Int : Clamp(x, 0, 100) \in 0..100
  BY DEF Clamp
<1>4. (IF src \in {"javascript", "openapi", "graphql", "sourcemap"} THEN 30 ELSE 0)
          + GetEvidenceQuality(src) \div 2
          + (IF path \in Sensitive THEN 50 ELSE 0)
          - (IF path \in Static THEN 50 ELSE 0) \in Int
  BY <1>2
<1>5. QED
  BY <1>3, <1>4 DEF CalculatePriority

(* What AddSourceNode and AddPathNode make is a node, without children.      *)
LEMMA NewNodeTyped ==
  ASSUME NEW kind \in {"source", "path"}, NEW path \in Paths \union {NoPath}, NEW src \in Sources,
         NEW parent \in Nat
  PROVE  /\ NewNode(kind, path, src, parent) \in Node
         /\ NewNode(kind, path, src, parent).kind = kind
         /\ NewNode(kind, path, src, parent).path = path
         /\ NewNode(kind, path, src, parent).src = src
         /\ NewNode(kind, path, src, parent).parent = parent
         /\ NewNode(kind, path, src, parent).children = {}
         /\ NewNode(kind, path, src, parent).derived = 0
<1> DEFINE prio == CalculatePriority(path, src)
<1>1. prio \in 0..100
  BY PriorityKept
<1>2. prio \in Nat
  BY <1>1
<1>3. <<>> \in Seq(Responses)
  OBVIOUS
<1>4. 0 \in 0..100
  OBVIOUS
<1> HIDE DEF prio
<1>5. NewNode(kind, path, src, parent) =
        [kind |-> kind, path |-> path, src |-> src, parent |-> parent, children |-> {},
         confidence |-> 0, risk |-> 0, priority |-> prio, derived |-> 0, feedback |-> 0, hash |-> <<>>]
  BY DEF NewNode, prio
<1>6. QED
  BY <1>2, <1>3, <1>4, <1>5 DEF NewNode, Node, MaxDerivedJobsPerNode, MaxFeedbackActionsPerNode

(* A node wants one follow-up at the most, so that the count stays bounded.  *)
LEMMA FewFollowUps ==
  ASSUME NEW n \in Node, NEW id
  PROVE  /\ EvaluateNode(n, id) \subseteq Actions
         /\ EvaluateNode(n, id) = {} \/ \E t \in Actions : EvaluateNode(n, id) = {t}
         /\ Cardinality(EvaluateNode(n, id)) \in Nat
         /\ n.derived + Cardinality(EvaluateNode(n, id)) \in 0..MaxDerivedJobsPerNode
<1>1. \E t \in Actions : Wanted(n) \subseteq {t}
  BY DEF Wanted, Actions
<1>2. EvaluateNode(n, id) \subseteq Wanted(n)
  BY DEF EvaluateNode
<1>3. EvaluateNode(n, id) = {} \/ \E t \in Actions : EvaluateNode(n, id) = {t}
  BY <1>1, <1>2
<1>4. /\ Cardinality(EvaluateNode(n, id)) \in 0..1
      /\ EvaluateNode(n, id) = {} => Cardinality(EvaluateNode(n, id)) = 0
  <2> DEFINE types == EvaluateNode(n, id)
  <2>1. types = {} \/ \E t : types = {t}
    BY <1>3
  <2> HIDE DEF types
  <2>2. CASE types = {}
    <3>1. Cardinality(types) = 0
      BY <2>2, FS_EmptySet
    <3>2. QED
      BY <3>1 DEF types
  <2>3. CASE \E t : types = {t}
    <3>1. Cardinality(types) = 1 /\ types # {}
      BY <2>3, FS_Singleton
    <3>2. QED
      BY <3>1 DEF types
  <2>4. QED
    BY <2>1, <2>2, <2>3
<1>5. n.derived \in 0..5
  BY DEF Node, MaxDerivedJobsPerNode
<1>6. n.derived >= 5 => EvaluateNode(n, id) = {}
  BY DEF EvaluateNode, MaxDerivedJobsPerNode
<1>7. n.derived + Cardinality(EvaluateNode(n, id)) \in 0..5
  <2>1. CASE n.derived >= 5
    BY <1>4, <1>5, <1>6, <2>1
  <2>2. CASE ~(n.derived >= 5)
    BY <1>4, <1>5, <2>2
  <2>3. QED
    BY <2>1, <2>2
<1>8. QED
  BY <1>3, <1>4, <1>7 DEF MaxDerivedJobsPerNode

(* A finite set as a sequence.                                               *)
LEMMA Listed ==
  ASSUME NEW S, IsFiniteSet(S)
  PROVE  SetToSeq(S) \in Seq(S)
<1>1. Cardinality(S) \in Nat /\ ExistsBijection(1..Cardinality(S), S)
  BY FS_CardinalityType
<1>2. PICK f \in [1..Cardinality(S) -> S] : IsInjective(f)
  BY <1>1 DEF ExistsBijection, Bijection, Injection
<1>3. SetToSeq(S) \in [1..Cardinality(S) -> S]
  BY <1>2 DEF SetToSeq
<1>4. QED
  BY <1>1, <1>3

JobsFor(id, path, run) ==
    {j \in GraphJob : j.node = id /\ j.path = path /\ j.method = "GET" /\ j.run = run}

(* The jobs of a harvested path ask for that path.                           *)
LEMMA HarvestJobsFit ==
  ASSUME NEW id \in Nat, NEW path \in Paths, NEW run \in Nat, NEW types,
         types = {} \/ \E t \in Actions : types = {t}
  PROVE  HarvestJobs(id, path, types, run) \in Seq(JobsFor(id, path, run))
<1> DEFINE follow == {Job(t, path, "GET", id, run) : t \in types}
<1>1. Job("discovery", path, "GET", id, run) \in JobsFor(id, path, run)
  BY DEF Job, JobsFor, GraphJob
<1>2. types \subseteq Actions
  OBVIOUS
<1>3. follow \subseteq JobsFor(id, path, run)
  <2> SUFFICES ASSUME NEW t \in types PROVE Job(t, path, "GET", id, run) \in JobsFor(id, path, run)
    OBVIOUS
  <2>1. t \in {"discovery", "other"} \union Actions
    BY <1>2
  <2>2. QED
    BY <2>1 DEF Job, JobsFor, GraphJob
<1>4. IsFiniteSet(follow)
  <2>1. follow = {} \/ \E x : follow = {x}
    OBVIOUS
  <2>2. QED
    BY <2>1, FS_EmptySet, FS_Singleton, ZenonT(60)
<1>5. SetToSeq(follow) \in Seq(follow)
  BY <1>4, Listed
<1>6. SetToSeq(follow) \in Seq(JobsFor(id, path, run))
  BY <1>3, <1>5
<1>7. <<Job("discovery", path, "GET", id, run)>> \in Seq(JobsFor(id, path, run))
  BY <1>1
<1>8. <<Job("discovery", path, "GET", id, run)>> \o SetToSeq(follow) \in Seq(JobsFor(id, path, run))
  BY <1>6, <1>7
<1>9. QED
  BY <1>8 DEF HarvestJobs

-----------------------------------------------------------------------------
(* A node that is scored keeps its place in the graph.                       *)
SameTree(n, m) ==
    n.kind = m.kind /\ n.path = m.path /\ n.src = m.src /\ n.parent = m.parent /\ n.children = m.children

(* IDs are positions, so that the empty parent 0 is no node.                 *)
LEMMA NodesAre ==
  ASSUME NodesOK
  PROVE  /\ DOMAIN nodes = 1..Len(nodes) /\ Len(nodes) \in Nat /\ None \notin DOMAIN nodes
         /\ \A id \in DOMAIN nodes : nodes[id] \in Node /\ id \in Nat
BY DEF NodesOK, None

(* Scores and counters leave the tree as it was,                             *)
LEMMA Rescored ==
  ASSUME NodesOK, NEW id \in DOMAIN nodes, NEW m \in Node, SameTree(m, nodes[id]),
         nodes' = [nodes EXCEPT ![id] = m]
  PROVE  /\ NodesOK' /\ DOMAIN nodes' = DOMAIN nodes
         /\ \A i \in DOMAIN nodes : SameTree(nodes'[i], nodes[i])
<1>1. DOMAIN nodes' = DOMAIN nodes /\ \A i \in DOMAIN nodes : nodes'[i] = IF i = id THEN m ELSE nodes[i]
  BY NodesAre
<1>2. nodes' \in Seq(Node)
  BY DEF NodesOK
<1>3. \A i \in DOMAIN nodes : SameTree(nodes'[i], nodes[i])
  BY <1>1 DEF SameTree
<1>4. ASSUME NEW i \in DOMAIN nodes'
      PROVE  /\ nodes'[i].kind = "source" <=> nodes'[i].path = NoPath
             /\ nodes'[i].parent < i
             /\ nodes'[i].children = {c \in DOMAIN nodes' : nodes'[c].parent = i}
  <2>1. \A c \in DOMAIN nodes : nodes'[c].parent = nodes[c].parent
    BY <1>3 DEF SameTree
  <2>2. {c \in DOMAIN nodes' : nodes'[c].parent = i} = {c \in DOMAIN nodes : nodes[c].parent = i}
    BY <1>1, <2>1
  <2>3. SameTree(nodes'[i], nodes[i])
    BY <1>1, <1>3
  <2>4. QED
    BY <1>1, <2>2, <2>3 DEF NodesOK, SameTree
<1>5. QED
  BY <1>1, <1>2, <1>3, <1>4 DEF NodesOK

(* and its indexes too.                                                      *)
LEMMA SameIndexes ==
  ASSUME SignaturesOK, PathsOK, DOMAIN nodes' = DOMAIN nodes,
         \A i \in DOMAIN nodes : SameTree(nodes'[i], nodes[i]),
         DOMAIN bySignature' = DOMAIN bySignature,
         \A s \in DOMAIN bySignature : bySignature'[s] = bySignature[s], UNCHANGED byPath
  PROVE  SignaturesOK' /\ PathsOK'
<1>1. \A i \in DOMAIN nodes : Signature(nodes'[i]) = Signature(nodes[i]) /\ nodes'[i].path = nodes[i].path
  BY DEF Signature, SameTree
<1>2. SignaturesOK'
  <2>1. ASSUME NEW i \in DOMAIN nodes'
        PROVE  Signature(nodes'[i]) \in DOMAIN bySignature' /\ bySignature'[Signature(nodes'[i])] = i
    BY <1>1 DEF SignaturesOK
  <2>2. ASSUME NEW s \in DOMAIN bySignature'
        PROVE  bySignature'[s] \in DOMAIN nodes' /\ Signature(nodes'[bySignature'[s]]) = s
    BY <1>1 DEF SignaturesOK
  <2>3. QED
    BY <2>1, <2>2 DEF SignaturesOK
<1>3. \A p \in Paths : {i \in DOMAIN nodes' : nodes'[i].path = p} = {i \in DOMAIN nodes : nodes[i].path = p}
  BY <1>1
<1>4. PathsOK'
  BY <1>3 DEF PathsOK
<1>5. QED
  BY <1>2, <1>4

(* A new node, recorded with its parent if it has one.                       *)
LEMMA Grown ==
  ASSUME NodesOK, NEW m \in Node, m.children = {}, m.parent \in {None} \union DOMAIN nodes,
         m.kind = "source" <=> m.path = NoPath,
         nodes' = LinkChild(Append(nodes, m), m.parent, Len(nodes) + 1)
  PROVE  /\ NodesOK' /\ DOMAIN nodes' = DOMAIN nodes \union {Len(nodes) + 1}
         /\ Len(nodes) + 1 \notin DOMAIN nodes /\ SameTree(nodes'[Len(nodes) + 1], m)
         /\ \A i \in DOMAIN nodes :
               /\ nodes'[i].kind = nodes[i].kind /\ nodes'[i].path = nodes[i].path
               /\ nodes'[i].src = nodes[i].src /\ nodes'[i].parent = nodes[i].parent
               /\ i # m.parent => nodes'[i].children = nodes[i].children
<1> DEFINE id == Len(nodes) + 1
           ns == Append(nodes, m)
<1>1. DOMAIN nodes = 1..Len(nodes) /\ Len(nodes) \in Nat /\ nodes \in Seq(Node)
  BY NodesAre DEF NodesOK
<1>2. /\ ns \in Seq(Node) /\ DOMAIN ns = 1..id /\ ns[id] = m
      /\ \A i \in DOMAIN nodes : ns[i] = nodes[i]
  BY <1>1
<1>3. 1..id = DOMAIN nodes \union {id} /\ id \notin DOMAIN nodes /\ id \in Nat
  BY <1>1
<1> HIDE DEF ns
<1>4. /\ nodes' \in Seq(Node) /\ DOMAIN nodes' = DOMAIN nodes \union {id}
      /\ \A i \in DOMAIN nodes \union {id} :
            /\ nodes'[i].kind = ns[i].kind /\ nodes'[i].path = ns[i].path
            /\ nodes'[i].src = ns[i].src /\ nodes'[i].parent = ns[i].parent
            /\ nodes'[i].children = IF i = m.parent THEN ns[i].children \union {id} ELSE ns[i].children
  <2>1. CASE m.parent \in DOMAIN ns
    <3> DEFINE q == m.parent
               linked == [ns[q] EXCEPT !.children = @ \union {id}]
    <3>1. ns[q] \in Node /\ q \in DOMAIN ns
      BY <1>2, <2>1
    <3>2. /\ linked \in Node /\ linked.children = ns[q].children \union {id}
          /\ linked.kind = ns[q].kind /\ linked.path = ns[q].path
          /\ linked.src = ns[q].src /\ linked.parent = ns[q].parent
      BY <1>3, <3>1 DEF Node
    <3>3. nodes' = [ns EXCEPT ![q] = linked]
      BY <2>1 DEF LinkChild, ns
    <3> HIDE DEF linked, q
    <3>4. nodes' \in Seq(Node) /\ DOMAIN nodes' = DOMAIN ns
      BY <1>2, <3>1, <3>2, <3>3
    <3>5. \A i \in DOMAIN ns : nodes'[i] = IF i = q THEN linked ELSE ns[i]
      BY <3>1, <3>3
    <3>6. QED
      BY <1>2, <1>3, <3>2, <3>4, <3>5 DEF q
  <2>2. CASE m.parent \notin DOMAIN ns
    <3>1. nodes' = ns
      BY <2>2 DEF LinkChild, ns
    <3>2. QED
      BY <1>2, <1>3, <2>2, <3>1
  <2>3. QED
    BY <2>1, <2>2
<1>5. m.parent # id /\ m.parent < id /\ \A i \in DOMAIN nodes : i < id
  BY <1>1, <1>3 DEF None
<1> HIDE DEF id
<1>6. ASSUME NEW i \in DOMAIN nodes
      PROVE  /\ nodes'[i].kind = nodes[i].kind /\ nodes'[i].path = nodes[i].path
             /\ nodes'[i].src = nodes[i].src /\ nodes'[i].parent = nodes[i].parent
             /\ nodes'[i].children = IF i = m.parent THEN nodes[i].children \union {id} ELSE nodes[i].children
  <2>1. ns[i] = nodes[i] /\ i \in DOMAIN nodes \union {id}
    BY <1>2
  <2>2. QED
    BY <1>4, <2>1, ZenonT(60)
<1>7. SameTree(nodes'[id], m)
  <2>1. ns[id] = m /\ id \in DOMAIN nodes \union {id} /\ id # m.parent
    BY <1>2, <1>5
  <2>2. QED
    BY <1>4, <2>1 DEF SameTree
<1>8. ASSUME NEW i \in DOMAIN nodes'
      PROVE  /\ nodes'[i].kind = "source" <=> nodes'[i].path = NoPath
             /\ nodes'[i].parent < i
             /\ nodes'[i].children = {c \in DOMAIN nodes' : nodes'[c].parent = i}
  <2>1. CASE i = id
    <3>1. /\ nodes'[i].kind = m.kind /\ nodes'[i].path = m.path /\ nodes'[i].parent = m.parent
          /\ nodes'[i].children = {}
      BY <1>7, <2>1 DEF SameTree
    <3>2. \A c \in DOMAIN nodes' : nodes'[c].parent # id
      <4>1. \A c \in DOMAIN nodes : nodes'[c].parent < c /\ c < id
        BY <1>5, <1>6 DEF NodesOK
      <4>2. \A c \in DOMAIN nodes : nodes'[c].parent \in Nat
        BY <1>6, NodesAre, ZenonT(60) DEF Node
      <4>3. \A c \in DOMAIN nodes : nodes'[c].parent # id
        BY <1>3, <4>1, <4>2, NodesAre
      <4>4. nodes'[id].parent # id
        BY <1>5, <2>1, <3>1
      <4>5. QED
        BY <1>4, <4>3, <4>4
    <3>3. QED
      BY <1>5, <2>1, <3>1, <3>2
  <2>2. CASE i \in DOMAIN nodes
    <3>1. /\ nodes'[i].kind = nodes[i].kind /\ nodes'[i].path = nodes[i].path
          /\ nodes'[i].parent = nodes[i].parent
          /\ nodes'[i].children = IF i = m.parent THEN nodes[i].children \union {id} ELSE nodes[i].children
      BY <1>6, <2>2
    <3>2. nodes[i].children = {c \in DOMAIN nodes : nodes[c].parent = i}
      BY <2>2 DEF NodesOK
    <3>3. \A c \in DOMAIN nodes : nodes'[c].parent = nodes[c].parent
      BY <1>6
    <3>4. nodes'[id].parent = m.parent
      BY <1>7 DEF SameTree
    <3>5. {c \in DOMAIN nodes' : nodes'[c].parent = i} =
             IF i = m.parent THEN nodes[i].children \union {id} ELSE nodes[i].children
      BY <1>4, <3>2, <3>3, <3>4
    <3>6. QED
      BY <2>2, <3>1, <3>5 DEF NodesOK
  <2>3. QED
    BY <1>4, <2>1, <2>2
<1>9. NodesOK'
  BY <1>4, <1>8 DEF NodesOK
<1>10. QED
  BY <1>3, <1>4, <1>6, <1>7, <1>9 DEF id

(* A new node whose signature is new is indexed by it.                       *)
LEMMA Signed ==
  ASSUME SignaturesOK, NEW id, NEW m, NEW sig, DOMAIN nodes' = DOMAIN nodes \union {id},
         id \notin DOMAIN nodes,
         SameTree(nodes'[id], m), sig = <<m.parent, m.path, m.src>>, sig \notin DOMAIN bySignature,
         \A i \in DOMAIN nodes : /\ nodes'[i].path = nodes[i].path /\ nodes'[i].src = nodes[i].src
                                 /\ nodes'[i].parent = nodes[i].parent,
         bySignature' = [s \in DOMAIN bySignature \union {sig} |-> IF s = sig THEN id ELSE bySignature[s]]
  PROVE  SignaturesOK'
<1>1. \A i \in DOMAIN nodes : Signature(nodes'[i]) = Signature(nodes[i])
  BY DEF Signature
<1>2. Signature(nodes'[id]) = sig
  BY DEF Signature, SameTree
<1>3. DOMAIN bySignature' = DOMAIN bySignature \union {sig} /\ bySignature'[sig] = id
  OBVIOUS
<1>4. \A s \in DOMAIN bySignature : bySignature'[s] = bySignature[s]
  OBVIOUS
<1>5. ASSUME NEW i \in DOMAIN nodes'
      PROVE  Signature(nodes'[i]) \in DOMAIN bySignature' /\ bySignature'[Signature(nodes'[i])] = i
  <2>1. CASE i = id
    BY <1>2, <1>3, <2>1
  <2>2. CASE i \in DOMAIN nodes
    BY <1>1, <1>3, <1>4, <2>2 DEF SignaturesOK
  <2>3. QED
    BY <2>1, <2>2
<1>6. ASSUME NEW s \in DOMAIN bySignature'
      PROVE  bySignature'[s] \in DOMAIN nodes' /\ Signature(nodes'[bySignature'[s]]) = s
  <2>1. CASE s = sig
    BY <1>2, <1>3, <2>1
  <2>2. CASE s \in DOMAIN bySignature
    <3>1. bySignature'[s] = bySignature[s] /\ bySignature[s] \in DOMAIN nodes
      BY <1>4, <2>2 DEF SignaturesOK
    <3>2. Signature(nodes'[bySignature[s]]) = Signature(nodes[bySignature[s]])
      BY <1>1, <3>1
    <3>3. QED
      BY <2>2, <3>1, <3>2 DEF SignaturesOK
  <2>3. QED
    BY <1>3, <2>1, <2>2
<1>7. QED
  BY <1>5, <1>6 DEF SignaturesOK

(* A new path node is listed under its path.                                 *)
LEMMA ListedByPath ==
  ASSUME PathsOK, NEW id \in Nat, NEW path \in Paths, id \notin DOMAIN nodes,
         DOMAIN nodes' = DOMAIN nodes \union {id}, nodes'[id].path = path,
         \A i \in DOMAIN nodes : nodes'[i].path = nodes[i].path,
         byPath' = [byPath EXCEPT ![path] = Append(@, id)]
  PROVE  PathsOK'
<1>1. byPath \in [Paths -> Seq(Nat)] /\ byPath[path] \in Seq(Nat) /\ IsInjective(byPath[path])
  BY DEF PathsOK
<1>2. id \notin Range(byPath[path])
  BY DEF PathsOK
<1>3. /\ Append(byPath[path], id) \in Seq(Nat)
      /\ Range(Append(byPath[path], id)) = Range(byPath[path]) \union {id}
      /\ IsInjective(Append(byPath[path], id))
  BY <1>1, <1>2, Appended
<1>4. byPath' \in [Paths -> Seq(Nat)]
  BY <1>1, <1>3
<1>5. ASSUME NEW p \in Paths
      PROVE  /\ Range(byPath'[p]) = {i \in DOMAIN nodes' : nodes'[i].path = p}
             /\ IsInjective(byPath'[p])
  <2>1. CASE p = path
    <3>1. byPath'[p] = Append(byPath[path], id)
      BY <1>1, <2>1
    <3>2. Range(byPath[path]) = {i \in DOMAIN nodes : nodes[i].path = path}
      BY DEF PathsOK
    <3>3. {i \in DOMAIN nodes' : nodes'[i].path = path} =
             {i \in DOMAIN nodes : nodes[i].path = path} \union {id}
      OBVIOUS
    <3>4. QED
      BY <1>3, <2>1, <3>1, <3>2, <3>3
  <2>2. CASE p # path
    <3>1. byPath'[p] = byPath[p]
      BY <1>1, <2>2
    <3>2. {i \in DOMAIN nodes' : nodes'[i].path = p} = {i \in DOMAIN nodes : nodes[i].path = p}
      BY <2>2
    <3>3. QED
      BY <3>1, <3>2 DEF PathsOK
  <2>3. QED
    BY <2>1, <2>2
<1>6. QED
  BY <1>4, <1>5 DEF PathsOK

-----------------------------------------------------------------------------
(* A worker that had no jobs gets some.                                      *)
Keeps == DOMAIN nodes \subseteq DOMAIN nodes' /\ \A i \in DOMAIN nodes : nodes'[i].path = nodes[i].path

LEMMA Handed ==
  ASSUME NodesOK, JobsOK, FilterOK, LetGoOK, FeedbackOK, Keeps,
         UNCHANGED <<answered, submitted, letGo, scanVars>>,
         NEW w \in Workers, toSubmit[w] = <<>>, NEW s \in Seq(GraphJob),
         toSubmit' = [toSubmit EXCEPT ![w] = s],
         \A i \in DOMAIN s : /\ s[i].node \in DOMAIN nodes' /\ nodes'[s[i].node].path = s[i].path
                             /\ s[i].method \in {"GET", NoMethod} /\ s[i].run \in 0..runID
                             /\ s[i].method = NoMethod => Asked(s[i].node),
         \A h \in history' : \/ h \in history
                             \/ h[2] # "validation_feedback"
                             \/ /\ h[1] \in DOMAIN nodes
                                /\ \E i \in DOMAIN s : s[i].node = h[1] /\ s[i].method = NoMethod
  PROVE  JobsOK' /\ FilterOK' /\ LetGoOK' /\ FeedbackOK'
<1>1. /\ toSubmit' \in [Workers -> Seq(GraphJob)] /\ toSubmit'[w] = s
      /\ \A v \in Workers : v # w => toSubmit'[v] = toSubmit[v]
  BY DEF JobsOK
<1>2. \A id : Asked(id)' <=> Asked(id)
  BY DEF Asked
<1>3. \A job : Fits(job) => Fits(job)'
  BY DEF Fits, Keeps, scanVars
<1>4. \A v \in Workers : \A i \in DOMAIN toSubmit'[v] : toSubmit'[v][i] \in GraphJob
  BY <1>1
<1>5. JobsOK'
  <2> DEFINE Good(job) == /\ job \in GraphJob /\ job.node \in DOMAIN nodes'
                          /\ nodes'[job.node].path = job.path
                          /\ job.method \in {"GET", NoMethod} /\ job.run \in 0..runID
                          /\ job.method = NoMethod => Asked(job.node)
  <2>1. ASSUME NEW v \in Workers, NEW i \in DOMAIN toSubmit'[v]
        PROVE  Good(toSubmit'[v][i])
    <3>1. CASE v = w
      <4>1. s[i] \in GraphJob /\ toSubmit'[v][i] = s[i] /\ i \in DOMAIN s
        BY <1>1, <1>4, <3>1
      <4>2. Good(s[i])
        BY <4>1
      <4> HIDE DEF Good
      <4>3. QED
        BY <4>1, <4>2
    <3>2. CASE v # w
      <4>1. toSubmit'[v][i] = toSubmit[v][i] /\ i \in DOMAIN toSubmit[v]
        BY <1>1, <3>2
      <4>2. Fits(toSubmit[v][i]) /\ (toSubmit[v][i].method = NoMethod => Asked(toSubmit[v][i].node))
        BY <4>1 DEF JobsOK
      <4>3. Good(toSubmit[v][i])
        BY <4>2 DEF Fits, Keeps
      <4> HIDE DEF Good
      <4>4. QED
        BY <4>1, <4>3
    <3>3. QED
      BY <3>1, <3>2
  <2>2. \A job \in answered' : /\ job \in GraphJob /\ job.run \in 0..runID
                                /\ job.node # None => Fits(job)' /\ Asked(job.node)'
    BY <1>2, <1>3 DEF JobsOK
  <2>3. QED
    BY <1>1, <2>1, <2>2 DEF JobsOK, Fits, Asked, scanVars
<1>6. FilterOK' /\ LetGoOK'
  BY DEF FilterOK, LetGoOK, FilterKey, FilterRun, Marked, scanVars
<1>7. FeedbackOK'
  <2> SUFFICES ASSUME NEW h \in history', h[2] = "validation_feedback"
               PROVE  h[1] \in DOMAIN nodes' /\ (Followed(h[1])' \/ InFlight(h[1])')
    BY DEF FeedbackOK, Followed, InFlight
  <2>1. CASE h \in history
    <3>1. h[1] \in DOMAIN nodes /\ h[1] \in DOMAIN nodes' /\ nodes'[h[1]].path = nodes[h[1]].path
      BY <2>1 DEF FeedbackOK, Keeps
    <3>2. CASE Followed(h[1])
      BY <3>1, <3>2 DEF Followed
    <3>3. CASE InFlight(h[1])
      <4>1. PICK v \in Workers : \E i \in DOMAIN toSubmit[v] :
               toSubmit[v][i].node = h[1] /\ toSubmit[v][i].method = NoMethod
        BY <3>3 DEF InFlight
      <4>2. v # w
        BY <4>1
      <4>3. toSubmit'[v] = toSubmit[v]
        BY <1>1, <4>2
      <4>4. QED
        BY <3>1, <4>1, <4>3 DEF InFlight
    <3>4. QED
      BY <2>1, <3>2, <3>3 DEF FeedbackOK
  <2>2. CASE h[1] \in DOMAIN nodes /\ \E i \in DOMAIN s : s[i].node = h[1] /\ s[i].method = NoMethod
    BY <1>1, <2>2 DEF InFlight, Keeps
  <2>3. QED
    BY <2>1, <2>2
<1>8. QED
  BY <1>5, <1>6, <1>7

(* A node keeps its children and its jobs, or gets a child of a node that    *)
(* was asked for or is a source.                                             *)
LEMMA ParentsKept ==
  ASSUME ParentsOK, NEW new, NEW p, DOMAIN nodes' \subseteq DOMAIN nodes \union {new},
         new \notin DOMAIN nodes => nodes'[new].children = {},
         \A i \in DOMAIN nodes : /\ nodes'[i].kind = nodes[i].kind
                                 /\ i # p => nodes'[i].children = nodes[i].children,
         p \in DOMAIN nodes => nodes[p].kind = "source" \/ Asked(p), answered \subseteq answered'
  PROVE  ParentsOK'
<1> SUFFICES ASSUME NEW i \in DOMAIN nodes', nodes'[i].kind = "path", nodes'[i].children # {}
             PROVE  Asked(i)'
  BY DEF ParentsOK, Asked
<1>1. i \in DOMAIN nodes /\ nodes[i].kind = "path"
  OBVIOUS
<1>2. Asked(i)
  BY <1>1 DEF ParentsOK
<1>3. QED
  BY <1>2 DEF Asked

-----------------------------------------------------------------------------
(* NewDiscoveryGraph makes an empty graph.                                   *)
LEMMA GraphInvInit == GraphInit => GInv
<1> SUFFICES ASSUME GraphInit PROVE GInv
  OBVIOUS
<1>1. nodes = <<>> /\ DOMAIN nodes = {} /\ DOMAIN bySignature = {} /\ nodes \in Seq(Node)
  BY DEF GraphInit
<1>2. NodesOK /\ AllowedOK /\ SignaturesOK /\ ParentsOK
  BY <1>1 DEF NodesOK, AllowedOK, SignaturesOK, ParentsOK
<1>3. PathsOK
  <2>1. Range(<<>>) = {} /\ IsInjective(<<>>) /\ <<>> \in Seq(Nat)
    BY DEF Range, IsInjective
  <2>2. byPath = [p \in Paths |-> <<>>]
    BY DEF GraphInit
  <2>3. byPath \in [Paths -> Seq(Nat)] /\ \A p \in Paths : byPath[p] = <<>>
    BY <2>1, <2>2
  <2>4. QED
    BY <1>1, <2>1, <2>3 DEF PathsOK
<1>4. EventsOK
  BY GraphAssumption DEF GraphInit, EventsOK
<1>5. JobsOK
  BY DEF GraphInit, JobsOK
<1>6. FilterOK /\ LetGoOK /\ FeedbackOK
  <2>1. /\ runID = 0 /\ restarting = FALSE /\ scanCancelled = FALSE /\ answered = {}
        /\ submitted = {} /\ letGo = {} /\ history = {} /\ 0 \in 0..MaxRestarts
    BY GraphAssumption DEF GraphInit
  <2> QED BY <2>1 DEF FilterOK, LetGoOK, FeedbackOK
<1>7. QED
  BY <1>2, <1>3, <1>4, <1>5, <1>6 DEF GInv

(* A source of the harvesters is a root.                                     *)
LEMMA SourceAdded == ASSUME GInv, NEW src \in SourceTypes, AddSourceNode(src) PROVE GInv'
<1> DEFINE id == Len(nodes) + 1
           m == NewNode("source", NoPath, src, None)
           sig == generateSignature(None, NoPath, src)
<1>1. /\ sig \notin DOMAIN bySignature /\ nodes' = Append(nodes, m)
      /\ bySignature' = [s \in DOMAIN bySignature \union {sig} |-> IF s = sig THEN id ELSE bySignature[s]]
      /\ events' = AddEvent(events, "node_added", id)
      /\ UNCHANGED <<byPath, history, toSubmit, submitted, answered, letGo, scanVars>>
  BY DEF AddSourceNode
<1>2. /\ m \in Node /\ m.kind = "source" /\ m.path = NoPath /\ m.src = src /\ m.parent = None
      /\ m.children = {}
  <2>1. "source" \in {"source", "path"} /\ NoPath \in Paths \union {NoPath} /\ src \in Sources /\ None \in Nat
    BY DEF Sources, None
  <2> HIDE DEF m
  <2>2. m = NewNode("source", NoPath, src, None)
    BY DEF m
  <2>3. m \in Node
    BY <2>1, <2>2, NewNodeTyped
  <2>4. m.kind = "source" /\ m.path = NoPath
    BY <2>1, <2>2, NewNodeTyped
  <2>5. m.src = src /\ m.parent = None /\ m.children = {}
    BY <2>1, <2>2, NewNodeTyped
  <2>6. QED
    BY <2>3, <2>4, <2>5
<1>3. /\ NodesOK /\ AllowedOK /\ SignaturesOK /\ PathsOK /\ JobsOK
      /\ FilterOK /\ LetGoOK /\ FeedbackOK /\ ParentsOK /\ EventsOK
  BY DEF GInv
<1>4. nodes \in Seq(Node) /\ DOMAIN nodes = 1..Len(nodes) /\ Len(nodes) \in Nat /\ id \in Nat
  BY <1>3, NodesAre DEF NodesOK
<1>5. sig = <<m.parent, m.path, m.src>>
  BY <1>2 DEF generateSignature
<1> HIDE DEF m, sig
<1>6. nodes' = LinkChild(Append(nodes, m), m.parent, Len(nodes) + 1)
  <2>1. None \notin DOMAIN Append(nodes, m)
    BY <1>2, <1>4 DEF None
  <2>2. QED
    BY <1>1, <1>2, <2>1 DEF LinkChild
<1>7. /\ NodesOK' /\ DOMAIN nodes' = DOMAIN nodes \union {id}
      /\ id \notin DOMAIN nodes /\ SameTree(nodes'[id], m)
      /\ \A i \in DOMAIN nodes :
            /\ nodes'[i].kind = nodes[i].kind /\ nodes'[i].path = nodes[i].path
            /\ nodes'[i].src = nodes[i].src /\ nodes'[i].parent = nodes[i].parent
            /\ i # m.parent => nodes'[i].children = nodes[i].children
  BY <1>2, <1>3, <1>6, Grown
<1>8. SignaturesOK'
  BY <1>1, <1>3, <1>5, <1>7, Signed
<1>9. PathsOK'
  <2>1. nodes'[id].path \notin Paths
    BY <1>2, <1>7, GraphAssumption DEF SameTree
  <2>2. \A p \in Paths : {i \in DOMAIN nodes' : nodes'[i].path = p} = {i \in DOMAIN nodes : nodes[i].path = p}
    BY <1>7, <2>1
  <2>3. QED
    BY <1>1, <1>3, <2>2 DEF PathsOK
<1>10. EventsOK'
  <2>1. "node_added" \in Kinds
    BY DEF Kinds
  <2> HIDE DEF id
  <2>2. <<"node_added", id>> \in Kinds \X Nat
    BY <1>4, <2>1
  <2>3. QED
    BY <1>1, <1>3, <2>2, EventsKept DEF AddEvent, EventsOK
<1>11. Keeps
  BY <1>7 DEF Keeps
<1>12. JobsOK' /\ FilterOK' /\ LetGoOK' /\ AllowedOK'
  <2>1. JobsOK'
    BY <1>1, <1>3, <1>11 DEF JobsOK, Fits, Asked, Keeps, scanVars
  <2>2. FilterOK' /\ LetGoOK'
    BY <1>1, <1>3 DEF FilterOK, LetGoOK, FilterKey, FilterRun, Marked, scanVars
  <2>3. AllowedOK'
    BY <1>2, <1>3, <1>7 DEF AllowedOK, SameTree
  <2> QED BY <2>1, <2>2, <2>3
<1>13. FeedbackOK'
  BY <1>1, <1>3, <1>11 DEF FeedbackOK, Followed, InFlight, Keeps
<1>14. ParentsOK'
  <2>1. nodes'[id].children = {} /\ m.parent \notin DOMAIN nodes /\ answered \subseteq answered'
    BY <1>1, <1>2, <1>3, <1>7, NodesAre DEF SameTree
  <2> HIDE DEF id
  <2>2. QED
    BY <1>3, <1>7, <2>1, ParentsKept
<1>15. QED
  BY <1>7, <1>8, <1>9, <1>10, <1>12, <1>13, <1>14 DEF GInv

(* A path from a document, or from the response to a request for the parent. *)
LEMMA PathAdded ==
  ASSUME GInv, NEW w \in Workers, toSubmit[w] = <<>>, NEW path \in Paths \ Excluded, NEW src \in Sources,
         NEW run \in 0..runID,
         NEW parent \in {None} \union DOMAIN nodes,
         parent \in DOMAIN nodes => nodes[parent].kind = "source" \/ Asked(parent),
         AddPathNode(w, parent, path, src, run)
  PROVE  GInv'
<1> DEFINE sig == generateSignature(parent, path, src)
           found == sig \in DOMAIN bySignature
           id == IF found THEN bySignature[sig] ELSE Len(nodes) + 1
           node == IF found THEN nodes[id] ELSE NewNode("path", path, src, parent)
           types == EvaluateNode(node, id)
           scored == [node EXCEPT !.derived = @ + Cardinality(types)]
           jobs == HarvestJobs(id, path, types, run)
           log == IF found THEN events ELSE AddEvent(events, "node_added", id)
<1>1. /\ nodes' = IF found THEN [nodes EXCEPT ![id] = scored]
                  ELSE LinkChild(Append(nodes, scored), parent, id)
      /\ bySignature' = [s \in DOMAIN bySignature \union {sig} |-> IF s = sig THEN id ELSE bySignature[s]]
      /\ byPath' = IF found THEN byPath ELSE [byPath EXCEPT ![path] = Append(@, id)]
      /\ history' = history \union {<<id, t>> : t \in types}
      /\ events' = AddEvents(log, "action_created", id, Cardinality(types))
      /\ toSubmit' = [toSubmit EXCEPT ![w] = jobs]
      /\ UNCHANGED <<submitted, answered, letGo, scanVars>>
  BY DEF AddPathNode
<1>2. /\ NodesOK /\ AllowedOK /\ SignaturesOK /\ PathsOK /\ JobsOK
      /\ FilterOK /\ LetGoOK /\ FeedbackOK /\ ParentsOK /\ EventsOK
  BY DEF GInv
<1>3. nodes \in Seq(Node) /\ DOMAIN nodes = 1..Len(nodes) /\ Len(nodes) \in Nat
  BY <1>2, NodesAre DEF NodesOK
<1>4. sig = <<parent, path, src>>
  BY DEF generateSignature
<1>5. /\ found => id \in DOMAIN nodes /\ Signature(nodes[id]) = sig /\ node = nodes[id]
      /\ ~found => id = Len(nodes) + 1 /\ node = NewNode("path", path, src, parent)
  BY <1>2 DEF SignaturesOK
<1>6. id \in Nat
  BY <1>3, <1>5
<1>7. parent \in Nat
  BY <1>3 DEF None
<1>8. /\ node \in Node /\ node.path = path /\ node.src = src /\ node.parent = parent
      /\ ~found => node.kind = "path" /\ node.children = {}
  <2>1. CASE found
    <3>1. nodes[id] \in Node
      BY <1>2, <1>5, <2>1, NodesAre
    <3>2. nodes[id].path = path /\ nodes[id].src = src /\ nodes[id].parent = parent
      BY <1>4, <1>5, <2>1 DEF Signature
    <3>3. QED
      BY <1>5, <2>1, <3>1, <3>2
  <2>2. CASE ~found
    <3>1. "path" \in {"source", "path"} /\ path \in Paths \union {NoPath}
      OBVIOUS
    <3> HIDE DEF node
    <3>2. node = NewNode("path", path, src, parent)
      BY <1>5, <2>2
    <3>3. node \in Node /\ node.path = path /\ node.kind = "path"
      BY <1>7, <3>1, <3>2, NewNodeTyped
    <3>4. node.src = src /\ node.parent = parent /\ node.children = {}
      BY <1>7, <3>1, <3>2, NewNodeTyped
    <3>5. QED
      BY <3>3, <3>4
  <2>3. QED
    BY <2>1, <2>2
<1> HIDE DEF sig, found, id, node
<1>9. types = {} \/ \E t \in Actions : types = {t}
  BY <1>8, FewFollowUps
<1>10. /\ types \subseteq Actions /\ Cardinality(types) \in Nat
       /\ node.derived + Cardinality(types) \in 0..MaxDerivedJobsPerNode
  BY <1>8, FewFollowUps
<1> HIDE DEF types
<1>11. scored \in Node /\ SameTree(scored, node)
  BY <1>8, <1>10 DEF Node, SameTree
<1> HIDE DEF scored
<1>12. /\ NodesOK' /\ AllowedOK' /\ SignaturesOK' /\ PathsOK' /\ ParentsOK' /\ Keeps
       /\ id \in DOMAIN nodes' /\ nodes'[id].path = path
  <2>1. CASE found
    <3>1. nodes' = [nodes EXCEPT ![id] = scored] /\ byPath' = byPath
      BY <1>1, <2>1
    <3>2. id \in DOMAIN nodes /\ SameTree(scored, nodes[id])
      BY <1>5, <1>11, <2>1
    <3>3. /\ NodesOK' /\ DOMAIN nodes' = DOMAIN nodes
          /\ \A i \in DOMAIN nodes : SameTree(nodes'[i], nodes[i])
      BY <1>2, <1>11, <3>1, <3>2, Rescored
    <3>4. DOMAIN bySignature' = DOMAIN bySignature
      BY <1>1, <2>1 DEF found
    <3>5. \A s \in DOMAIN bySignature : bySignature'[s] = bySignature[s]
      BY <1>1, <2>1 DEF found, id
    <3>6. SignaturesOK' /\ PathsOK'
      BY <1>2, <3>1, <3>3, <3>4, <3>5, SameIndexes
    <3>7. Keeps
      BY <3>3 DEF Keeps, SameTree
    <3>8. ParentsOK'
      BY <1>1, <1>2, <3>3 DEF ParentsOK, SameTree, Asked
    <3>9. nodes'[id].path = path
      BY <1>5, <1>8, <2>1, <3>2, <3>3 DEF SameTree
    <3>10. AllowedOK'
      BY <1>2, <3>3 DEF AllowedOK, SameTree
    <3>11. QED
      BY <3>2, <3>3, <3>6, <3>7, <3>8, <3>9, <3>10
  <2>2. CASE ~found
    <3>1. id = Len(nodes) + 1
      BY <1>5, <2>2
    <3>2. /\ scored.children = {} /\ scored.parent = parent /\ scored.path = path /\ scored.src = src
          /\ scored.kind = "path"
      BY <1>8, <1>11, <2>2 DEF SameTree
    <3>3. scored.kind = "source" <=> scored.path = NoPath
      BY <3>2, GraphAssumption
    <3>4. nodes' = LinkChild(Append(nodes, scored), scored.parent, Len(nodes) + 1)
      BY <1>1, <2>2, <3>1, <3>2
    <3>5. /\ NodesOK' /\ DOMAIN nodes' = DOMAIN nodes \union {id}
          /\ id \notin DOMAIN nodes /\ SameTree(nodes'[id], scored)
          /\ \A i \in DOMAIN nodes :
                /\ nodes'[i].kind = nodes[i].kind /\ nodes'[i].path = nodes[i].path
                /\ nodes'[i].src = nodes[i].src /\ nodes'[i].parent = nodes[i].parent
                /\ i # parent => nodes'[i].children = nodes[i].children
      BY <1>2, <1>11, <3>1, <3>2, <3>3, <3>4, Grown
    <3>6. SignaturesOK'
      <4>1. sig = <<scored.parent, scored.path, scored.src>> /\ sig \notin DOMAIN bySignature
        BY <1>4, <2>2, <3>2 DEF found
      <4>2. QED
        BY <1>1, <1>2, <3>5, <4>1, Signed
    <3>7. nodes'[id].path = path /\ nodes'[id].children = {}
      BY <3>2, <3>5 DEF SameTree
    <3>8. PathsOK'
      <4>1. byPath' = [byPath EXCEPT ![path] = Append(@, id)]
        BY <1>1, <2>2
      <4>2. QED
        BY <1>2, <1>6, <3>5, <3>7, <4>1, ListedByPath
    <3>9. Keeps
      BY <3>5 DEF Keeps
    <3>10. ParentsOK'
      <4>1. answered \subseteq answered'
        BY <1>1
      <4>2. QED
        BY <1>2, <3>5, <3>7, <4>1, ParentsKept
    <3>11. AllowedOK'
      BY <1>2, <3>5, <3>7 DEF AllowedOK
    <3>12. QED
      BY <3>5, <3>6, <3>7, <3>8, <3>9, <3>10, <3>11
  <2>3. QED
    BY <2>1, <2>2
<1>13. EventsOK'
  <2>1. "node_added" \in Kinds /\ "action_created" \in Kinds
    BY DEF Kinds
  <2>2. <<"node_added", id>> \in Kinds \X Nat /\ <<"action_created", id>> \in Kinds \X Nat
    BY <1>6, <2>1
  <2>3. AddEvent(events, "node_added", id) \in Seq(Kinds \X Nat)
    BY <1>2, <2>2, EventsKept DEF AddEvent, EventsOK
  <2>4. log \in Seq(Kinds \X Nat)
    BY <1>2, <2>3 DEF EventsOK
  <2> HIDE DEF log
  <2>5. QED
    BY <1>1, <1>10, <2>2, <2>4, EventsKept DEF EventsOK
<1>14. jobs \in Seq(JobsFor(id, path, run)) /\ run \in Nat
  BY <1>6, <1>9, HarvestJobsFit
<1> HIDE DEF jobs
<1>15. /\ jobs \in Seq(GraphJob)
       /\ \A i \in DOMAIN jobs : /\ jobs[i].node = id /\ jobs[i].path = path /\ jobs[i].run = run
                             /\ jobs[i].method # NoMethod /\ jobs[i].method = "GET"
  <2>1. \A j \in JobsFor(id, path, run) :
           /\ j \in GraphJob /\ j.node = id /\ j.path = path /\ j.run = run
           /\ j.method # NoMethod /\ j.method = "GET"
    BY DEF JobsFor, NoMethod
  <2>2. \A i \in DOMAIN jobs : jobs[i] \in JobsFor(id, path, run)
    BY <1>14
  <2>3. JobsFor(id, path, run) \subseteq GraphJob
    BY <2>1
  <2>4. jobs \in Seq(GraphJob)
    BY <1>14, <2>3
  <2>5. QED
    BY <2>1, <2>2, <2>4
<1>16. \A h \in history' : h \in history \/ h[2] # "validation_feedback"
  BY <1>1, <1>10 DEF Actions
<1>17. JobsOK' /\ FilterOK' /\ LetGoOK' /\ FeedbackOK'
  BY <1>1, <1>2, <1>12, <1>15, <1>16, Handed
<1>18. QED
  BY <1>12, <1>13, <1>17 DEF GInv

(* The filter takes the first job for a key, and swallows the later ones of  *)
(* its run.                                                                  *)
LEMMA JobSubmitted ==
  ASSUME GInv, NEW job \in GraphJob, job.run \in 0..runID,
         job.node # None => Fits(job) /\ (job.method = NoMethod => Asked(job.node)),
         SubmitJob(job), UNCHANGED <<nodes, bySignature, byPath, history, events, scanVars>>
  PROVE  /\ NodesOK' /\ AllowedOK' /\ SignaturesOK' /\ PathsOK' /\ EventsOK'
         /\ FilterOK' /\ LetGoOK' /\ ParentsOK'
         /\ answered \subseteq answered' /\ \A id : Followed(id) => Followed(id)'
         /\ \A j \in answered' : /\ j \in GraphJob /\ j.run \in 0..runID
                                 /\ j.node # None => Fits(j)' /\ Asked(j.node)'
         /\ job.node # None /\ job.method = NoMethod => Followed(job.node)'
<1> DEFINE o == Outcome(job)
<1>1. /\ submitted' = IF o \in {"cancelled", "queued"} THEN submitted \union {FilterKey(job)}
                      ELSE submitted
      /\ answered' = IF o = "queued" THEN answered \union {job} ELSE answered
      /\ letGo' = IF o # "queued" /\ job.node # None /\ job.method = NoMethod
                  THEN letGo \union {<<job, o>>} ELSE letGo
      /\ UNCHANGED <<nodes, bySignature, byPath, history, events, runID, restarting, scanCancelled>>
  BY DEF SubmitJob, scanVars
<1>2. /\ NodesOK /\ AllowedOK /\ SignaturesOK /\ PathsOK /\ JobsOK
      /\ FilterOK /\ LetGoOK /\ FeedbackOK /\ ParentsOK /\ EventsOK
  BY DEF GInv
<1>3. /\ o \in {"run", "excluded", "seen", "cancelled", "queued"}
      /\ o = "run" => restarting \/ job.run # runID
      /\ o # "run" => ~restarting /\ job.run = runID
      /\ o = "excluded" => job.path \in Excluded
      /\ o = "seen" => FilterKey(job) \in submitted
      /\ o \in {"cancelled", "queued"} => FilterKey(job) \notin submitted
      /\ o = "cancelled" => scanCancelled
  BY DEF Outcome
<1> HIDE DEF o
<1>4. /\ answered \subseteq answered' /\ letGo \subseteq letGo' /\ submitted \subseteq submitted'
      /\ \A j \in answered' : j \in answered \/ (j = job /\ o = "queued")
      /\ \A d \in letGo' : d \in letGo \/ (d = <<job, o>> /\ o # "queued" /\ job.node # None)
      /\ \A k \in submitted' : k \in submitted \/ (k = FilterKey(job) /\ o \in {"cancelled", "queued"})
  BY <1>1
<1>5. \A id : Asked(id) => Asked(id)'
  BY <1>4 DEF Asked
<1>6. \A id : Followed(id) => Followed(id)'
  BY <1>4 DEF Followed
<1>7. \A j : Fits(j) => Fits(j)'
  BY <1>1 DEF Fits
<1>8. ASSUME NEW j \in answered'
      PROVE  /\ j \in GraphJob /\ j.run \in 0..runID
             /\ j.node # None => Fits(j)' /\ Asked(j.node)'
  <2>1. CASE j \in answered
    BY <1>2, <1>5, <1>7, <2>1 DEF JobsOK
  <2>2. CASE j = job /\ o = "queued"
    <3>1. ASSUME job.node # None PROVE Fits(job)' /\ Asked(job.node)'
      <4>1. Fits(job) /\ Fits(job)' /\ job.method \in {"GET", NoMethod}
        BY <1>7, <3>1 DEF Fits
      <4>2. CASE job.method = NoMethod
        BY <1>5, <3>1, <4>1, <4>2
      <4>3. CASE job.method = "GET"
        BY <1>1, <2>2, <4>1, <4>3 DEF Asked
      <4> QED BY <4>1, <4>2, <4>3
    <3> QED BY <2>2, <3>1
  <2> QED BY <1>4, <2>1, <2>2
<1>9. \A k, r : Marked(k, r) => Marked(k, r)'
  BY <1>4 DEF Marked, FilterKey
<1>10. FilterRun' = FilterRun /\ (o # "run" => FilterRun = job.run)
  BY <1>1, <1>3 DEF FilterRun
<1>11. /\ runID \in 0..MaxRestarts /\ runID \in Nat /\ restarting \in BOOLEAN
       /\ (restarting => runID > 0)
       /\ \A j \in answered : /\ j.run <= FilterRun
                              /\ j.run = FilterRun => FilterKey(j) \in submitted
       /\ \A key \in submitted : scanCancelled \/ Marked(key, FilterRun)
       /\ \A a, b \in answered : FilterKey(a) = FilterKey(b) /\ a.run = b.run => a = b
  BY <1>2, GraphAssumption DEF FilterOK
<1>12. FilterOK'
  <2>1. ASSUME NEW j \in answered'
        PROVE  /\ j.run <= FilterRun
               /\ j.run = FilterRun => FilterKey(j) \in submitted'
    <3>1. CASE j \in answered
      BY <1>4, <1>11, <3>1
    <3>2. CASE j = job /\ o = "queued"
      BY <1>1, <1>10, <1>11, <3>2
    <3> QED BY <1>4, <3>1, <3>2
  <2>2. ASSUME NEW key \in submitted' PROVE scanCancelled \/ Marked(key, FilterRun)'
    <3>1. CASE key \in submitted
      BY <1>1, <1>9, <1>10, <1>11, <3>1 DEF Marked
    <3>2. CASE key = FilterKey(job) /\ o = "queued"
      <4>1. job \in answered' /\ job.run = FilterRun'
        BY <1>1, <1>10, <3>2
      <4> QED BY <3>2, <4>1 DEF Marked, FilterKey
    <3>3. CASE o = "cancelled"
      BY <1>3, <3>3
    <3> QED BY <1>4, <3>1, <3>2, <3>3
  <2>3. ASSUME NEW a \in answered', NEW b \in answered', FilterKey(a) = FilterKey(b), a.run = b.run
        PROVE  a = b
    <3>1. ASSUME NEW c \in answered, o = "queued" PROVE ~(FilterKey(c) = FilterKey(job) /\ c.run = job.run)
      BY <1>3, <1>10, <1>11, <3>1
    <3> QED BY <1>4, <1>11, <2>3, <3>1
  <2> QED BY <1>1, <1>2, <1>10, <2>1, <2>2, <2>3 DEF FilterOK, FilterKey
<1>13. LetGoOK'
  <2>1. ASSUME NEW d \in letGo'
        PROVE  \/ d[2] = "seen" /\ (scanCancelled \/ Marked(FilterKey(d[1]), d[1].run)')
               \/ d[2] = "run" /\ runID > 0
               \/ d[2] = "cancelled" /\ scanCancelled
    <3>1. CASE d \in letGo
      BY <1>2, <1>9, <3>1 DEF LetGoOK
    <3>2. CASE d = <<job, o>> /\ o # "queued" /\ job.node # None
      <4>1. job.path \notin Excluded
        BY <1>2, <3>2, GraphAssumption DEF AllowedOK, Fits, GraphJob
      <4>2. CASE o = "run"
        BY <1>3, <1>11, <3>2, <4>2
      <4>3. CASE o = "seen"
        <5>1. scanCancelled \/ Marked(FilterKey(job), job.run)
          BY <1>3, <1>10, <1>11, <4>3
        <5>2. scanCancelled \/ Marked(FilterKey(job), job.run)'
          BY <1>9, <5>1
        <5> QED BY <3>2, <4>3, <5>2
      <4>4. CASE o = "cancelled"
        BY <1>3, <3>2, <4>4
      <4> QED BY <1>3, <3>2, <4>1, <4>2, <4>3, <4>4
    <3> QED BY <1>4, <3>1, <3>2
  <2> QED BY <1>1, <2>1 DEF LetGoOK, Marked, FilterKey
<1>14. ParentsOK'
  BY <1>1, <1>2, <1>5 DEF ParentsOK
<1>15. NodesOK' /\ AllowedOK' /\ SignaturesOK' /\ PathsOK' /\ EventsOK'
  BY <1>1, <1>2 DEF NodesOK, AllowedOK, SignaturesOK, PathsOK, EventsOK
<1>16. ASSUME job.node # None, job.method = NoMethod PROVE Followed(job.node)'
  <2>1. CASE o = "queued"
    BY <1>1, <1>16, <2>1 DEF Followed
  <2>2. CASE o # "queued"
    <3>1. <<job, o>> \in letGo' /\ <<job, o>>[1] = job
      BY <1>1, <1>16, <2>2
    <3> QED BY <3>1 DEF Followed
  <2> QED BY <2>1, <2>2
<1> QED BY <1>4, <1>6, <1>8, <1>12, <1>13, <1>14, <1>15, <1>16

(* The jobs a worker has built leave its hands in their order.               *)
LEMMA GraphSubmits == ASSUME GInv, NEW w \in Workers, Submit(w) PROVE GInv'
<1>0. PICK job : job = Head(toSubmit[w])
  OBVIOUS
<1>1. /\ toSubmit[w] # <<>> /\ SubmitJob(job)
      /\ toSubmit' = [toSubmit EXCEPT ![w] = Tail(@)]
      /\ UNCHANGED <<nodes, bySignature, byPath, history, events, scanVars>>
  BY <1>0 DEF Submit
<1>2. JobsOK /\ FeedbackOK
  BY DEF GInv
<1>3. /\ toSubmit[w] \in Seq(GraphJob) /\ 1 \in DOMAIN toSubmit[w] /\ job = toSubmit[w][1]
      /\ Tail(toSubmit[w]) \in Seq(GraphJob)
      /\ \A i \in DOMAIN Tail(toSubmit[w]) : /\ i + 1 \in DOMAIN toSubmit[w]
                                             /\ Tail(toSubmit[w])[i] = toSubmit[w][i + 1]
      /\ \A i \in DOMAIN toSubmit[w] : i # 1 => /\ i - 1 \in DOMAIN Tail(toSubmit[w])
                                                /\ Tail(toSubmit[w])[i - 1] = toSubmit[w][i]
  <2>1. toSubmit[w] \in Seq(GraphJob)
    BY <1>2 DEF JobsOK
  <2> DEFINE s == toSubmit[w]
  <2>2. s \in Seq(GraphJob) /\ s # <<>>
    BY <1>1, <2>1
  <2> HIDE DEF s
  <2>3. /\ Len(s) \in Nat /\ Len(s) > 0 /\ DOMAIN s = 1..Len(s) /\ Head(s) = s[1]
        /\ Tail(s) \in Seq(GraphJob) /\ DOMAIN Tail(s) = 1..(Len(s) - 1)
        /\ \A i \in 1..(Len(s) - 1) : Tail(s)[i] = s[i + 1]
    BY <2>2
  <2>4. /\ \A i \in 1..(Len(s) - 1) : i + 1 \in 1..Len(s)
        /\ \A i \in 1..Len(s) : i # 1 => i - 1 \in 1..(Len(s) - 1) /\ (i - 1) + 1 = i
        /\ 1 \in 1..Len(s)
    BY <2>3
  <2>5. /\ 1 \in DOMAIN s /\ Head(s) = s[1] /\ Tail(s) \in Seq(GraphJob)
        /\ \A i \in DOMAIN Tail(s) : i + 1 \in DOMAIN s /\ Tail(s)[i] = s[i + 1]
        /\ \A i \in DOMAIN s : i # 1 => i - 1 \in DOMAIN Tail(s) /\ Tail(s)[i - 1] = s[i]
    BY <2>3, <2>4
  <2>6. QED
    BY <1>0, <2>2, <2>5 DEF s
<1>4. Fits(job) /\ job \in GraphJob /\ job.run \in 0..runID
      /\ (job.method = NoMethod => Asked(job.node))
  BY <1>2, <1>3 DEF JobsOK, Fits
<1>5. /\ toSubmit' \in [Workers -> Seq(GraphJob)] /\ toSubmit'[w] = Tail(toSubmit[w])
      /\ \A v \in Workers : v # w => toSubmit'[v] = toSubmit[v]
  BY <1>1, <1>2, <1>3 DEF JobsOK
<1>6. /\ NodesOK' /\ AllowedOK' /\ SignaturesOK' /\ PathsOK' /\ EventsOK'
      /\ FilterOK' /\ LetGoOK' /\ ParentsOK'
      /\ answered \subseteq answered' /\ \A id : Followed(id) => Followed(id)'
      /\ \A j \in answered' : /\ j \in GraphJob /\ j.run \in 0..runID
                              /\ j.node # None => Fits(j)' /\ Asked(j.node)'
      /\ job.node # None /\ job.method = NoMethod => Followed(job.node)'
  BY <1>1, <1>4, JobSubmitted
<1>7. \A id : Asked(id) => Asked(id)'
  BY <1>6 DEF Asked
<1>8. \A j : Fits(j)' <=> Fits(j)
  BY <1>1 DEF Fits, scanVars
<1>10. JobsOK'
  <2>1. ASSUME NEW v \in Workers, NEW i \in DOMAIN toSubmit'[v]
        PROVE  \E j : /\ j = toSubmit'[v][i] /\ Fits(j) /\ (j.method = NoMethod => Asked(j.node))
    <3>1. CASE v = w
      BY <1>2, <1>3, <1>5, <3>1 DEF JobsOK
    <3>2. CASE v # w
      BY <1>2, <1>5, <3>2 DEF JobsOK
    <3>3. QED
      BY <3>1, <3>2
  <2>3. \A v \in Workers : \A i \in DOMAIN toSubmit'[v] :
           /\ Fits(toSubmit'[v][i])
           /\ toSubmit'[v][i].method = NoMethod => Asked(toSubmit'[v][i].node)
    BY <2>1
  <2>4. \A v \in Workers : \A i \in DOMAIN toSubmit'[v] :
           toSubmit'[v][i].method = NoMethod =>
               \E j \in answered' : j.node = toSubmit'[v][i].node /\ j.method = "GET"
    BY <1>6, <2>3 DEF Asked
  <2>5. QED
    BY <1>1, <1>5, <1>6, <2>3, <2>4 DEF JobsOK, Fits, Asked, scanVars
<1>13. FeedbackOK'
  <2> SUFFICES ASSUME NEW h \in history, h[2] = "validation_feedback"
               PROVE  h[1] \in DOMAIN nodes /\ (Followed(h[1])' \/ InFlight(h[1])')
    BY <1>1 DEF FeedbackOK, Followed, InFlight
  <2>1. h[1] \in DOMAIN nodes /\ (Followed(h[1]) \/ InFlight(h[1]))
    BY <1>2 DEF FeedbackOK
  <2>2. CASE Followed(h[1])
    BY <1>6, <2>1, <2>2
  <2>3. CASE InFlight(h[1])
    <3>1. PICK v \in Workers : \E i \in DOMAIN toSubmit[v] :
             toSubmit[v][i].node = h[1] /\ toSubmit[v][i].method = NoMethod
      BY <2>3 DEF InFlight
    <3>2. PICK i \in DOMAIN toSubmit[v] : toSubmit[v][i].node = h[1] /\ toSubmit[v][i].method = NoMethod
      BY <3>1
    <3>3. CASE v # w
      BY <1>5, <2>1, <3>1, <3>3 DEF InFlight
    <3>4. CASE v = w /\ i # 1
      <4>1. i - 1 \in DOMAIN toSubmit'[w] /\ toSubmit'[w][i - 1] = toSubmit[v][i]
        BY <1>3, <1>5, <3>2, <3>4
      <4>2. QED
        BY <2>1, <3>2, <4>1 DEF InFlight
    <3>5. CASE v = w /\ i = 1
      <4>1. job.node = h[1] /\ job.method = NoMethod
        BY <1>3, <3>2, <3>5
      <4>2. h[1] # None
        BY <2>1, <1>4, NodesAre DEF GInv
      <4>3. Followed(h[1])'
        BY <1>6, <4>1, <4>2
      <4>4. QED
        BY <2>1, <4>3
    <3>6. QED
      BY <3>3, <3>4, <3>5
  <2>4. QED
    BY <2>1, <2>2, <2>3
<1>15. QED
  BY <1>6, <1>10, <1>13 DEF GInv

(* The jobs of the other submitters leave the graph as it is.                *)
LEMMA OtherSubmits == ASSUME GInv, SubmitOther PROVE GInv'
<1>0. PICK path \in Paths, method \in Methods : SubmitJob(Job("other", path, method, None, runID))
  BY DEF SubmitOther
<1>1. PICK job : job = Job("other", path, method, None, runID) /\ SubmitJob(job)
  BY <1>0
<1>2. /\ job \in GraphJob /\ job.run \in 0..runID /\ job.node = None
  BY <1>1 DEF GInv, FilterOK, Job, GraphJob, None
<1>3. UNCHANGED <<nodes, bySignature, byPath, history, events, toSubmit, scanVars>>
  BY DEF SubmitOther
<1>4. /\ NodesOK' /\ AllowedOK' /\ SignaturesOK' /\ PathsOK' /\ EventsOK'
      /\ FilterOK' /\ LetGoOK' /\ ParentsOK'
      /\ answered \subseteq answered' /\ \A id : Followed(id) => Followed(id)'
      /\ \A j \in answered' : /\ j \in GraphJob /\ j.run \in 0..runID
                              /\ j.node # None => Fits(j)' /\ Asked(j.node)'
  BY <1>1, <1>2, <1>3, JobSubmitted
<1>5. JobsOK /\ FeedbackOK
  BY DEF GInv
<1>6. JobsOK'
  BY <1>3, <1>4, <1>5 DEF JobsOK, Fits, Asked, scanVars
<1>7. FeedbackOK'
  BY <1>3, <1>4, <1>5 DEF FeedbackOK, InFlight
<1> QED BY <1>4, <1>6, <1>7 DEF GInv

(* A restart keeps the graph and the record of the jobs; the new filter is   *)
(* empty, and no job of the new run has been accepted.                       *)
LEMMA GraphRestarts ==
  ASSUME GInv, RestartBegins \/ RestartEnds \/ ShutdownCancelsScan
  PROVE  GInv'
<1>1. /\ UNCHANGED <<nodes, bySignature, byPath, history, events, toSubmit, answered, letGo>>
      /\ NodesOK /\ AllowedOK /\ SignaturesOK /\ PathsOK /\ JobsOK
      /\ FilterOK /\ LetGoOK /\ FeedbackOK /\ ParentsOK /\ EventsOK
  BY DEF RestartBegins, RestartEnds, ShutdownCancelsScan, GInv
<1>2. /\ runID \in 0..MaxRestarts /\ restarting \in BOOLEAN /\ scanCancelled \in BOOLEAN
      /\ restarting => runID > 0
      /\ \A job \in answered : /\ job.run \in 0..runID /\ job.run <= FilterRun
                               /\ job.run = FilterRun => FilterKey(job) \in submitted
      /\ \A key \in submitted : scanCancelled \/ Marked(key, FilterRun)
      /\ \A a, b \in answered : FilterKey(a) = FilterKey(b) /\ a.run = b.run => a = b
      /\ MaxRestarts \in Nat
  BY <1>1, GraphAssumption DEF FilterOK, JobsOK
<1>3. runID' \in 0..MaxRestarts /\ runID <= runID' /\ (scanCancelled => scanCancelled')
  BY <1>2 DEF RestartBegins, RestartEnds, ShutdownCancelsScan
<1>4. FilterOK'
  <2>1. CASE RestartBegins \/ ShutdownCancelsScan
    <3>1. FilterRun' = FilterRun /\ submitted' = submitted
      BY <1>2, <2>1 DEF RestartBegins, ShutdownCancelsScan, FilterRun
    <3>2. restarting' \in BOOLEAN /\ scanCancelled' \in BOOLEAN /\ (restarting' => runID' > 0)
      <4>1. CASE RestartBegins
        BY <1>2, <4>1 DEF RestartBegins
      <4>2. CASE ShutdownCancelsScan
        BY <1>2, <4>2 DEF ShutdownCancelsScan
      <4> QED BY <2>1, <4>1, <4>2
    <3> QED BY <1>1, <1>2, <1>3, <3>1, <3>2 DEF FilterOK, Marked, FilterKey
  <2>2. CASE RestartEnds
    <3>1. /\ FilterRun' = runID /\ FilterRun = runID - 1 /\ submitted' = {}
          /\ runID' = runID /\ restarting' = FALSE /\ scanCancelled' = scanCancelled
      BY <2>2 DEF RestartEnds, FilterRun
    <3>2. \A job \in answered : job.run <= FilterRun' /\ job.run # FilterRun'
      BY <1>2, <3>1
    <3> QED BY <1>1, <1>2, <1>3, <3>1, <3>2 DEF FilterOK, Marked, FilterKey
  <2> QED BY <2>1, <2>2
<1>5. LetGoOK'
  BY <1>1, <1>2, <1>3 DEF LetGoOK, Marked, FilterKey
<1>6. JobsOK'
  <2>1. \A r \in 0..runID : r \in 0..runID'
    BY <1>2, <1>3
  <2> QED BY <1>1, <2>1 DEF JobsOK, Fits, Asked
<1>7. FeedbackOK' /\ ParentsOK'
  BY <1>1 DEF FeedbackOK, Followed, InFlight, ParentsOK, Asked
<1>8. NodesOK' /\ AllowedOK' /\ SignaturesOK' /\ PathsOK' /\ EventsOK'
  BY <1>1 DEF NodesOK, AllowedOK, SignaturesOK, PathsOK, EventsOK
<1> QED BY <1>4, <1>5, <1>6, <1>7, <1>8 DEF GInv

(* A response moves the scores of a node within their ranges.                *)
LEMMA Scored ==
  ASSUME NEW n \in Node, NEW resp
  PROVE  Score(n, resp) \in Node /\ SameTree(Score(n, resp), n)
         /\ Score(n, resp).feedback = n.feedback
<1> DEFINE s == resp.status
           conf == CASE s \in {404, 410} -> -20 [] s \in {401, 403} -> 20 [] s = 200 -> 10
                     [] s = 0 -> -5 [] OTHER -> 0
           risk == CASE s \in {401, 403} -> 40 [] s = 500 -> 10
                     [] s = 200 /\ resp.interesting -> 30 [] OTHER -> 0
           prio == CASE s \in {401, 403} -> 40 [] s = 200 -> 20 [] OTHER -> 0
<1>1. conf \in Int
  OBVIOUS
<1>2. risk \in Int
  OBVIOUS
<1>3. prio \in Nat
  OBVIOUS
<1>4. Score(n, resp) = [n EXCEPT !.confidence = Clamp(@ + conf, 0, 100), !.risk = Clamp(@ + risk, 0, 100),
                                 !.priority = @ + prio]
  BY DEF Score
<1> HIDE DEF conf, risk, prio
<1>5. n.confidence \in 0..100 /\ n.risk \in 0..100 /\ n.priority \in Nat
  BY DEF Node
<1>6. \A x \in Int : Clamp(x, 0, 100) \in 0..100
  BY DEF Clamp
<1>7. Clamp(n.confidence + conf, 0, 100) \in 0..100 /\ Clamp(n.risk + risk, 0, 100) \in 0..100
      /\ n.priority + prio \in Nat
  BY <1>1, <1>2, <1>3, <1>5, <1>6
<1> DEFINE c == Clamp(n.confidence + conf, 0, 100)
           r == Clamp(n.risk + risk, 0, 100)
           p == n.priority + prio
<1>8. Score(n, resp) = [n EXCEPT !.confidence = c, !.risk = r, !.priority = p]
  BY <1>4
<1>9. c \in 0..100 /\ r \in 0..100 /\ p \in Nat
  BY <1>7
<1> HIDE DEF c, r, p
<1>10. Score(n, resp) \in Node
  BY <1>8, <1>9, ZenonT(60) DEF Node
<1>11. SameTree(Score(n, resp), n) /\ Score(n, resp).feedback = n.feedback
  BY <1>8 DEF Node, SameTree
<1>12. QED
  BY <1>10, <1>11

(* A response is recorded at the node its job was for, and its follow-up is  *)
(* handed to the worker that reported it.                                    *)
LEMMA EvidenceUpdated ==
  ASSUME GInv, NEW w \in Workers, NEW resp \in Responses, NEW asked \in answered, asked.node # None,
         UpdateEvidence(w, asked.node, resp)
  PROVE  GInv'
<1> DEFINE id == asked.node
           more == WantsFeedback(nodes[id], id, resp)
           observed == AddEvent(events, "response_observed", id)
           m == [Score(nodes[id], resp) EXCEPT !.hash = <<resp>>, !.feedback = @ + IF more THEN 1 ELSE 0]
           jobs == IF more THEN <<FeedbackJob(id)>> ELSE <<>>
<1>1. /\ toSubmit[w] = <<>> /\ nodes' = [nodes EXCEPT ![id] = m]
      /\ history' = IF more THEN history \union {<<id, "validation_feedback">>} ELSE history
      /\ events' = IF more THEN AddEvent(observed, "action_created", id) ELSE observed
      /\ toSubmit' = [toSubmit EXCEPT ![w] = jobs]
      /\ UNCHANGED <<bySignature, byPath, submitted, answered, letGo, scanVars>>
  BY DEF UpdateEvidence
<1>2. /\ NodesOK /\ AllowedOK /\ SignaturesOK /\ PathsOK /\ JobsOK
      /\ FilterOK /\ LetGoOK /\ FeedbackOK /\ ParentsOK /\ EventsOK
  BY DEF GInv
<1>3. /\ Fits(asked) /\ Asked(id) /\ id \in DOMAIN nodes /\ nodes[id].path = asked.path
      /\ asked.path \in Paths /\ id \in Nat
  <2>1. Fits(asked) /\ Asked(id)
    BY <1>2 DEF JobsOK
  <2>2. QED
    BY <2>1 DEF Fits, GraphJob
<1>4. nodes[id] \in Node
  BY <1>2, <1>3, NodesAre
<1>5. m \in Node /\ SameTree(m, nodes[id])
  <2> DEFINE n == Score(nodes[id], resp)
             f == n.feedback + IF more THEN 1 ELSE 0
  <2>1. n \in Node /\ SameTree(n, nodes[id]) /\ n.feedback = nodes[id].feedback
    BY <1>4, Scored
  <2>2. nodes[id].feedback \in 0..3
    BY <1>4 DEF Node, MaxFeedbackActionsPerNode
  <2>3. more => nodes[id].feedback < 3
    BY DEF WantsFeedback, MaxFeedbackActionsPerNode
  <2>4. f \in 0..MaxFeedbackActionsPerNode
    <3>1. CASE more
      BY <2>1, <2>2, <2>3, <3>1 DEF MaxFeedbackActionsPerNode
    <3>2. CASE ~more
      BY <2>1, <2>2, <3>2 DEF MaxFeedbackActionsPerNode
    <3>3. QED
      BY <3>1, <3>2
  <2>5. <<resp>> \in Seq(Responses)
    OBVIOUS
  <2>6. m = [n EXCEPT !.hash = <<resp>>, !.feedback = f]
    OBVIOUS
  <2> HIDE DEF n, f, m, more
  <2>7. QED
    BY <2>1, <2>4, <2>5, <2>6 DEF Node, SameTree
<1> HIDE DEF m
<1>6. /\ NodesOK' /\ DOMAIN nodes' = DOMAIN nodes
      /\ \A i \in DOMAIN nodes : SameTree(nodes'[i], nodes[i])
  <2> HIDE DEF id
  <2>1. QED
    BY <1>1, <1>2, <1>3, <1>5, Rescored
<1>7. SignaturesOK' /\ PathsOK' /\ AllowedOK'
  <2>1. SignaturesOK' /\ PathsOK'
    BY <1>1, <1>2, <1>6, SameIndexes
  <2>2. AllowedOK'
    BY <1>2, <1>6 DEF AllowedOK, SameTree
  <2> QED BY <2>1, <2>2
<1>8. ParentsOK'
  BY <1>1, <1>2, <1>6 DEF ParentsOK, SameTree, Asked
<1>9. Keeps
  BY <1>6 DEF Keeps, SameTree
<1>10. EventsOK'
  <2>1. /\ <<"response_observed", id>> \in Kinds \X Nat
        /\ <<"action_created", id>> \in Kinds \X Nat
    BY <1>3 DEF Kinds
  <2> HIDE DEF id
  <2>2. observed \in Seq(Kinds \X Nat) /\ Len(observed) <= MaxEvents
    BY <1>2, <2>1, EventsKept DEF AddEvent, EventsOK
  <2> HIDE DEF observed
  <2>3. /\ AddEvent(observed, "action_created", id) \in Seq(Kinds \X Nat)
        /\ Len(AddEvent(observed, "action_created", id)) <= MaxEvents
    BY <2>1, <2>2, EventsKept DEF AddEvent
  <2>4. QED
    BY <1>1, <2>2, <2>3 DEF EventsOK
<1>11. /\ FeedbackJob(id) \in GraphJob /\ FeedbackJob(id).node = id
       /\ FeedbackJob(id).path = nodes[id].path /\ FeedbackJob(id).method = NoMethod
       /\ FeedbackJob(id).run = runID /\ runID \in 0..runID
  BY <1>2, <1>3 DEF FeedbackJob, Job, GraphJob, Actions, FilterOK
<1>12. nodes'[id].path = nodes[id].path /\ id \in DOMAIN nodes'
  BY <1>3, <1>6 DEF SameTree
<1>13. /\ jobs \in Seq(GraphJob)
       /\ \A i \in DOMAIN jobs : jobs[i] = FeedbackJob(id)
       /\ (more => 1 \in DOMAIN jobs)
  <2> HIDE DEF more, id
  <2>1. CASE more
    BY <1>11, <2>1
  <2>2. CASE ~more
    BY <2>2
  <2>3. QED
    BY <2>1, <2>2
<1> HIDE DEF jobs
<1>14. \A h \in history' : \/ h \in history
                           \/ /\ h[1] \in DOMAIN nodes
                              /\ \E i \in DOMAIN jobs : jobs[i].node = h[1] /\ jobs[i].method = NoMethod
  <2> HIDE DEF more
  <2>1. CASE more
    <3>1. \A h \in history' : h \in history \/ h = <<id, "validation_feedback">>
      BY <1>1, <2>1
    <3>2. 1 \in DOMAIN jobs /\ jobs[1] = FeedbackJob(id)
      BY <1>13, <2>1
    <3>3. jobs[1].node = id /\ jobs[1].method = NoMethod
      BY <1>11, <3>2
    <3>4. QED
      BY <1>3, <3>1, <3>2, <3>3
  <2>2. CASE ~more
    BY <1>1, <2>2
  <2>3. QED
    BY <2>1, <2>2
<1>15. \A i \in DOMAIN jobs : /\ jobs[i].node \in DOMAIN nodes' /\ nodes'[jobs[i].node].path = jobs[i].path
                              /\ jobs[i].method \in {"GET", NoMethod} /\ jobs[i].run \in 0..runID
                              /\ jobs[i].method = NoMethod => Asked(jobs[i].node)
  BY <1>3, <1>11, <1>12, <1>13
<1> HIDE DEF id
<1>16. JobsOK' /\ FilterOK' /\ LetGoOK' /\ FeedbackOK'
  BY <1>1, <1>2, <1>9, <1>13, <1>14, <1>15, Handed
<1>17. QED
  BY <1>6, <1>7, <1>8, <1>10, <1>16 DEF GInv

(* Every method of the graph and every submission keeps the invariant.       *)
LEMMA GraphInvStep == ASSUME GInv, [GraphNext]_graphVars PROVE GInv'
<1>1. CASE UNCHANGED graphVars
  <2>1. NodesOK' /\ AllowedOK' /\ SignaturesOK' /\ PathsOK' /\ EventsOK'
    BY <1>1 DEF graphVars, GInv, NodesOK, AllowedOK, SignaturesOK, PathsOK, EventsOK
  <2>2. JobsOK'
    BY <1>1 DEF graphVars, scanVars, GInv, JobsOK, Fits, Asked
  <2>3. FilterOK' /\ LetGoOK' /\ ParentsOK'
    BY <1>1 DEF graphVars, scanVars, GInv, FilterOK, FilterKey, FilterRun, Marked, LetGoOK,
                ParentsOK, Asked
  <2>4. FeedbackOK'
    BY <1>1 DEF graphVars, GInv, FeedbackOK, Followed, InFlight
  <2>5. QED
    BY <2>1, <2>2, <2>3, <2>4 DEF GInv
<1>2. ASSUME NEW src \in SourceTypes, AddSourceNode(src) PROVE GInv'
  BY <1>2, SourceAdded
<1>3. ASSUME NEW w \in Workers, SubmitHarvestPath(w) PROVE GInv'
  <2>1. NodesOK /\ JobsOK /\ toSubmit[w] = <<>>
    BY <1>3 DEF GInv, SubmitHarvestPath
  <2>2. PICK path \in Paths \ Excluded :
          \/ \E id \in DOMAIN nodes, run \in 0..runID :
                nodes[id].kind = "source" /\ AddPathNode(w, id, path, nodes[id].src, run)
          \/ \E job \in answered : AddPathNode(w, job.node, path, "response", job.run)
    BY <1>3 DEF SubmitHarvestPath
  <2>3. "response" \in Sources
    BY DEF Sources
  <2>4. ASSUME NEW id \in DOMAIN nodes, NEW run \in 0..runID, nodes[id].kind = "source",
               AddPathNode(w, id, path, nodes[id].src, run)
        PROVE  GInv'
    <3>1. nodes[id].src \in Sources
      BY <2>1, NodesAre DEF Node
    <3>2. QED
      BY <2>1, <2>4, <3>1, PathAdded
  <2>5. ASSUME NEW job \in answered, AddPathNode(w, job.node, path, "response", job.run) PROVE GInv'
    <3>1. /\ job.node \in {None} \union DOMAIN nodes /\ job.run \in 0..runID
          /\ job.node \in DOMAIN nodes => Asked(job.node)
      BY <2>1, NodesAre DEF JobsOK, Fits
    <3>2. QED
      BY <2>1, <2>3, <2>5, <3>1, PathAdded
  <2>7. QED
    BY <2>2, <2>4, <2>5
<1>4. ASSUME NEW w \in Workers, Submit(w) PROVE GInv'
  BY <1>4, GraphSubmits
<1>5. ASSUME NEW w \in Workers, processFeedbackLoop(w) PROVE GInv'
  BY <1>5, EvidenceUpdated DEF processFeedbackLoop
<1>6. CASE SubmitOther
  BY <1>6, OtherSubmits
<1>7. CASE RestartBegins \/ RestartEnds \/ ShutdownCancelsScan
  BY <1>7, GraphRestarts
<1>8. QED
  BY <1>1, <1>2, <1>3, <1>4, <1>5, <1>6, <1>7 DEF GraphNext

(* What the invariant says of the graph.                                     *)
LEMMA InvGivesGraphSound == GInv => GraphSound
<1> SUFFICES ASSUME GInv PROVE GraphSound
  OBVIOUS
<1>1. /\ NodesOK /\ AllowedOK /\ SignaturesOK /\ PathsOK /\ JobsOK
      /\ FilterOK /\ LetGoOK /\ FeedbackOK /\ ParentsOK /\ EventsOK
  BY DEF GInv
<1>2. \A id \in DOMAIN nodes : nodes[id] \in Node /\ id \in Nat
  BY <1>1, NodesAre
<1>3. \A id \in DOMAIN nodes : nodes[id].parent \in {None} \union DOMAIN nodes
  <2> SUFFICES ASSUME NEW id \in DOMAIN nodes PROVE nodes[id].parent \in {None} \union DOMAIN nodes
    OBVIOUS
  <2>1. nodes[id].parent \in Nat /\ nodes[id].parent < id
    BY <1>1, <1>2 DEF Node, NodesOK
  <2>2. DOMAIN nodes = 1..Len(nodes) /\ Len(nodes) \in Nat
    BY <1>1, NodesAre
  <2>3. QED
    BY <2>1, <2>2 DEF None
<1>4. GraphTypeOK
  <2>1. ASSUME NEW id \in DOMAIN nodes
        PROVE  /\ nodes[id].src \in SourceTypes \union {"response"}
               /\ nodes[id].derived <= MaxDerivedJobsPerNode
               /\ nodes[id].feedback <= MaxFeedbackActionsPerNode
    BY <1>2 DEF Node, Sources, MaxDerivedJobsPerNode, MaxFeedbackActionsPerNode
  <2>2. Len(events) <= MaxEvents /\ runID \in 0..MaxRestarts /\ (restarting => runID > 0)
    BY <1>1 DEF EventsOK, FilterOK
  <2>3. QED
    BY <1>3, <2>1, <2>2 DEF GraphTypeOK
<1>5. GraphValid
  <2> DEFINE Edges == UNION {{<<id, c>> : c \in nodes[id].children} : id \in DOMAIN nodes}
  <2>1. \A i, c : <<i, c>> \in Edges <=> i \in DOMAIN nodes /\ c \in nodes[i].children
    OBVIOUS
  <2>2. \A e \in Edges : /\ e = <<e[1], e[2]>> /\ e[1] \in DOMAIN nodes
                         /\ e[2] \in nodes[e[1]].children
    OBVIOUS
  <2> HIDE DEF Edges
  <2>3. \A e \in Edges : e[2] \in DOMAIN nodes /\ nodes[e[2]].parent = e[1] /\ e[1] < e[2]
    BY <1>1, <2>2 DEF NodesOK
  <2>4. ASSUME NEW id \in DOMAIN nodes, nodes[id].parent # None
        PROVE  <<nodes[id].parent, id>> \in Edges
    <3>1. nodes[id].parent \in DOMAIN nodes
      BY <1>3, <2>4
    <3>2. id \in nodes[nodes[id].parent].children
      BY <1>1, <3>1 DEF NodesOK
    <3>3. QED
      BY <2>1, <3>1, <3>2
  <2>5. \A id \in DOMAIN nodes : /\ nodes[id].confidence \in 0..100 /\ nodes[id].risk \in 0..100
                                 /\ nodes[id].priority >= 0
    BY <1>2 DEF Node
  <2>6. QED
    BY <2>3, <2>4, <2>5 DEF GraphValid, Edges
<1>6. GraphIndexed
  BY <1>1 DEF GraphIndexed, SignaturesOK, PathsOK, Signature
<1>7. GraphFilterKeeps
  <2>1. /\ \A a, b \in answered : FilterKey(a) = FilterKey(b) /\ a.run = b.run => a = b
        /\ \A key \in submitted :
              scanCancelled \/ \E job \in answered : FilterKey(job) = key /\ job.run = FilterRun
    BY <1>1 DEF FilterOK, Marked
  <2>2. \A a, b \in answered : a.method = b.method /\ a.path = b.path => FilterKey(a) = FilterKey(b)
    BY DEF FilterKey
  <2> QED BY <2>1, <2>2 DEF GraphFilterKeeps
<1>8. GraphExpandsOnce
  <2> SUFFICES ASSUME NEW i \in DOMAIN nodes, NEW j \in DOMAIN nodes, nodes[i].kind = "path",
                      nodes[i].path = nodes[j].path, i # j,
                      nodes[i].children # {}, nodes[j].children # {}
               PROVE  \E a, b \in answered : a.node = i /\ b.node = j /\ a.run # b.run
    BY DEF GraphExpandsOnce
  <2>1. \A k \in DOMAIN nodes : nodes[k].kind = "source" <=> nodes[k].path = NoPath
    BY <1>1 DEF NodesOK
  <2>2. nodes[j].kind \in {"source", "path"}
    BY <1>2 DEF Node
  <2>3. nodes[j].kind = "path"
    BY <2>1, <2>2
  <2>4. Asked(i) /\ Asked(j)
    BY <1>1, <2>3 DEF ParentsOK
  <2>5. PICK a \in answered : a.node = i /\ a.method = "GET"
    BY <2>4 DEF Asked
  <2>6. PICK b \in answered : b.node = j /\ b.method = "GET"
    BY <2>4 DEF Asked
  <2>7. a.path = nodes[i].path /\ b.path = nodes[j].path
    BY <1>1, <2>5, <2>6, NodesAre DEF JobsOK, Fits
  <2>8. FilterKey(a) = FilterKey(b) /\ a # b
    BY <2>5, <2>6, <2>7 DEF FilterKey
  <2>9. a.run # b.run
    BY <1>1, <2>8 DEF FilterOK
  <2>10. QED
    BY <2>5, <2>6, <2>9
<1>9. GraphFeedbackReaches
  <2>1. ASSUME NEW h \in history, h[2] = "validation_feedback"
        PROVE  \/ \E w \in Workers : \E i \in DOMAIN toSubmit[w] :
                     toSubmit[w][i].node = h[1] /\ toSubmit[w][i].method = NoMethod
               \/ \E job \in answered : job.node = h[1] /\ job.method = NoMethod
               \/ \E d \in letGo : d[1].node = h[1]
    BY <1>1, <2>1 DEF FeedbackOK, Followed, InFlight
  <2>2. ASSUME NEW d \in letGo
        PROVE  \/ /\ d[2] = "seen"
                  /\ scanCancelled \/ \E job \in answered :
                        FilterKey(job) = FilterKey(d[1]) /\ job.run = d[1].run
               \/ d[2] = "run" /\ runID > 0
               \/ d[2] = "cancelled" /\ scanCancelled
    BY <1>1 DEF LetGoOK, Marked
  <2>3. QED
    BY <2>1, <2>2 DEF GraphFeedbackReaches
<1>10. QED
  BY <1>4, <1>5, <1>6, <1>7, <1>8, <1>9 DEF GraphSound

(* The state of the graph, its indexes, its log and the jobs of the two      *)
(* loops stay consistent, for every number of workers, paths and responses.  *)
THEOREM GraphInvariant == GraphSafety => []GInv
<1>1. GInv /\ [GraphNext]_graphVars => GInv'
  BY GraphInvStep
<1>2. QED
  BY GraphInvInit, <1>1, PTL DEF GraphSafety

(* The graph is a forest whose edges and indexes agree with its nodes, a run *)
(* expands a path from one node, the filter swallows only what was asked for *)
(* already, and a follow-up of the feedback loop is on its way, accepted, or *)
(* let go by Submit for a reason the property names.                         *)
THEOREM GraphIsSound == GraphSafety => []GraphSound
BY GraphInvariant, InvGivesGraphSound, PTL
=============================================================================

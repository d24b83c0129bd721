---------------------------- MODULE PriorityHeap ----------------------------
(* The priorityHeap of pkg/engine/queue.go under container/heap: the array   *)
(* and the loops of heap.Push and heap.Pop, one iteration a step.  q.mu is   *)
(* held until a loop ends, so nothing else happens in between.  It is what   *)
(* JobQueue rests on: a Pop hands out a job that no other one outranks, and  *)
(* no job is lost or duplicated.                                             *)
EXTENDS Integers, Sequences, FiniteSets, JobOrder

CONSTANTS Jobs,      \* the jobs pushed
          HeapLimit  \* bound on the length of the heap (the queue's maxLen)

ASSUME HeapAssumption ==
    \A j \in Jobs : j.prio \in Int /\ j.created \in Nat /\ j.run \in Int

VARIABLES arr,   \* the slice *q.h
          held,  \* history: the jobs pushed and neither popped nor drained
          loop,  \* the loop under way: "none", "up" or "down"
          at     \* j in up, i in down, from 1

heapVars == <<arr, held, loop, at>>
-----------------------------------------------------------------------------
HeapInit == arr = <<>> /\ held = {} /\ loop = "none" /\ at = 1

(* priorityHeap.Swap, on 1-based positions.                                  *)
Swap(s, i, j) == [s EXCEPT ![i] = s[j], ![j] = s[i]]
Parent(i) == i \div 2

(* heap.Push appends the job and lets it rise.                               *)
HeapPush(job) ==
    /\ loop = "none" /\ job \notin held /\ Len(arr) < HeapLimit
    /\ arr' = Append(arr, job) /\ held' = held \cup {job}
    /\ loop' = "up" /\ at' = Len(arr) + 1

HeapUp ==
    /\ loop = "up"
    /\ IF at = 1 \/ ~Less(arr[at], arr[Parent(at)])
       THEN loop' = "none" /\ UNCHANGED <<arr, at>>
       ELSE arr' = Swap(arr, Parent(at), at) /\ at' = Parent(at) /\ UNCHANGED loop
    /\ UNCHANGED held

(* heap.Pop moves the root to the end, sifts what took its place down among   *)
(* the others, and priorityHeap.Pop cuts the end off.                        *)
HeapPop ==
    /\ loop = "none" /\ arr # <<>>
    /\ arr' = Swap(arr, 1, Len(arr)) /\ loop' = "down" /\ at' = 1
    /\ UNCHANGED held

Rest == Len(arr) - 1

(* Mutant: a right child is never considered.                                *)
LeftChildOnly(i) == 2 * i

SmallerChild(i) ==
    IF 2 * i + 1 <= Rest /\ Less(arr[2 * i + 1], arr[2 * i]) THEN 2 * i + 1 ELSE 2 * i

HeapDown ==
    LET child == SmallerChild(at) IN
    /\ loop = "down"
    /\ IF 2 * at > Rest \/ ~Less(arr[child], arr[at])
       THEN /\ loop' = "none" /\ arr' = SubSeq(arr, 1, Rest)
            /\ held' = held \ {arr[Len(arr)]} /\ UNCHANGED at
       ELSE /\ arr' = Swap(arr, at, child) /\ at' = child /\ UNCHANGED <<held, loop>>

HeapDrain ==
    /\ loop = "none" /\ arr' = <<>> /\ held' = {} /\ UNCHANGED <<loop, at>>

HeapNext == (\E job \in Jobs : HeapPush(job)) \/ HeapUp \/ HeapPop \/ HeapDown \/ HeapDrain
-----------------------------------------------------------------------------
HeapTypeOK ==
    /\ arr \in Seq(Jobs) /\ held \subseteq Jobs /\ at \in Nat
    /\ loop \in {"none", "up", "down"} /\ (loop # "none" => at \in DOMAIN arr)

(* The array holds exactly the jobs pushed and not yet taken, each once: no  *)
(* loop loses or duplicates a job (queue.go Push, Pop, Drain).               *)
JobsConserved ==
    /\ Len(arr) = Cardinality(held)
    /\ {arr[i] : i \in DOMAIN arr} = held

(* The job that a Pop hands out, the root before its loop and the last one   *)
(* during it, is outranked by no other job; it is the oldest of its rank     *)
(* too unless the queue holds dated and undated jobs of one rank (Less then  *)
(* compares some by date and others by RunID, and is not transitive).        *)
Mixed == \E a, b \in Jobs : /\ ~Outranks(a, b) /\ ~Outranks(b, a)
                            /\ a.created = 0 /\ b.created # 0
RootIsBest ==
    LET best == IF loop = "down" THEN Len(arr) ELSE 1
    IN loop # "up" => \A i \in DOMAIN arr :
            /\ ~Outranks(arr[i], arr[best])
            /\ ~Mixed => ~Less(arr[i], arr[best])

(* The heap holds the jobs pushed and not taken, and nobody outranks the one  *)
(* that is taken.                                                            *)
HeapSound == HeapTypeOK /\ JobsConserved /\ RootIsBest
=============================================================================

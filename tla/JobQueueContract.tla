-------------------------- MODULE JobQueueContract --------------------------
(* What the JobQueue interface of pkg/engine/queue.go promises its callers,  *)
(* with none of the machinery (mutex, wake-up channels, retry loops) that    *)
(* PriorityJobQueue uses to keep the promise.                                *)
(*                                                                           *)
(* A caller is "asking" (inside Pop) or "offering" (inside Push).  A Push    *)
(* blocks while the queue is full, a Pop while it is empty; both may end     *)
(* early only because their context was cancelled or the queue was closed.   *)
CONSTANTS Producers,     \* goroutines that call Push
          Consumers,     \* goroutines that call Pop
          Job,           \* the jobs a producer may push
          HasRoom(_),    \* HasRoom(S): a queue that holds S accepts one more job
          Outranks(_, _) \* Outranks(a, b): a must be served before b

VARIABLES q,         \* the jobs in the queue
          open,      \* FALSE once Close has been called
          offer,     \* offer[p]: the set holding the job p is pushing, or {}
          asking,    \* the consumers inside Pop
          cancelled  \* the callers whose context is cancelled

vars == <<q, open, offer, asking, cancelled>>

Init ==
    /\ q = {}
    /\ open = TRUE
    /\ offer = [p \in Producers |-> {}]
    /\ asking = {}
    /\ cancelled = {}

Offer(p, j) ==
    /\ offer[p] = {}
    /\ offer' = [offer EXCEPT ![p] = {j}]
    /\ cancelled' = cancelled \ {p}
    /\ UNCHANGED <<q, open, asking>>

Put(p) ==
    /\ open
    /\ HasRoom(q)
    /\ \E j \in offer[p] : q' = q \union {j}
    /\ offer' = [offer EXCEPT ![p] = {}]
    /\ UNCHANGED <<open, asking, cancelled>>

RefusePut(p) ==
    /\ offer[p] # {}
    /\ ~open \/ p \in cancelled
    /\ offer' = [offer EXCEPT ![p] = {}]
    /\ UNCHANGED <<q, open, asking, cancelled>>

Ask(c) ==
    /\ c \notin asking
    /\ asking' = asking \union {c}
    /\ cancelled' = cancelled \ {c}
    /\ UNCHANGED <<q, open, offer>>

Take(c) ==
    /\ c \in asking
    /\ \E j \in q : /\ \A k \in q : ~Outranks(k, j)
                    /\ q' = q \ {j}
    /\ asking' = asking \ {c}
    /\ UNCHANGED <<open, offer, cancelled>>

RefuseTake(c) ==
    /\ c \in asking
    /\ (~open /\ q = {}) \/ c \in cancelled
    /\ asking' = asking \ {c}
    /\ UNCHANGED <<q, open, offer, cancelled>>

CancelCaller(t) ==
    /\ cancelled' = cancelled \union {t}
    /\ UNCHANGED <<q, open, offer, asking>>

Discard ==
    /\ q' = {}
    /\ UNCHANGED <<open, offer, asking, cancelled>>

Shut ==
    /\ open' = FALSE
    /\ UNCHANGED <<q, offer, asking, cancelled>>

SomePut  == \E p \in Producers : Put(p) \/ RefusePut(p)
SomeTake == \E c \in Consumers : Take(c) \/ RefuseTake(c)

Next ==
    \/ \E p \in Producers, j \in Job : Offer(p, j)
    \/ SomePut
    \/ \E c \in Consumers : Ask(c)
    \/ SomeTake
    \/ \E t \in Producers \union Consumers : CancelCaller(t)
    \/ Discard
    \/ Shut

Safety == Init /\ [][Next]_vars

(* Progress: while some caller can be served, some caller is served.         *)
Spec == Safety /\ WF_vars(SomePut) /\ WF_vars(SomeTake)
=============================================================================

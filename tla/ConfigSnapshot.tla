--------------------------- MODULE ConfigSnapshot ---------------------------
(* The engine's configuration (pkg/engine/engine_config.go): Config under    *)
(* its lock, the immutable snapshot that workers read, and its immediate and *)
(* debounced rebuilds.                                                       *)
(*                                                                           *)
(* A call is the sequence of its steps that other goroutines can see;        *)
(* todo[t] is what goroutine t has yet to do and local[t] what it read last. *)
(* An edit of any other field than MaxWorkers is just a new version.  The    *)
(* rate limit that SetDelay and SetWorkerCount derive is left out.           *)
EXTENDS Naturals, Sequences

CONSTANTS Threads,     \* goroutines that call the engine
          Rebuilders,  \* goroutines of the debounce timer
          MaxEdits     \* bound: number of edits of the config

ASSUME ConfigAssumption ==
    /\ Threads \intersect Rebuilders = {}
    /\ MaxEdits \in Nat

VARIABLES config,   \* e.Config: its version, MaxWorkers
          snap,     \* e.configSnap
          timer,    \* configSnapTimer is armed
          todo,     \* todo[t]: remaining steps of the calls t is in
          local,    \* local[t]: the config t copied
          newest    \* history: the newest version ever stored in the snapshot

configVars == <<config, snap, timer, local, newest>>

Goroutines == Threads \union Rebuilders

ConfigInit(workers) ==
    /\ config = [ver |-> 0, workers |-> workers]
    /\ snap = config
    /\ timer = FALSE
    /\ todo = [t \in Goroutines |-> <<>>]
    /\ local = [t \in Goroutines |-> config]
    /\ newest = 0
-----------------------------------------------------------------------------
(* The steps of buildAndStoreConfigSnapshot and scheduleBuildSnapshot.       *)
Build == <<[op |-> "read"], [op |-> "store"]>>
Schedule == <<[op |-> "arm"]>>

(* A setter of a single field (SetDelay, SetPaused, AddHeader, ...), and     *)
(* UpdateConfig (RefreshConfigSnapshot after a direct edit).                 *)
Setter == <<[op |-> "edit"]>> \o Schedule
UpdateConfig == <<[op |-> "edit"]>> \o Build

Idle(t) == todo[t] = <<>>
At(t, op) == ~Idle(t) /\ Head(todo[t]).op = op
Advance(t) == todo' = [todo EXCEPT ![t] = Tail(@)]

(* The sections under the Config lock.                                       *)
Edit(t) ==
    /\ At(t, "edit")
    /\ config' = [config EXCEPT !.ver = @ + 1]
    /\ Advance(t)
    /\ UNCHANGED <<snap, timer, local, newest>>

EditWorkers(t) ==
    /\ At(t, "workers")
    /\ config' = [config EXCEPT !.ver = @ + 1, !.workers = Head(todo[t]).value]
    /\ Advance(t)
    /\ UNCHANGED <<snap, timer, local, newest>>

(* The copy under the read lock, and the store after it.                     *)
ReadConfig(t) ==
    /\ At(t, "read")
    /\ local' = [local EXCEPT ![t] = config]
    /\ Advance(t)
    /\ UNCHANGED <<config, snap, timer, newest>>

StoreSnapshot(t) ==
    /\ At(t, "store")
    /\ snap' = local[t]
    /\ newest' = IF local[t].ver > newest THEN local[t].ver ELSE newest
    /\ Advance(t)
    /\ UNCHANGED <<config, timer, local>>

(* Mutant: an armed timer is stopped and not armed again.                    *)
ArmTimerOnce(t) ==
    /\ At(t, "arm")
    /\ timer' = ~timer
    /\ Advance(t)
    /\ UNCHANGED <<config, snap, local, newest>>

(* Stop and AfterFunc: whatever was armed, one timer is armed afterwards.    *)
ArmTimer(t) ==
    /\ At(t, "arm")
    /\ timer' = TRUE
    /\ Advance(t)
    /\ UNCHANGED <<config, snap, local, newest>>

(* The timer's function runs in a goroutine of its own.                      *)
TimerFires(r) ==
    /\ timer /\ Idle(r)
    /\ timer' = FALSE
    /\ todo' = [todo EXCEPT ![r] = Build]
    /\ UNCHANGED <<config, snap, local, newest>>

ConfigStep(t) ==
    \/ Edit(t) \/ EditWorkers(t)
    \/ ReadConfig(t) \/ StoreSnapshot(t) \/ ArmTimer(t)
-----------------------------------------------------------------------------
(* No edit is lost by the debouncing, however the timer's Stop races with    *)
(* its firing: every edit is in some snapshot that is stored later.          *)
EditsPublished == \A v \in 1..MaxEdits : (config.ver >= v) ~> (newest >= v)

(* UpdateConfig "publishes the updated immutable snapshot to workers"        *)
(* (engine_config.go): when all edits are done, the workers end up with the  *)
(* current config.                                                           *)
SnapshotSettles == <>[](snap = config)
=============================================================================

------------------------------ MODULE ProxyPool ------------------------------
(* Proxy rotation (pkg/engine/engine.go): GetNextProxy hands out proxies in  *)
(* turn and passes over those in cooldown, ReportProxyStatus puts a proxy    *)
(* that was blocked into an exponentially growing cooldown.  Each user keeps *)
(* its proxy for one request and reports later, so that reports arrive in    *)
(* any order and several for one proxy.                                      *)
EXTENDS Integers, FiniteSets, FiniteSetsExt

CONSTANTS NumProxies,  \* proxies LoadProxies has read
          Users,       \* requests in flight
          Base,        \* 15 seconds in the code
          Cap,         \* 600 seconds in the code
          Width,       \* bits of an int: 64 in the code
          MaxFails,    \* bound: consecutive failures of one proxy
          MaxCalls     \* bound: calls of GetNextProxy

VARIABLES proxyIndex,  \* the next position of the rotation
          failCount,   \* failCount[p]
          coolUntil,   \* cooldownUntil[p], 0 for the zero time
          now,         \* the clock
          inUse,       \* the proxy of each user, -1 for none
          calls,       \* history: calls of GetNextProxy
          waits,       \* history: calls since p was available and passed over
          failedAt     \* history: when p was last reported as blocked

proxyVars == <<proxyIndex, failCount, coolUntil, now, inUse, calls, waits, failedAt>>

Proxies == 0..NumProxies - 1

LoadProxies ==
    /\ proxyIndex = 0 /\ now = 1 /\ calls = 0
    /\ failCount = [p \in Proxies |-> 0]
    /\ coolUntil = [p \in Proxies |-> 0]
    /\ inUse = [u \in Users |-> -1]
    /\ waits = [p \in Proxies |-> 0]
    /\ failedAt = [p \in Proxies |-> 0]

Available(p) == coolUntil[p] = 0 \/ now > coolUntil[p]

(* How far p is from the index, and whether it comes first in the rotation   *)
(* among the available ones.                                                 *)
Rank(p) == (p - proxyIndex) % NumProxies
Turn(p) == \A q \in Proxies : Rank(q) < Rank(p) => ~Available(q)

Earliest == CHOOSE p \in Proxies : \A q \in Proxies :
                coolUntil[p] < coolUntil[q] \/ (coolUntil[p] = coolUntil[q] /\ p <= q)

(* The first available proxy in the rotation, or the one whose cooldown ends *)
(* first; then the index has gone round once.                                *)
GetNextProxy(u) ==
    /\ inUse[u] = -1 /\ calls < MaxCalls
    /\ LET free == {p \in Proxies : Available(p) /\ Turn(p)}
           p == IF free = {} THEN Earliest ELSE CHOOSE q \in free : TRUE IN
       /\ inUse' = [inUse EXCEPT ![u] = p]
       /\ proxyIndex' = IF free = {} THEN proxyIndex ELSE (p + 1) % NumProxies
       /\ waits' = [q \in Proxies |-> IF q # p /\ Available(q) THEN waits[q] + 1 ELSE 0]
    /\ calls' = calls + 1
    /\ UNCHANGED <<failCount, coolUntil, now, failedAt>>

(* A product in an int of this width, and (1 << fails) * 15.                 *)
Wrap(n) == LET m == n % 2^Width IN IF m >= 2^(Width - 1) THEN m - 2^Width ELSE m
Shifted(fails) == Wrap(2^fails * Base)

(* The shift grows with the failures until the product of 15 and a power of  *)
(* two leaves the int, four failures before its width, and is zero or        *)
(* negative from then on.                                                    *)
ASSUME ProxyAssumption ==
    /\ NumProxies \in Nat \ {0} /\ Width \in Nat /\ MaxFails \in Nat /\ MaxCalls \in Nat
    /\ Base \in Nat /\ Cap \in Nat /\ 2 * Base <= Cap
    /\ \A fails \in 1..MaxFails :
          /\ Shifted(fails) \in Int
          /\ IF fails + 4 < Width THEN Shifted(fails) >= 2 * Base ELSE Shifted(fails) <= 0

(* Mutant: the cap is applied to the number of failures, not to the delay.   *)
BackoffCapsFails(fails) == Shifted(fails)

BackoffSecs(fails) == IF Shifted(fails) > Cap THEN Cap ELSE Shifted(fails)

ReportBlocked(u) ==
    /\ inUse[u] # -1 /\ failCount[inUse[u]] < MaxFails
    /\ LET p == inUse[u] IN
       /\ failCount' = [failCount EXCEPT ![p] = @ + 1]
       /\ coolUntil' = [coolUntil EXCEPT ![p] = now + BackoffSecs(failCount[p] + 1)]
       /\ failedAt' = [failedAt EXCEPT ![p] = now]
    /\ inUse' = [inUse EXCEPT ![u] = -1]
    /\ UNCHANGED <<proxyIndex, now, calls, waits>>

ReportWorking(u) ==
    /\ inUse[u] # -1
    /\ LET p == inUse[u] IN
       /\ failCount' = [failCount EXCEPT ![p] = 0]
       /\ coolUntil' = [coolUntil EXCEPT ![p] = 0]
    /\ inUse' = [inUse EXCEPT ![u] = -1]
    /\ UNCHANGED <<proxyIndex, now, calls, waits, failedAt>>

(* Time matters only when a cooldown ends.                                   *)
Tick ==
    /\ \E p \in Proxies : coolUntil[p] >= now
    /\ now' = Min({coolUntil[p] : p \in {q \in Proxies : coolUntil[q] >= now}}) + 1
    /\ UNCHANGED <<proxyIndex, failCount, coolUntil, inUse, calls, waits, failedAt>>

ProxyNext ==
    \/ \E u \in Users : GetNextProxy(u) \/ ReportBlocked(u) \/ ReportWorking(u)
    \/ Tick
-----------------------------------------------------------------------------
ProxyTypeOK ==
    /\ proxyIndex \in Proxies /\ failCount \in [Proxies -> 0..MaxFails]
    /\ inUse \in [Users -> Proxies \union {-1}] /\ now \in Nat /\ calls \in 0..MaxCalls

(* A proxy that stays available is handed out at the latest by the call that *)
(* has gone round the list, whatever the others' cooldowns do meanwhile.     *)
ProxyFairTurn == \A p \in Proxies : waits[p] < NumProxies

(* A blocked proxy rests for a time that grows with its failures and is at   *)
(* most the cap -- as long as 2^fails * 15 fits into an int: from then on    *)
(* (60 failures in a row of 64 bits) the proxy does not rest at all.         *)
ProxyRests ==
    \A p \in Proxies : failCount[p] > 0 =>
        LET rest == coolUntil[p] - failedAt[p] IN
        IF failCount[p] + 4 < Width THEN rest \in 2 * Base..Cap ELSE rest <= 0

(* An available proxy gets its turn within one round, and a blocked one rests *)
(* until its failures take the shift of the back-off out of the int.          *)
ProxiesRotate == ProxyTypeOK /\ ProxyFairTurn /\ ProxyRests
=============================================================================

------------------------------ MODULE WafEvasion ------------------------------
(* What a worker does with a blocked answer: it fingerprints the firewall,    *)
(* retries the request with the techniques listed for it, remembers which it  *)
(* has tried on the path, and keeps the score; beside it a bounded number of  *)
(* 403 tasks try their own list.  Techniques are names here: only their       *)
(* order, their budget and the answer to each matter.                         *)
EXTENDS Integers, Sequences, FiniteSets, SequencesExt

CONSTANTS Workers, Jobs, PathOf, Marks, Replies, TaskTechniques, EvasionLimit, BypassSlots

(* A blocked job is needed for anything to happen, a task tries its list from *)
(* the first technique on.                                                    *)
ASSUME EvasionAssumption ==
    /\ IsFiniteSet(Workers) /\ IsFiniteSet(Jobs) /\ Jobs # {}
    /\ TaskTechniques \in Seq(STRING) /\ TaskTechniques # <<>>
    /\ EvasionLimit \in Nat /\ BypassSlots \in Nat

(* Replies[<<path, technique>>] is the answer: "error", "same" (blocked       *)
(* again), "other" (neither blocked nor granted), "copy" (granted, with the   *)
(* very page of the block) or "granted"; what is not listed is "same".        *)
VARIABLES attempted, attempts, inlineHits, count403, count200, todo, evStage, evJob, next, tried,
          loaded, ended, tasks, taskHits, active, overlapped, tries, probe

evasionVars == <<attempted, attempts, inlineHits, count403, count200, todo, evStage, evJob, next, tried,
                 loaded, ended, tasks, taskHits, active, overlapped, tries, probe>>

Paths == {PathOf[j] : j \in Jobs}
Reply(p, t) == IF <<p, t>> \in DOMAIN Replies THEN Replies[<<p, t>>] ELSE "same"

(* FingerprintWAF: the first vendor of the list whose marks the answer bears. *)
Vendors == <<"cloudflare", "akamai", "aws_waf", "imperva", "f5_bigip", "sucuri", "barracuda",
             "modsecurity", "nginx">>
FingerprintWAF(marks) ==
    IF marks = {} THEN "unknown"
    ELSE Vendors[CHOOSE i \in DOMAIN Vendors :
                    Vendors[i] \in marks /\ \A k \in 1..(i - 1) : Vendors[k] \notin marks]

EvasionStrategiesFor(vendor) ==
    CASE vendor = "modsecurity" -> <<"double-slash", "null-byte", "chunked-encoding">>
      [] vendor = "akamai" -> <<"case-variation", "cache-buster">>
      [] vendor = "imperva" -> <<"xff-localhost">>
      [] vendor = "cloudflare" -> <<"cf-connecting-ip", "path-dotslash">>
      [] OTHER -> <<"x-original-url", "x-rewrite-url", "x-custom-ip-127", "trailing-slash",
                    "dot-slash", "url-encoded-slash", "double-slash-prefix",
                    "x-forwarded-for-127", "head-method", "trailing-dot-slash",
                    "unicode-first-char">>
Strategies(p) == EvasionStrategiesFor(FingerprintWAF(Marks[p]))
Technique(w) == Strategies(PathOf[evJob[w]])[next[w]]
AllTechniques == UNION {Range(Strategies(p)) : p \in Paths}

EvasionInit ==
    /\ attempted = [p \in Paths |-> <<>>]
    /\ attempts = [t \in AllTechniques |-> 0] /\ inlineHits = [t \in AllTechniques |-> 0]
    /\ count403 = 0 /\ count200 = 0 /\ todo = Jobs
    /\ evStage = [w \in Workers |-> "idle"] /\ evJob = [w \in Workers |-> "none"]
    /\ next = [w \in Workers |-> 1] /\ tried = [w \in Workers |-> 0]
    /\ loaded = [w \in Workers |-> <<>>]
    /\ ended = [j \in Jobs |-> "none"]
    /\ tasks = [j \in Jobs |-> 0] /\ taskHits = [j \in Jobs |-> {}] /\ active = 0
    /\ overlapped = {} /\ tries = [x \in Paths \X AllTechniques |-> 0]
    /\ probe = [at |-> 0, said |-> {}]

Goto(w, s) == evStage' = [evStage EXCEPT ![w] = s]
Busy == {w \in Workers : evStage[w] # "idle"}
Running == {j \in Jobs : tasks[j] > 0}

(* A blocked answer: counted, the 403 task admitted if a slot is free.        *)
schedule403BypassTask(j) ==
    IF Cardinality(Running) < BypassSlots
    THEN tasks' = [tasks EXCEPT ![j] = 1] /\ active' = active + 2
    ELSE UNCHANGED tasks /\ active' = active + 1
Blocked(w) ==
    /\ evStage[w] = "idle"
    /\ \E j \in todo :
          /\ todo' = todo \ {j} /\ evJob' = [evJob EXCEPT ![w] = j]
          /\ schedule403BypassTask(j)
          /\ overlapped' = IF \E v \in Busy : PathOf[evJob[v]] = PathOf[j]
                           THEN overlapped \cup {PathOf[j]} ELSE overlapped
    /\ count403' = count403 + 1
    /\ next' = [next EXCEPT ![w] = 1] /\ tried' = [tried EXCEPT ![w] = 0] /\ Goto(w, "choose")
    /\ UNCHANGED <<attempted, attempts, inlineHits, count200, loaded, ended, taskHits, tries, probe>>

evasionTechniqueSeen(w) == Technique(w) \in Range(attempted[PathOf[evJob[w]]])
NeverSeen(w) == FALSE
WasTried(w) == evasionTechniqueSeen(w)

(* The next technique of the list that the path has not seen, while the       *)
(* budget lasts.                                                              *)
Choose(w) ==
    /\ evStage[w] = "choose"
    /\ \/ /\ next[w] > Len(Strategies(PathOf[evJob[w]])) \/ tried[w] >= EvasionLimit
          /\ Goto(w, "blocked") /\ UNCHANGED next
       \/ /\ next[w] <= Len(Strategies(PathOf[evJob[w]])) /\ tried[w] < EvasionLimit
          /\ IF WasTried(w) THEN next' = [next EXCEPT ![w] = @ + 1] /\ UNCHANGED evStage
             ELSE Goto(w, "mark") /\ UNCHANGED next
    /\ UNCHANGED <<attempted, attempts, inlineHits, count403, count200, todo, evJob, tried, loaded,
                   ended, tasks, taskHits, active, overlapped, tries, probe>>

(* markEvasionTechnique reads the list, and stores a longer copy of what it   *)
(* has read: two workers on one path can forget each other's mark.            *)
markLoad(w) ==
    /\ evStage[w] = "mark" /\ Goto(w, "store")
    /\ loaded' = [loaded EXCEPT ![w] = attempted[PathOf[evJob[w]]]]
    /\ UNCHANGED <<attempted, attempts, inlineHits, count403, count200, todo, evJob, next, tried,
                   ended, tasks, taskHits, active, overlapped, tries, probe>>
markStore(w) ==
    /\ evStage[w] = "store" /\ Goto(w, "send")
    /\ attempted' = IF evasionTechniqueSeen(w) THEN attempted
                    ELSE [attempted EXCEPT ![PathOf[evJob[w]]] = Append(loaded[w], Technique(w))]
    /\ tried' = [tried EXCEPT ![w] = @ + 1]
    /\ UNCHANGED <<attempts, inlineHits, count403, count200, todo, evJob, next, loaded, ended, tasks,
                   taskHits, active, overlapped, tries, probe>>

(* isMeaningfulBypassResponse: granted, and not the blocked page again.       *)
isMeaningfulAccessImprovement(r) == r \in {"granted", "copy"}
isMeaningfulBypassResponse(r) == r = "granted"

Record(t, bypassed) ==
    /\ attempts' = [attempts EXCEPT ![t] = @ + 1]
    /\ inlineHits' = IF bypassed THEN [inlineHits EXCEPT ![t] = @ + 1] ELSE inlineHits

(* The request with the technique: the worker goes on until one is granted.   *)
Attempt(w) ==
    LET t == Technique(w)
        ok == isMeaningfulBypassResponse(Reply(PathOf[evJob[w]], t))
    IN
    /\ evStage[w] = "send" /\ Record(t, ok)
    /\ tries' = [tries EXCEPT ![<<PathOf[evJob[w]], t>>] = @ + 1]
    /\ IF ok THEN Goto(w, "granted") /\ UNCHANGED next
       ELSE Goto(w, "choose") /\ next' = [next EXCEPT ![w] = @ + 1]
    /\ UNCHANGED <<attempted, count403, count200, todo, evJob, tried, loaded, ended, tasks,
                   taskHits, active, overlapped, probe>>

(* The answer's status moves from one counter to the other.                   *)
Recount == count403' = count403 - 1 /\ count200' = count200 + 1
Finish(w) ==
    /\ \/ evStage[w] = "granted" /\ Recount /\ ended' = [ended EXCEPT ![evJob[w]] = Technique(w)]
       \/ evStage[w] = "blocked" /\ ended' = [ended EXCEPT ![evJob[w]] = "blocked"]
          /\ UNCHANGED <<count403, count200>>
    /\ Goto(w, "idle") /\ active' = active - 1
    /\ UNCHANGED <<attempted, attempts, inlineHits, todo, evJob, next, tried, loaded, tasks, taskHits,
                   overlapped, tries, probe>>

(* Run403Bypass: its own list in order, up to the first that is granted with  *)
(* a page of another size; the deferred calls give slot and count back.       *)
TaskGranted(r) == isMeaningfulAccessImprovement(r) /\ r # "copy"
AfterHit(j) == 0
TaskStep(j) ==
    /\ tasks[j] > 0
    /\ LET t == TaskTechniques[tasks[j]]
           ok == TaskGranted(Reply(PathOf[j], t))
           to == IF ok THEN AfterHit(j) ELSE IF tasks[j] < Len(TaskTechniques) THEN tasks[j] + 1 ELSE 0
       IN /\ taskHits' = IF ok THEN [taskHits EXCEPT ![j] = @ \cup {t}] ELSE taskHits
          /\ tasks' = [tasks EXCEPT ![j] = to]
          /\ active' = IF to = 0 THEN active - 1 ELSE active
    /\ UNCHANGED <<attempted, attempts, inlineHits, count403, count200, todo, evStage, evJob, next, tried,
                   loaded, ended, overlapped, tries, probe>>
(* The scan's context ends a task between two techniques.                     *)
TaskCancelled(j) ==
    /\ tasks[j] > 0 /\ tasks' = [tasks EXCEPT ![j] = 0] /\ active' = active - 1
    /\ UNCHANGED <<attempted, attempts, inlineHits, count403, count200, todo, evStage, evJob, next, tried,
                   loaded, ended, taskHits, overlapped, tries, probe>>

(* ProbeWAF asks for one path with every technique, whatever was tried, and   *)
(* calls every answer a bypass whose status is neither the baseline's nor 403.*)
ProbeSays(r) == r \in {"granted", "copy", "other"}
ProbePath == CHOOSE p \in Paths : TRUE
ProbeWAF ==
    LET t == Strategies(ProbePath)[probe.at + 1]
        r == Reply(ProbePath, t)
    IN
    /\ probe.at < Len(Strategies(ProbePath))
    /\ probe' = [at |-> probe.at + 1,
                 said |-> IF ProbeSays(r) THEN probe.said \cup {t} ELSE probe.said]
    /\ IF r = "error" THEN UNCHANGED <<attempts, inlineHits>> ELSE Record(t, ProbeSays(r))
    /\ UNCHANGED <<attempted, count403, count200, todo, evStage, evJob, next, tried, loaded, ended,
                   tasks, taskHits, active, overlapped, tries>>

Worker(w) == Blocked(w) \/ Choose(w) \/ markLoad(w) \/ markStore(w) \/ Attempt(w) \/ Finish(w)
EvasionNext ==
    \/ \E w \in Workers : Worker(w)
    \/ \E j \in Jobs : TaskStep(j) \/ TaskCancelled(j)
    \/ ProbeWAF

EvasionTypeOK ==
    /\ \A p \in Paths : Range(attempted[p]) \subseteq AllTechniques
    /\ count403 \in 0..Cardinality(Jobs) /\ count200 \in 0..Cardinality(Jobs)
    /\ active \in 0..(2 * Cardinality(Jobs)) /\ todo \subseteq Jobs
    /\ \A w \in Workers : tried[w] \in 0..EvasionLimit
    /\ Cardinality(Running) <= BypassSlots
    /\ ended \in [Jobs -> AllTechniques \cup {"none", "blocked"}]

(* A path whose jobs do not overlap in time is asked with a technique once,   *)
(* and never again by a later job (evasionAttempted).                         *)
EvasionOnce ==
    \A p \in Paths \ overlapped : \A t \in AllTechniques : tries[<<p, t>>] <= 1

(* The status counters are those of the answers that were kept: what left 403 *)
(* is counted where it went (worker's counters after an inline bypass).       *)
EvasionCounters ==
    /\ count403 = Cardinality({w \in Workers : evStage[w] # "idle"})
                  + Cardinality({j \in Jobs : ended[j] = "blocked"})
    /\ count200 = Cardinality({j \in Jobs : ended[j] \in AllTechniques})

(* The score of a technique is what the requests with it were worth: every    *)
(* one is an attempt, every granted one of a job, and every one that the      *)
(* probe calls a bypass, is a hit.                                            *)
EvasionScore ==
    \A t \in AllTechniques :
        /\ inlineHits[t] = Cardinality({j \in Jobs : ended[j] = t})
              + Cardinality({w \in Workers : evStage[w] = "granted" /\ Technique(w) = t})
              + (IF t \in probe.said THEN 1 ELSE 0)
        /\ inlineHits[t] <= attempts[t]

(* A 403 task publishes the first technique of its list that works, and only  *)
(* that one.                                                                  *)
EvasionFirstHit ==
    \A j \in Jobs :
        \A t \in taskHits[j] :
            /\ taskHits[j] = {t}
            /\ \E i \in DOMAIN TaskTechniques :
                  /\ TaskTechniques[i] = t
                  /\ \A k \in 1..(i - 1) :
                        ~TaskGranted(Reply(PathOf[j], TaskTechniques[k]))

(* Wait's count covers the jobs and the tasks, and is given back by each.     *)
EvasionActive ==
    active = Cardinality({w \in Workers : evStage[w] # "idle"}) + Cardinality(Running)

(* One technique is tried once on a path, counters and scores follow the      *)
(* answers that are kept, a task publishes the first technique that works,    *)
(* and Wait's count comes back from jobs and tasks.                           *)
EvasionSound ==
    /\ EvasionTypeOK /\ EvasionOnce /\ EvasionCounters /\ EvasionScore
    /\ EvasionFirstHit /\ EvasionActive
=============================================================================

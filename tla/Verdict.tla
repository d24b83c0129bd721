-------------------------------- MODULE Verdict --------------------------------
(* What the engine makes of an answer: the display filters, the SimHash       *)
(* clusters of soft 404 pages with their seeded baselines, the counters of    *)
(* the auto-filter, the signatures that stop recursion into mirrors, and the  *)
(* comparison with an earlier scan.  Several workers share these tables; each *)
(* locked section is an action.  A body is a number: its SimHash; two bodies  *)
(* are similar when the numbers are close, and 0 is an empty body.            *)
EXTENDS Integers, Sequences, FiniteSets, SequencesExt

CONSTANTS Judges,        \* the workers
          SitePaths,     \* sequences of words
          Sites, MatchCodes, Threshold, ClusterLimit, MaxClusters, AutoLimit

(* A site answers a path with a status, a type, a body and its size (-1 when  *)
(* the body stays encoded).  The answer was had with HEAD or not, its body is *)
(* whole (BodyComplete and decoded) or not, and the timing oracle found it    *)
(* slow or not.  The probes for unknown paths are answered with the sequence  *)
(* "missing", an unknown child of a path with the status "unknown" (0: no     *)
(* answer).  There are fewer probes than the table has places, and the        *)
(* command line refuses a limit of no answers.                                *)
IsAnswer(r) ==
    /\ r.status \in Nat \ {0} /\ r.body \in Nat /\ r.size \in Nat \cup {-1}
    /\ {r.head, r.whole, r.slow} \subseteq BOOLEAN
    /\ (r.head => r.body = 0) /\ (r.size = -1 => ~r.whole)
ASSUME VerdictAssumption ==
    /\ IsFiniteSet(SitePaths) /\ \A p \in SitePaths : p \in Seq(STRING) /\ p # <<>>
    /\ \A s \in Sites :
          /\ \A p \in SitePaths : IsAnswer(s.resp[p])
          /\ s.missing \in Seq({s.missing[i] : i \in DOMAIN s.missing})
          /\ s.missing # <<>> /\ Len(s.missing) <= MaxClusters
          /\ \A i \in DOMAIN s.missing : IsAnswer(s.missing[i]) /\ s.missing[i].size \in Nat
    /\ Threshold \in Nat /\ ClusterLimit \in Nat \ {0} /\ MaxClusters \in Nat /\ AutoLimit \in Nat

VARIABLES site, older, raw, previous, clusters, filterSizes, fpCounts, signatures,
          queue, filter, probing, stage, job, count, verdict, evicted,
          notices, \* what was said of the auto-filter
          probed,  \* probes of the calibration that are over
          seeded   \* bodies of the pages it found

verdictVars == <<site, older, raw, previous, clusters, filterSizes, fpCounts, signatures,
                 queue, filter, probing, stage, job, count, verdict, notices, evicted, probed,
                 seeded>>

(* What a scan is given, and what its calibration found.                       *)
setting == <<site, older, raw, previous, filterSizes>>
calibration == <<probed, seeded>>

Answer(p) == site.resp[p]
hammingDistance(a, b) == IF a > b THEN a - b ELSE b - a
Near(a, b) == hammingDistance(a, b) <= Threshold

(* AutoCalibrate: when the random paths agree, the size of their page is      *)
(* filtered, whatever its status.                                             *)
AutoCalibrate ==
    IF \A r \in Range(site.missing) : r = site.missing[1] THEN {site.missing[1].size} ELSE {}

previousScanEntry(r) ==
    [status |-> r.status, size |-> r.size, body |-> IF raw THEN r.body ELSE 0]
(* LoadPreviousScan: a later line of the file replaces an earlier one of the  *)
(* same method and path; only the lines of today's method will be looked up.  *)
LoadPreviousScan(scans) ==
    [p \in SitePaths |->
        LET same == {i \in DOMAIN scans : scans[i].resp[p].head = Answer(p).head} IN
        IF same = {} THEN [status |-> 0, size |-> 0, body |-> 0]
        ELSE previousScanEntry(scans[CHOOSE i \in same : \A j \in same : j <= i].resp[p])]

VerdictInit ==
    /\ site \in Sites
    /\ \/ older = <<>> /\ raw = FALSE /\ filterSizes \in {{}, AutoCalibrate}
       \/ older \in {<<site, s>> : s \in Sites} /\ raw \in BOOLEAN /\ filterSizes = {}
    /\ previous = LoadPreviousScan(older)
    /\ clusters = <<>> /\ probed = 0 /\ seeded = {}
    /\ fpCounts = [f \in {} |-> 0] /\ signatures = [p \in {} |-> 0]
    /\ queue = {p \in SitePaths : Len(p) = 1} /\ filter = queue /\ probing = {}
    /\ stage = [w \in Judges |-> "idle"] /\ job = [w \in Judges |-> <<>>]
    /\ count = [w \in Judges |-> 0]
    /\ verdict = [p \in SitePaths |-> "none"] /\ notices = {} /\ evicted = FALSE

MoveTo(w, s) == stage' = [stage EXCEPT ![w] = s]
End(w, v) ==
    /\ MoveTo(w, "idle") /\ verdict' = [verdict EXCEPT ![job[w]] = v]

(* CalibrateSoft404: before the scan, every answer to a probe with status 200  *)
(* or 204 and a body becomes a cluster that counts as full; a probe may fail. *)
IsBaseline(r) == r.status \in {200, 204} /\ r.body # 0
SeedBaseline(cs, body) == <<[centroid |-> body, count |-> ClusterLimit]>> \o cs
Calibrated == probed = Len(site.missing)
CalibrateSoft404 ==
    /\ ~Calibrated /\ probed' = probed + 1
    /\ LET r == site.missing[probed + 1] IN
       \/ /\ IsBaseline(r)
          /\ clusters' = SeedBaseline(clusters, r.body) /\ seeded' = seeded \cup {r.body}
       \/ UNCHANGED <<clusters, seeded>>
    /\ UNCHANGED <<setting, fpCounts, signatures, queue, filter, probing, stage, job, count,
                   verdict, notices, evicted>>

Take(w) ==
    /\ Calibrated /\ stage[w] = "idle"
    /\ \E p \in queue : queue' = queue \ {p} /\ job' = [job EXCEPT ![w] = p]
    /\ MoveTo(w, "filter")
    /\ UNCHANGED <<setting, calibration, clusters, fpCounts, signatures,
                   filter, probing, count, verdict, notices, evicted>>

(* One cluster more: it moves up past the clusters it now exceeds.            *)
BubbleUp(cs, i) ==
    LET grown == [cs[i] EXCEPT !.count = @ + 1]
        at == CHOOSE k \in 1..i :
                 /\ \A j \in k..(i - 1) : grown.count > cs[j].count
                 /\ k = 1 \/ grown.count <= cs[k - 1].count
    IN [seq |-> [j \in DOMAIN cs |->
                    IF j = at THEN grown ELSE IF j \in (at + 1)..i THEN cs[j - 1] ELSE cs[j]],
        count |-> grown.count]
CrowdedEarly(n) == n >= ClusterLimit - 1
Crowded(n) == n >= ClusterLimit

(* IsSoftFour: the first cluster near enough takes the body; a body without   *)
(* one starts its own, in the place of the last when the table is full.       *)
IsSoftFour(body) ==
    LET near == {i \in DOMAIN clusters : Near(clusters[i].centroid, body)}
        first == CHOOSE i \in near : \A j \in near : i <= j
        fresh == [centroid |-> body, count |-> 1]
    IN IF ClusterLimit <= 0 THEN [seq |-> clusters, soft |-> FALSE]
       ELSE IF near # {} THEN LET up == BubbleUp(clusters, first)
                         IN [seq |-> up.seq, soft |-> Crowded(up.count)]
       ELSE IF Len(clusters) >= MaxClusters
            THEN [seq |-> [clusters EXCEPT ![Len(clusters)] = fresh], soft |-> FALSE]
       ELSE [seq |-> Append(clusters, fresh), soft |-> FALSE]

(* applyFilters: what the timing oracle found is kept (forceKeep); else match *)
(* codes and sizes come first, and an answer that passes them is counted in a *)
(* cluster when its body was asked for and is whole.                          *)
Hidden(r) == r.status \notin MatchCodes \/ r.size \in filterSizes
simhashEligible(r) == ~r.head /\ r.body # 0 /\ r.whole
Compared(r) == ~r.slow /\ simhashEligible(r)
applyFilters(w) ==
    LET r == Answer(job[w])
        soft == IsSoftFour(r.body)
    IN
    /\ stage[w] = "filter"
    /\ \/ /\ ~r.slow /\ Hidden(r) /\ End(w, "filtered") /\ UNCHANGED <<clusters, evicted>>
       \/ /\ r.slow \/ (~Hidden(r) /\ ~simhashEligible(r))
          /\ MoveTo(w, "count") /\ UNCHANGED <<clusters, verdict, evicted>>
       \/ /\ Compared(r) /\ ~Hidden(r)
          /\ clusters' = soft.seq
          /\ evicted' = (evicted \/ \E c \in Range(clusters) : \A d \in Range(soft.seq) :
                                       d.centroid # c.centroid)
          /\ IF soft.soft THEN End(w, "soft404") ELSE MoveTo(w, "count") /\ UNCHANGED verdict
    /\ UNCHANGED <<setting, calibration, fpCounts, signatures, queue,
                   filter, probing, job, count, notices>>

Fingerprint(r) == <<r.status, r.size, r.type, r.body>>
Counted(r) == r.size # -1 /\ r.status \in {200, 301, 302, 403}
CountOf(f) == IF f \in DOMAIN fpCounts THEN fpCounts[f] ELSE 0
countFingerprint(w) ==
    LET f == Fingerprint(Answer(job[w]))
        n == CountOf(f) + 1
    IN
    /\ stage[w] = "count"
    /\ IF Counted(Answer(job[w]))
       THEN /\ fpCounts' = [g \in DOMAIN fpCounts \cup {f} |-> IF g = f THEN n ELSE fpCounts[g]]
            /\ count' = [count EXCEPT ![w] = n] /\ MoveTo(w, "decide")
       ELSE MoveTo(w, "mirror") /\ UNCHANGED <<fpCounts, count>>
    /\ UNCHANGED <<setting, calibration, clusters, signatures, queue, filter,
                   probing, job, verdict, notices, evicted>>

(* The decision uses the count read under the lock.  The notice of the limit  *)
(* is lost when Results is full.                                              *)
autoFilter(w) ==
    LET n == count[w] IN
    /\ stage[w] = "decide"
    /\ \E sent \in BOOLEAN :
          notices' = IF AutoLimit > 0 /\ n = AutoLimit
                     THEN notices \cup {[print |-> Fingerprint(Answer(job[w])), sent |-> sent]}
                     ELSE notices
    /\ IF AutoLimit > 0 /\ n >= AutoLimit THEN End(w, "auto")
       ELSE MoveTo(w, "mirror") /\ UNCHANGED verdict
    /\ UNCHANGED <<setting, calibration, clusters, fpCounts, signatures,
                   queue, filter, probing, job, count, evicted>>

(* recursiveMirrorReferencePaths: the ancestors, and the path without one of  *)
(* two equal words in a row.                                                  *)
Ancestors(p) == {SubSeq(p, 1, n) : n \in 1..(Len(p) - 1)}
References(p) ==
    Ancestors(p) \cup {RemoveAt(p, i) : i \in {i \in 2..Len(p) : p[i] = p[i - 1]}}
Depth(p) == Len(p) - 1
IsMirror(p) ==
    \E r \in References(p) \cap DOMAIN signatures : signatures[r] = Fingerprint(Answer(p))
checkMirror(w) ==
    /\ stage[w] = "mirror"
    /\ \/ /\ Answer(job[w]).head /\ MoveTo(w, "report") /\ UNCHANGED verdict
       \/ /\ ~Answer(job[w]).head
          /\ IF Depth(job[w]) > 0 /\ IsMirror(job[w]) THEN End(w, "mirror")
             ELSE MoveTo(w, "remember") /\ UNCHANGED verdict
    /\ UNCHANGED <<setting, calibration, clusters, fpCounts, signatures,
                   queue, filter, probing, job, count, notices, evicted>>
RememberSignature(w) ==
    /\ stage[w] = "remember" /\ MoveTo(w, "report")
    /\ signatures' = [p \in DOMAIN signatures \cup {job[w]} |->
                        IF p = job[w] THEN Fingerprint(Answer(p)) ELSE signatures[p]]
    /\ UNCHANGED <<setting, calibration, clusters, fpCounts, queue, filter,
                   probing, job, count, verdict, notices, evicted>>

(* applyEagleDrift; a status of 0 stands for a path the old scan has not; an  *)
(* unknown size is not compared.                                              *)
applyEagleDrift(p) ==
    LET old == previous[p]
        new == Answer(p)
    IN IF old.status = 0 THEN "new"
       ELSE IF \/ old.status # new.status
               \/ old.size >= 0 /\ new.size >= 0 /\ old.size # new.size
               \/ old.body # 0 /\ new.body # 0 /\ old.body # new.body
       THEN "drift" ELSE "same"

(* The hit is published and its branch scheduled (ProcessHit).                *)
Prunes(p) == Answer(p).type = "static"
publish(w) ==
    /\ stage[w] = "report" /\ End(w, applyEagleDrift(job[w]))
    /\ probing' = IF Prunes(job[w]) THEN probing ELSE probing \cup {job[w]}
    /\ UNCHANGED <<setting, calibration, clusters, fpCounts, signatures,
                   queue, filter, job, count, notices, evicted>>

(* scanBranch: below a directory that answers unknown children, nothing is    *)
(* enumerated; else every word is submitted that the filter has not seen.     *)
checkRecursiveWildcard(p) == site.unknown[p] \in {0, 200, 301, 302, 401, 403}
Children(p) == {q \in SitePaths : Len(q) = Len(p) + 1 /\ SubSeq(q, 1, Len(p)) = p}
scanBranch(p) ==
    /\ p \in probing /\ probing' = probing \ {p}
    /\ queue' = IF checkRecursiveWildcard(p) THEN queue ELSE queue \cup (Children(p) \ filter)
    /\ filter' = IF checkRecursiveWildcard(p) THEN filter ELSE filter \cup Children(p)
    /\ UNCHANGED <<setting, calibration, clusters, fpCounts, signatures,
                   stage, job, count, verdict, notices, evicted>>

VerdictNext ==
    \/ CalibrateSoft404
    \/ \E w \in Judges :
          Take(w) \/ applyFilters(w) \/ countFingerprint(w) \/ autoFilter(w)
          \/ checkMirror(w) \/ RememberSignature(w) \/ publish(w)
    \/ \E p \in SitePaths : scanBranch(p)

VerdictTypeOK ==
    /\ site \in Sites /\ raw \in BOOLEAN /\ filterSizes \subseteq Nat /\ filter \subseteq SitePaths
    /\ \A c \in Range(clusters) : c.centroid \in Nat /\ c.count \in Nat \ {0}
    /\ Len(clusters) <= MaxClusters /\ DOMAIN signatures \subseteq SitePaths
    /\ \A w \in Judges : stage[w] = "idle" \/ job[w] \in SitePaths
    /\ queue \subseteq filter /\ probing \subseteq filter /\ probed \in 0..Len(site.missing)
    /\ verdict \in [SitePaths -> {"none", "filtered", "soft404", "auto", "mirror",
                              "new", "drift", "same"}]

Reported == {p \in SitePaths : verdict[p] \in {"new", "drift", "same"}}
Passed == {p \in SitePaths : verdict[p] \in {"soft404", "auto", "mirror", "new", "drift", "same"}}
InHand == {job[w] : w \in {w \in Judges : stage[w] # "idle"}}

(* The table stays ordered by count, so that the entry replaced at the limit  *)
(* is a smallest one (IsSoftFour).                                            *)
VerdictSorted == \A i \in 1..(Len(clusters) - 1) : clusters[i].count >= clusters[i + 1].count

(* A body is suppressed as a soft 404 only when it is like a baseline or one  *)
(* of a crowd of at least ClusterLimit bodies that are like one of them; what *)
(* was asked with HEAD, is cut or stays encoded never counts (applyFilters).  *)
VerdictSoftNeedsCrowd ==
    LET compared == {q \in Passed \cup InHand : Compared(Answer(q))} IN
    \A p \in SitePaths : verdict[p] = "soft404" =>
        \/ \E b \in seeded : Near(b, Answer(p).body)
        \/ \E c \in {Answer(q).body : q \in compared} :
              /\ Near(c, Answer(p).body)
              /\ Cardinality({q \in compared : Near(c, Answer(q).body)}) >= ClusterLimit

(* A whole page like the calibrated soft 404 page is never shown, however the *)
(* clusters grew around it, as long as none was replaced and the timing       *)
(* oracle did not pick it (IsSoftFour, applyFilters).                         *)
VerdictBaselineHidden ==
    \A p \in Reported : ~evicted /\ Compared(Answer(p)) =>
        \A b \in seeded : ~Near(b, Answer(p).body)

(* Of every fingerprint the auto-filter hides one notice was offered to       *)
(* Results, or is about to be, and never a second: a notice lost to a full    *)
(* channel is not repeated (the select of the auto-filter in worker).         *)
VerdictAnnounced ==
    /\ \A p \in SitePaths : verdict[p] = "auto" =>
          LET f == Fingerprint(Answer(p)) IN
          \/ \E x \in notices : x.print = f
          \/ \E w \in Judges : stage[w] = "decide" /\ Fingerprint(Answer(job[w])) = f
    /\ \A x, y \in notices : x.print = y.print => x = y

(* A page had with another method than HEAD that repeats one of its ancestors *)
(* had so is neither shown nor searched again: recursion ends on a site that  *)
(* mirrors itself (IsMirror, RememberSignature).                              *)
VerdictNoMirror ==
    \A p \in Reported : \A a \in Ancestors(p) :
        ~Answer(p).head /\ ~Answer(a).head => Fingerprint(Answer(p)) # Fingerprint(Answer(a))

(* Against a stored scan of the very same site no hit is an alert, and what   *)
(* the newest stored scan shows differently is one, when that scan asked with *)
(* the method of today; an unknown size is no difference (applyEagleDrift).   *)
VerdictEagle ==
    older # <<>> =>
        \A p \in Reported :
            LET was == Last(older).resp[p]
                now == Answer(p)
                differs == \/ was.status # now.status
                           \/ was.size # now.size /\ -1 \notin {was.size, now.size}
                           \/ raw /\ was.body # 0 /\ now.body # 0 /\ was.body # now.body
            IN was.head = now.head => verdict[p] = IF differs THEN "drift" ELSE "same"

(* Filters hide crowds, baselines and mirrors and nothing else, they say so,  *)
(* and alerts are the differences to the newest older scan.                   *)
VerdictsSound ==
    /\ VerdictTypeOK /\ VerdictSorted /\ VerdictSoftNeedsCrowd /\ VerdictBaselineHidden
    /\ VerdictAnnounced /\ VerdictNoMirror /\ VerdictEagle
=============================================================================

--------------------------- MODULE VerdictProofs ---------------------------
(* What is made of answers, for any number of workers, paths and jobs.  The   *)
(* filters, clusters and signatures hide crowds, baselines and mirrors and    *)
(* nothing else, they say so, and alerts are differences to the older scan;   *)
(* retries of blocked requests are made once and counted; the search finds    *)
(* the parameters of a page and its cost is bounded; what is reported of a    *)
(* path replayed under several roles is true of all of them; one slow answer  *)
(* decides nothing.                                                           *)
EXTENDS Verdict, WafEvasion, Findings, FiniteSetTheorems, SequenceTheorems,
        WellFoundedInduction, TLAPS

-----------------------------------------------------------------------------
LEMMA LeastIndex ==
  ASSUME NEW S, S \subseteq Nat, S # {}
  PROVE  \E x \in S : \A y \in S : x <= y
<1>1. IsWellFoundedOn(OpToRel(<, Nat), Nat)
  BY NatLessThanWellFounded
<1>2. PICK x \in S : \A y \in S : ~(<<y, x>> \in OpToRel(<, Nat))
  BY <1>1, WFMin
<1>3. \A y \in S : ~(y < x)
  BY <1>2 DEF OpToRel
<1> QED BY <1>3

-----------------------------------------------------------------------------
(* The filters, clusters and signatures.                                      *)

VerdictSafety == VerdictInit /\ [][VerdictNext]_verdictVars

VerdictStages == {"idle", "filter", "count", "decide", "mirror", "remember", "report"}
PastFilter == {"count", "decide", "mirror", "remember", "report"}
Judging == {w \in Judges : stage[w] # "idle"}
Cluster == [centroid : Nat, count : Nat \ {0}]
Ordered(cs) == \A i, j \in DOMAIN cs : i <= j => cs[i].count >= cs[j].count

VerdictTypes ==
    /\ site \in Sites /\ raw \in BOOLEAN /\ filterSizes \subseteq Nat
    /\ clusters \in Seq(Cluster) /\ Len(clusters) <= MaxClusters
    /\ probed \in 0..Len(site.missing) /\ seeded \subseteq Nat
    /\ \A f \in DOMAIN fpCounts : fpCounts[f] \in Nat
    /\ DOMAIN signatures \subseteq SitePaths
    /\ queue \subseteq filter /\ filter \subseteq SitePaths /\ probing \subseteq filter
    /\ stage \in [Judges -> VerdictStages] /\ DOMAIN job = Judges /\ count \in [Judges -> Nat]
    /\ verdict \in [SitePaths -> {"none", "filtered", "soft404", "auto", "mirror",
                                  "new", "drift", "same"}]

(* A path is judged once: while it waits or is in hand it has no verdict, and *)
(* it waits in one place or is in one hand.                                   *)
VerdictOnce ==
    /\ \A p \in queue \cup (SitePaths \ filter) : verdict[p] = "none"
    /\ \A w \in Judging : /\ job[w] \in filter \ queue /\ verdict[job[w]] = "none"
                       /\ \A v \in Judging : v # w => job[v] # job[w]

(* Before the scan there is a full cluster for every page found so far.       *)
VerdictCalibrates ==
    ~Calibrated => /\ Len(clusters) <= probed /\ Judging = {} /\ Reported = {}
                   /\ \A i \in DOMAIN clusters : clusters[i].count = ClusterLimit

(* The paths that were held against the clusters, and those of them that are  *)
(* like a body.                                                               *)
Held404 == Passed \cup {job[w] : w \in {w \in Judges : stage[w] \in PastFilter}}
Like(c) == {q \in Held404 : Compared(Answer(q)) /\ Near(c, Answer(q).body)}
Bodies(S) == {Answer(q).body : q \in {q \in S : Compared(Answer(q))}}
VerdictCrowds ==
    /\ \A i \in DOMAIN clusters :
          \/ clusters[i].centroid \in seeded
          \/ /\ clusters[i].centroid \in Bodies(Held404)
             /\ clusters[i].count <= Cardinality(Like(clusters[i].centroid))
    /\ \A p \in SitePaths : verdict[p] = "soft404" =>
          \/ \E b \in seeded : Near(b, Answer(p).body)
          \/ \E c \in Bodies(Held404) :
                Near(c, Answer(p).body) /\ Cardinality(Like(c)) >= ClusterLimit

Shown == Reported \cup {job[w] : w \in {w \in Judges : stage[w] \in PastFilter}}
HasFull(cs, b) == \E i \in DOMAIN cs : cs[i].centroid = b /\ cs[i].count >= ClusterLimit
VerdictBaselines ==
    ~evicted => /\ \A b \in seeded : HasFull(clusters, b)
                /\ \A p \in Shown : Compared(Answer(p)) =>
                      \A b \in seeded : ~Near(b, Answer(p).body)

(* A fingerprint at the limit was announced, or is about to be by the worker  *)
(* that reached the limit.                                                    *)
JobPrint(w) == Fingerprint(Answer(job[w]))
Announces(w, f) == stage[w] = "decide" /\ JobPrint(w) = f /\ count[w] = AutoLimit
Said == {x.print : x \in notices}
VerdictCounts ==
    /\ \A f \in DOMAIN fpCounts : AutoLimit > 0 /\ fpCounts[f] >= AutoLimit =>
          f \in Said \/ \E w \in Judges : Announces(w, f)
    /\ \A w \in Judges : stage[w] = "decide" =>
          JobPrint(w) \in DOMAIN fpCounts /\ count[w] <= fpCounts[JobPrint(w)]
    /\ \A p \in SitePaths : verdict[p] = "auto" =>
          /\ AutoLimit > 0 /\ Fingerprint(Answer(p)) \in DOMAIN fpCounts
          /\ fpCounts[Fingerprint(Answer(p))] >= AutoLimit

(* A fingerprint with a notice is at the limit and nobody is about to         *)
(* announce it; no two workers hold the same count of a fingerprint.          *)
VerdictNotices ==
    /\ \A f \in Said : /\ f \in DOMAIN fpCounts /\ fpCounts[f] >= AutoLimit
                        /\ \A w \in Judges : ~Announces(w, f)
    /\ \A w, v \in Judges :
          /\ w # v /\ stage[w] = "decide" /\ stage[v] = "decide" /\ JobPrint(w) = JobPrint(v)
          => count[w] # count[v]
    /\ \A x, y \in notices : x.print = y.print => x = y

(* Signatures are the answers of their paths; what is searched has one when   *)
(* it was not had with HEAD, and so has every such ancestor of a path that    *)
(* was submitted.                                                             *)
Signed(p) == Answer(p).head \/ p \in DOMAIN signatures
Unlike(p) ==
    Answer(p).head \/ \A a \in Ancestors(p) :
        ~Answer(a).head => Fingerprint(Answer(p)) # Fingerprint(Answer(a))
VerdictMirrors ==
    /\ \A a \in DOMAIN signatures : signatures[a] = Fingerprint(Answer(a))
    /\ \A p \in probing : Signed(p)
    /\ \A p \in filter : \A a \in Ancestors(p) : Signed(a)
    /\ \A w \in Judges : stage[w] \in {"remember", "report"} => Unlike(job[w])
    /\ \A w \in Judges : stage[w] = "report" => Signed(job[w])
    /\ \A p \in Reported : Unlike(p)

VerdictCompares ==
    /\ previous = LoadPreviousScan(older)
    /\ older = <<>> \/ \E s \in Sites : older = <<site, s>>
    /\ \A p \in Reported : verdict[p] = applyEagleDrift(p)

VerdictInv ==
    /\ VerdictTypes /\ VerdictOnce /\ Ordered(clusters) /\ VerdictCalibrates /\ VerdictCrowds
    /\ VerdictBaselines /\ VerdictCounts /\ VerdictNotices /\ VerdictMirrors /\ VerdictCompares

-----------------------------------------------------------------------------
(* One cluster more: the table keeps its order and its clusters.              *)
LEMMA BubbleUpAt ==
  ASSUME NEW cs \in Seq(Cluster), NEW i \in DOMAIN cs, Ordered(cs)
  PROVE  \E at \in 1..i : LET s == BubbleUp(cs, i).seq IN
            /\ s \in Seq(Cluster) /\ Len(s) = Len(cs)
            /\ s[at].centroid = cs[i].centroid /\ s[at].count = cs[i].count + 1
            /\ \A j \in (at + 1)..i : s[j] = cs[j - 1]
            /\ \A j \in DOMAIN cs : j \notin at..i => s[j] = cs[j]
            /\ \A j \in at..(i - 1) : cs[j].count < cs[i].count + 1
            /\ at = 1 \/ cs[i].count + 1 <= cs[at - 1].count
            /\ BubbleUp(cs, i).count = cs[i].count + 1
<1> DEFINE grown == [cs[i] EXCEPT !.count = @ + 1]
           Fits(k) == /\ \A j \in k..(i - 1) : grown.count > cs[j].count
                      /\ k = 1 \/ grown.count <= cs[k - 1].count
           at == CHOOSE k \in 1..i : Fits(k)
           S == {k \in 1..i : \A j \in k..(i - 1) : grown.count > cs[j].count}
           s == [j \in DOMAIN cs |->
                    IF j = at THEN grown ELSE IF j \in (at + 1)..i THEN cs[j - 1] ELSE cs[j]]
<1>1. /\ DOMAIN cs = 1..Len(cs) /\ Len(cs) \in Nat /\ i \in 1..Len(cs)
      /\ \A j \in 1..Len(cs) : cs[j] \in Cluster
  OBVIOUS
<1>2. grown \in Cluster /\ grown.centroid = cs[i].centroid /\ grown.count = cs[i].count + 1
  BY <1>1, SMTT(30) DEF Cluster
<1> HIDE DEF grown
<1>3. \E k \in 1..i : Fits(k)
  <2>1. i \in S
    BY <1>1
  <2>2. PICK k \in S : \A y \in S : k <= y
    <3>1. S \subseteq Nat /\ S # {}
      BY <2>1, <1>1
    <3> HIDE DEF S
    <3> QED BY <3>1, LeastIndex
  <2>3. k = 1 \/ grown.count <= cs[k - 1].count
    <3> SUFFICES ASSUME k # 1, ~(grown.count <= cs[k - 1].count) PROVE FALSE
      OBVIOUS
    <3>0. k \in 1..i /\ k - 1 \in 1..i /\ k - 1 \in 1..Len(cs)
      BY <1>1, <2>2
    <3>1. k - 1 \in 1..i /\ cs[k - 1].count \in Nat /\ grown.count \in Nat
      BY <1>1, <1>2, <3>0 DEF Cluster
    <3>2. \A j \in (k - 1)..(i - 1) : grown.count > cs[j].count
      <4> TAKE j \in (k - 1)..(i - 1)
      <4>1. CASE j = k - 1
        BY <4>1, <3>1
      <4>2. CASE j # k - 1
        BY <4>2, <3>1, <2>2
      <4> QED BY <4>1, <4>2
    <3>3. k - 1 \in S
      BY <3>1, <3>2
    <3> QED BY <3>1, <3>3, <2>2
  <2>4. Fits(k)
    BY <2>2, <2>3
  <2> QED BY <2>2, <2>4
<1>4. at \in 1..i /\ Fits(at)
  <2> HIDE DEF Fits
  <2> QED BY <1>3
<1>5. BubbleUp(cs, i) = [seq |-> s, count |-> grown.count]
  BY DEF BubbleUp, grown
<1> HIDE DEF at, S
<1>6. s \in [1..Len(cs) -> Cluster]
  <2>1. \A j \in 1..Len(cs) : j \in (at + 1)..i => j - 1 \in 1..Len(cs)
    BY <1>1, <1>4
  <2> QED BY <1>1, <1>2, <2>1
<1>7. s \in Seq(Cluster) /\ Len(s) = Len(cs)
  BY <1>1, <1>6
<1>8. s[at] = grown
  BY <1>1, <1>4
<1>9. \A j \in (at + 1)..i : s[j] = cs[j - 1]
  BY <1>1, <1>4
<1>10. \A j \in DOMAIN cs : j \notin at..i => s[j] = cs[j]
  BY <1>1, <1>4
<1>11. \A j \in at..(i - 1) : cs[j].count < cs[i].count + 1
  <2> TAKE j \in at..(i - 1)
  <2>1. cs[j].count \in Nat /\ cs[i].count \in Nat
    BY <1>1, <1>4, SMTT(30) DEF Cluster
  <2> QED BY <2>1, <1>2, <1>4
<1>12. at = 1 \/ cs[i].count + 1 <= cs[at - 1].count
  BY <1>2, <1>4
<1>13. BubbleUp(cs, i).seq = s /\ BubbleUp(cs, i).count = grown.count
  BY <1>5
<1> HIDE DEF s, Fits
<1> QED BY <1>2, <1>4, <1>7, <1>8, <1>9, <1>10, <1>11, <1>12, <1>13

(* The table after it: in order, with the same centroids, and only the        *)
(* cluster that took the body has counted it.                                 *)
Grown(cs, i, s) ==
    /\ s \in Seq(Cluster) /\ Len(s) = Len(cs) /\ Ordered(s)
    /\ BubbleUp(cs, i).count = cs[i].count + 1
    /\ \A j \in DOMAIN s : \E k \in DOMAIN cs :
          /\ s[j].centroid = cs[k].centroid
          /\ s[j].count = cs[k].count \/ (k = i /\ s[j].count = cs[k].count + 1)
    /\ \A k \in DOMAIN cs : \E j \in DOMAIN s :
          s[j].centroid = cs[k].centroid /\ s[j].count >= cs[k].count

LEMMA BubbleUpOK ==
  ASSUME NEW cs \in Seq(Cluster), NEW i \in DOMAIN cs, Ordered(cs),
         NEW s, s = BubbleUp(cs, i).seq
  PROVE  Grown(cs, i, s)
<1>1. PICK at \in 1..i :
            /\ s \in Seq(Cluster) /\ Len(s) = Len(cs)
            /\ s[at].centroid = cs[i].centroid /\ s[at].count = cs[i].count + 1
            /\ \A j \in (at + 1)..i : s[j] = cs[j - 1]
            /\ \A j \in DOMAIN cs : j \notin at..i => s[j] = cs[j]
            /\ \A j \in at..(i - 1) : cs[j].count < cs[i].count + 1
            /\ at = 1 \/ cs[i].count + 1 <= cs[at - 1].count
            /\ BubbleUp(cs, i).count = cs[i].count + 1
  BY BubbleUpAt
<1>2. /\ DOMAIN cs = 1..Len(cs) /\ DOMAIN s = 1..Len(cs) /\ Len(cs) \in Nat /\ i \in 1..Len(cs)
      /\ at \in 1..Len(cs) /\ at <= i /\ at \in Nat
  BY <1>1
<1>3. \A j \in 1..Len(cs) : cs[j].count \in Nat /\ s[j].count \in Nat
  <2>1. \A j \in 1..Len(cs) : cs[j] \in Cluster /\ s[j] \in Cluster
    BY <1>1, <1>2
  <2> QED BY <2>1 DEF Cluster
<1>4. \A j \in 1..Len(cs) : \/ j = at
                            \/ j \in (at + 1)..i /\ j - 1 \in at..(i - 1) /\ s[j] = cs[j - 1]
                            \/ j \notin at..i /\ s[j] = cs[j]
  BY <1>1, <1>2
<1>5. \A j \in DOMAIN s : \E k \in DOMAIN cs :
               /\ s[j].centroid = cs[k].centroid
               /\ s[j].count = cs[k].count \/ (k = i /\ s[j].count = cs[k].count + 1)
  <2> TAKE j \in DOMAIN s
  <2>1. CASE j = at
    BY <2>1, <1>1, <1>2
  <2>2. CASE j \in (at + 1)..i /\ s[j] = cs[j - 1]
    <3>1. j - 1 \in DOMAIN cs
      BY <2>2, <1>2
    <3> QED BY <2>2, <3>1
  <2>3. CASE s[j] = cs[j]
    BY <2>3, <1>2
  <2> QED BY <1>2, <1>4, <2>1, <2>2, <2>3
<1>6. \A k \in DOMAIN cs : \E j \in DOMAIN s :
               s[j].centroid = cs[k].centroid /\ s[j].count >= cs[k].count
  <2> TAKE k \in DOMAIN cs
  <2>1. CASE k = i
    BY <2>1, <1>1, <1>2, <1>3
  <2>2. CASE k \in at..(i - 1)
    <3>1. k + 1 \in (at + 1)..i /\ k + 1 \in DOMAIN s
      BY <2>2, <1>2
    <3>2. s[k + 1] = cs[k]
      BY <3>1, <1>1, <1>2
    <3>3. s[k + 1].count >= cs[k].count /\ s[k + 1].centroid = cs[k].centroid
      BY <3>2, <1>2, <1>3
    <3> DEFINE j == k + 1
    <3>4. j \in DOMAIN s /\ s[j].count >= cs[k].count /\ s[j].centroid = cs[k].centroid
      BY <3>1, <3>3
    <3> HIDE DEF j
    <3> QED BY <3>4
  <2>3. CASE k \notin at..i
    BY <2>3, <1>1, <1>2, <1>3
  <2> QED BY <1>2, <2>1, <2>2, <2>3
<1>7. Ordered(s)
  <2> SUFFICES ASSUME NEW j \in 1..Len(cs), NEW k \in 1..Len(cs), j < k
               PROVE  s[j].count >= s[k].count
    BY <1>2, <1>3 DEF Ordered
  <2> DEFINE n == cs[i].count + 1
  <2>1. \A x, y \in 1..Len(cs) : x <= y => cs[x].count >= cs[y].count
    BY <1>2 DEF Ordered
  <2>2. n \in Nat /\ n > cs[i].count
    BY <1>2, <1>3
  <2>3. CASE j = at
    <3>1. CASE k \in (at + 1)..i
      <4>1. k - 1 \in at..(i - 1) /\ k - 1 \in 1..Len(cs) /\ s[k] = cs[k - 1]
        BY <3>1, <1>1, <1>2
      <4>2. cs[k - 1].count < n
        BY <4>1, <1>1
      <4> HIDE DEF n
      <4>3. s[j].count = n
        BY <2>3, <1>1 DEF n
      <4> QED BY <4>1, <4>2, <4>3, <2>2, <1>3
    <3>2. CASE k \notin at..i /\ s[k] = cs[k]
      <4>1. cs[i].count >= cs[k].count
        BY <3>2, <2>1, <2>3, <1>2
      <4> QED BY <4>1, <3>2, <2>2, <2>3, <1>1, <1>3
    <3> QED BY <3>1, <3>2, <1>4, <2>3
  <2>4. CASE j \in (at + 1)..i /\ j - 1 \in at..(i - 1) /\ s[j] = cs[j - 1]
    <3>1. CASE k - 1 \in 1..Len(cs) /\ s[k] = cs[k - 1]
      BY <3>1, <2>4, <2>1, <1>2
    <3>2. CASE s[k] = cs[k]
      BY <3>2, <2>4, <2>1, <1>2
    <3> QED BY <3>1, <3>2, <1>2, <1>4, <2>4
  <2>5. CASE j \notin at..i /\ s[j] = cs[j]
    <3>1. CASE k = at
      <4>1. at # 1 /\ j <= at - 1 /\ at - 1 \in 1..Len(cs)
        BY <3>1, <2>5, <1>2
      <4>2. cs[j].count >= cs[at - 1].count
        BY <4>1, <2>1
      <4>3. n <= cs[at - 1].count
        BY <4>1, <1>1
      <4> HIDE DEF n
      <4>4. s[k].count = n
        BY <3>1, <1>1 DEF n
      <4> QED BY <4>1, <4>2, <4>3, <4>4, <2>2, <2>5, <1>3
    <3>2. CASE k \in (at + 1)..i /\ s[k] = cs[k - 1]
      <4>1. j <= k - 1 /\ k - 1 \in 1..Len(cs)
        BY <3>2, <1>2
      <4> QED BY <4>1, <3>2, <2>1, <2>5
    <3>3. CASE s[k] = cs[k]
      BY <3>3, <2>1, <2>5
    <3> QED BY <3>1, <3>2, <3>3, <1>4
  <2> QED BY <1>4, <2>3, <2>4, <2>5
<1> QED BY <1>1, <1>5, <1>6, <1>7 DEF Grown

-----------------------------------------------------------------------------
(* The outcome of the table for a body: a cluster near to it counts it, the   *)
(* first in the order of the table, or it starts a cluster of its own.        *)
Joins(cs, body, i) ==
    i \in DOMAIN cs /\ Near(cs[i].centroid, body)
    /\ \A j \in DOMAIN cs : Near(cs[j].centroid, body) => i <= j
Starts(cs, body, s) ==
    /\ \A i \in DOMAIN cs : ~Near(cs[i].centroid, body)
    /\ \/ s = Append(cs, [centroid |-> body, count |-> 1]) /\ Len(cs) < MaxClusters
       \/ /\ Len(cs) = MaxClusters
          /\ s = [cs EXCEPT ![Len(cs)] = [centroid |-> body, count |-> 1]]

LEMMA Limits ==
  ASSUME site \in Sites
  PROVE  /\ MaxClusters \in Nat \ {0} /\ ClusterLimit \in Nat \ {0} /\ AutoLimit \in Nat
         /\ Threshold \in Nat /\ Len(site.missing) \in Nat \ {0}
         /\ Len(site.missing) <= MaxClusters
         /\ \A i \in 1..Len(site.missing) :
               IsAnswer(site.missing[i]) /\ site.missing[i].size \in Nat
         /\ \A p \in SitePaths : IsAnswer(Answer(p))
<1>1. /\ MaxClusters \in Nat /\ ClusterLimit \in Nat \ {0} /\ AutoLimit \in Nat
      /\ Threshold \in Nat
      /\ site.missing \in Seq({site.missing[i] : i \in DOMAIN site.missing})
      /\ site.missing # <<>> /\ Len(site.missing) <= MaxClusters
      /\ \A i \in DOMAIN site.missing :
            IsAnswer(site.missing[i]) /\ site.missing[i].size \in Nat
      /\ \A p \in SitePaths : IsAnswer(site.resp[p])
  BY VerdictAssumption
<1> DEFINE m == site.missing
           T == {m[i] : i \in DOMAIN m}
<1> HIDE DEF T
<1>2. m \in Seq(T) /\ m # <<>>
  BY <1>1 DEF T
<1> HIDE DEF m
<1>3. Len(m) \in Nat \ {0} /\ DOMAIN m = 1..Len(m)
  BY <1>2
<1>4. MaxClusters # 0
  BY <1>1, <1>3 DEF m
<1> QED BY <1>1, <1>3, <1>4 DEF m, Answer

(* IsSoftFour joins or starts.                                                *)
LEMMA IsSoftFourOutcome ==
  ASSUME VerdictTypes, NEW body \in Nat,
         NEW r, r = IsSoftFour(body)
  PROVE  \/ \E i \in DOMAIN clusters :
               /\ Joins(clusters, body, i) /\ r.seq = BubbleUp(clusters, i).seq
               /\ r.soft = Crowded(BubbleUp(clusters, i).count)
         \/ Starts(clusters, body, r.seq) /\ r.soft = FALSE
<1> DEFINE near == {i \in DOMAIN clusters : Near(clusters[i].centroid, body)}
           first == CHOOSE i \in near : \A j \in near : i <= j
           fresh == [centroid |-> body, count |-> 1]
<1>1. site \in Sites /\ clusters \in Seq(Cluster) /\ Len(clusters) <= MaxClusters
  BY DEF VerdictTypes
<1>2. ~(ClusterLimit <= 0) /\ MaxClusters \in Nat
  BY <1>1, Limits
<1>3. DOMAIN clusters = 1..Len(clusters) /\ Len(clusters) \in Nat
  BY <1>1
<1>4. r = IF near # {} THEN LET up == BubbleUp(clusters, first)
                         IN [seq |-> up.seq, soft |-> Crowded(up.count)]
          ELSE IF Len(clusters) >= MaxClusters
               THEN [seq |-> [clusters EXCEPT ![Len(clusters)] = fresh], soft |-> FALSE]
          ELSE [seq |-> Append(clusters, fresh), soft |-> FALSE]
  BY <1>2 DEF IsSoftFour
<1>5. CASE near # {}
  <2>1. near \subseteq Nat
    BY <1>3
  <2>2. first \in near /\ \A j \in near : first <= j
    <3> HIDE DEF near
    <3>1. \E i \in near : \A j \in near : i <= j
      BY <1>5, <2>1, LeastIndex
    <3> QED BY <3>1
  <2>3. Joins(clusters, body, first)
    BY <2>2 DEF Joins
  <2>4. r.seq = BubbleUp(clusters, first).seq /\ r.soft = Crowded(BubbleUp(clusters, first).count)
    BY <1>4, <1>5
  <2> HIDE DEF first
  <2> QED BY <2>2, <2>3, <2>4
<1>6. CASE near = {}
  <2>1. \A i \in DOMAIN clusters : ~Near(clusters[i].centroid, body)
    BY <1>6
  <2> HIDE DEF near
  <2>2. CASE Len(clusters) >= MaxClusters
    <3>1. Len(clusters) = MaxClusters
      <4>1. Len(clusters) >= MaxClusters /\ Len(clusters) <= MaxClusters
        BY <2>2, <1>1
      <4>2. Len(clusters) \in Nat /\ MaxClusters \in Nat
        BY <1>2, <1>3
      <4> QED BY ONLY <4>1, <4>2
    <3>2. r.seq = [clusters EXCEPT ![Len(clusters)] = fresh] /\ r.soft = FALSE
      BY <2>2, <1>4, <1>6
    <3> QED BY <2>1, <3>1, <3>2 DEF Starts
  <2>3. CASE ~(Len(clusters) >= MaxClusters)
    <3>1. Len(clusters) < MaxClusters
      BY <2>3, <1>2, <1>3
    <3>2. r.seq = Append(clusters, fresh) /\ r.soft = FALSE
      BY <2>3, <1>4, <1>6
    <3> QED BY <2>1, <3>1, <3>2 DEF Starts
  <2> QED BY <2>2, <2>3
<1> QED BY <1>5, <1>6

(* The table after a fresh cluster.                                           *)
LEMMA StartsOK ==
  ASSUME NEW cs \in Seq(Cluster), Ordered(cs), NEW body \in Nat, NEW s, Starts(cs, body, s),
         MaxClusters \in Nat \ {0}
  PROVE  /\ s \in Seq(Cluster) /\ Len(s) <= MaxClusters /\ Ordered(s)
         /\ \A j \in DOMAIN s : \/ s[j].centroid = body /\ s[j].count = 1
                                \/ j \in DOMAIN cs /\ s[j] = cs[j]
         /\ \A k \in DOMAIN cs : k \in DOMAIN s /\ (s[k] = cs[k] \/ k = Len(cs))
<1> DEFINE fresh == [centroid |-> body, count |-> 1]
<1>1. fresh \in Cluster /\ fresh.centroid = body /\ fresh.count = 1
  BY DEF Cluster
<1> HIDE DEF fresh
<1>2. /\ DOMAIN cs = 1..Len(cs) /\ Len(cs) \in Nat
      /\ \A j \in 1..Len(cs) : cs[j] \in Cluster
  OBVIOUS
<1>3. \A j \in 1..Len(cs) : cs[j].count \in Nat /\ cs[j].count >= 1
  BY <1>2 DEF Cluster
<1>4. \A x, y \in 1..Len(cs) : x <= y => cs[x].count >= cs[y].count
  BY <1>2 DEF Ordered
<1>5. CASE s = Append(cs, fresh) /\ Len(cs) < MaxClusters
  <2>1. /\ s \in Seq(Cluster) /\ Len(s) = Len(cs) + 1 /\ DOMAIN s = 1..(Len(cs) + 1)
        /\ s[Len(cs) + 1] = fresh /\ \A j \in 1..Len(cs) : s[j] = cs[j]
    BY <1>1, <1>2, <1>5
  <2>2. Ordered(s)
    <3> SUFFICES ASSUME NEW x \in 1..(Len(cs) + 1), NEW y \in 1..(Len(cs) + 1), x <= y
                 PROVE  s[x].count >= s[y].count
      BY <2>1 DEF Ordered
    <3>1. CASE y = Len(cs) + 1
      BY <3>1, <2>1, <1>1, <1>2, <1>3
    <3>2. CASE y # Len(cs) + 1
      BY <3>2, <2>1, <1>2, <1>4
    <3> QED BY <3>1, <3>2
  <2> QED BY <1>1, <1>2, <1>5, <2>1, <2>2
<1>6. CASE Len(cs) = MaxClusters /\ s = [cs EXCEPT ![Len(cs)] = fresh]
  <2>1. /\ s \in Seq(Cluster) /\ Len(s) = Len(cs) /\ DOMAIN s = 1..Len(cs)
        /\ s[Len(cs)] = fresh /\ \A j \in 1..Len(cs) : j # Len(cs) => s[j] = cs[j]
    BY <1>1, <1>2, <1>6
  <2>2. Ordered(s)
    <3> SUFFICES ASSUME NEW x \in 1..Len(cs), NEW y \in 1..Len(cs), x <= y
                 PROVE  s[x].count >= s[y].count
      BY <2>1 DEF Ordered
    <3>1. CASE y = Len(cs)
      BY <3>1, <2>1, <1>1, <1>2, <1>3
    <3>2. CASE y # Len(cs)
      <4>1. ASSUME x = Len(cs) PROVE FALSE
        <5>1. y \in Nat /\ y <= x /\ x <= y /\ x \in Nat
          BY <4>1, <1>2
        <5> QED BY <5>1, <4>1, <3>2
      <4>2. s[x] = cs[x] /\ s[y] = cs[y]
        BY <3>2, <4>1, <2>1
      <4> QED BY <4>2, <1>4
    <3> QED BY <3>1, <3>2
  <2> QED BY <1>1, <1>2, <1>6, <2>1, <2>2
<1> QED BY <1>5, <1>6 DEF Starts, fresh

-----------------------------------------------------------------------------
LEMMA VerdictInitInv == VerdictInit => VerdictInv
<1> SUFFICES ASSUME VerdictInit PROVE VerdictInv
  OBVIOUS
<1> USE DEF VerdictInit
<1>1. site \in Sites
  OBVIOUS
<1>2. filterSizes \subseteq Nat /\ raw \in BOOLEAN
  <2>1. site.missing[1].size \in Nat
    BY <1>1, Limits
  <2> QED BY <2>1 DEF AutoCalibrate
<1>3. \A w \in Judges : stage[w] = "idle"
  OBVIOUS
<1>4. \A p \in SitePaths : verdict[p] = "none"
  OBVIOUS
<1>5. Reported = {} /\ Passed = {} /\ Judging = {} /\ Held404 = {} /\ Shown = {}
  BY <1>3, <1>4 DEF Reported, Passed, Judging, Held404, Shown, PastFilter
<1>6. Len(site.missing) \in Nat /\ 0 < MaxClusters /\ MaxClusters \in Nat
  BY <1>1, Limits
<1>7. VerdictTypes
  <2>1. clusters \in Seq(Cluster) /\ Len(clusters) = 0
    OBVIOUS
  <2>2. /\ stage \in [Judges -> VerdictStages] /\ DOMAIN job = Judges
        /\ count \in [Judges -> Nat]
    BY DEF VerdictStages
  <2> QED BY <1>1, <1>2, <1>6, <2>1, <2>2 DEF VerdictTypes
<1>8. VerdictOnce
  BY <1>4, <1>5 DEF VerdictOnce
<1>9. Ordered(clusters) /\ VerdictCalibrates /\ VerdictCrowds /\ VerdictBaselines
  BY <1>4, <1>5 DEF Ordered, VerdictCalibrates, VerdictCrowds, VerdictBaselines
<1>10. VerdictCounts /\ VerdictNotices
  BY <1>3, <1>4 DEF VerdictCounts, VerdictNotices, Said
<1>11. VerdictMirrors
  <2>1. ASSUME NEW p \in filter PROVE Ancestors(p) = {}
    <3>1. Len(p) = 1
      OBVIOUS
    <3>2. 1..(Len(p) - 1) = {}
      BY <3>1
    <3> QED BY <3>2 DEF Ancestors
  <2> QED BY <2>1, <1>3, <1>5 DEF VerdictMirrors
<1>12. VerdictCompares
  BY <1>5 DEF VerdictCompares
<1> QED BY <1>7, <1>8, <1>9, <1>10, <1>11, <1>12 DEF VerdictInv

-----------------------------------------------------------------------------
(* What a step of one worker does to the stages and the verdicts.             *)
LEMMA MoveToStage ==
  ASSUME VerdictTypes, NEW w \in Judges, NEW s \in VerdictStages, MoveTo(w, s)
  PROVE  /\ stage' \in [Judges -> VerdictStages]
         /\ stage'[w] = s /\ \A v \in Judges : v # w => stage'[v] = stage[v]
  BY DEF MoveTo, VerdictTypes

Verdicts == {"none", "filtered", "soft404", "auto", "mirror", "new", "drift", "same"}
LEMMA EndVerdict ==
  ASSUME VerdictTypes, VerdictOnce, NEW w \in Judging, NEW v \in Verdicts, End(w, v)
  PROVE  /\ stage' \in [Judges -> VerdictStages] /\ verdict' \in [SitePaths -> Verdicts]
         /\ stage'[w] = "idle" /\ \A x \in Judges : x # w => stage'[x] = stage[x]
         /\ job[w] \in SitePaths /\ verdict'[job[w]] = v
         /\ \A p \in SitePaths : p # job[w] => verdict'[p] = verdict[p]
<1>1. w \in Judges /\ "idle" \in VerdictStages /\ MoveTo(w, "idle")
  BY DEF Judging, VerdictStages, End
<1>2. job[w] \in SitePaths
  BY DEF VerdictOnce, VerdictTypes
<1>3. verdict \in [SitePaths -> Verdicts] /\ verdict' = [verdict EXCEPT ![job[w]] = v]
  BY DEF VerdictTypes, Verdicts, End
<1> QED BY <1>1, <1>2, <1>3, MoveToStage

Body(w) == Answer(job[w]).body
Weighed(w) == Compared(Answer(job[w]))
LEMMA FilterOutcome ==
  ASSUME VerdictInv, NEW w \in Judges, applyFilters(w)
  PROVE  /\ w \in Judging /\ job[w] \in filter /\ job[w] \in SitePaths /\ Body(w) \in Nat
         /\ stage[w] = "filter"
         /\ \/ End(w, "filtered") /\ UNCHANGED <<clusters, evicted>>
            \/ ~Weighed(w) /\ MoveTo(w, "count") /\ UNCHANGED <<clusters, verdict, evicted>>
            \/ /\ Weighed(w) /\ (evicted => evicted')
               /\ \E i \in DOMAIN clusters :
                     /\ Joins(clusters, Body(w), i) /\ clusters' = BubbleUp(clusters, i).seq
                     /\ IF clusters[i].count + 1 >= ClusterLimit THEN End(w, "soft404")
                        ELSE MoveTo(w, "count") /\ UNCHANGED verdict
            \/ /\ Weighed(w) /\ (evicted => evicted')
               /\ Starts(clusters, Body(w), clusters') /\ MoveTo(w, "count") /\ UNCHANGED verdict
               /\ evicted' = (evicted \/ \E c \in Range(clusters) : \A d \in Range(clusters') :
                                            d.centroid # c.centroid)
<1>1. stage[w] = "filter" /\ w \in Judging
  BY DEF applyFilters, Judging
<1>2. job[w] \in filter /\ job[w] \in SitePaths
  BY <1>1 DEF VerdictInv, VerdictOnce, VerdictTypes
<1>3. Body(w) \in Nat
  <2>1. IsAnswer(Answer(job[w]))
    BY <1>2, Limits DEF VerdictInv, VerdictTypes
  <2> QED BY <2>1 DEF IsAnswer, Body
<1> DEFINE soft == IsSoftFour(Body(w))
<1> DEFINE r == Answer(job[w])
<1>4. CASE Compared(r) /\ ~Hidden(r)
  <2>1. /\ clusters' = soft.seq
        /\ evicted' = (evicted \/ \E c \in Range(clusters) : \A d \in Range(clusters') :
                                            d.centroid # c.centroid)
        /\ IF soft.soft THEN End(w, "soft404") ELSE MoveTo(w, "count") /\ UNCHANGED verdict
    BY <1>4 DEF applyFilters, Body, Compared
  <2>2. \/ \E i \in DOMAIN clusters :
               /\ Joins(clusters, Body(w), i) /\ soft.seq = BubbleUp(clusters, i).seq
               /\ soft.soft = Crowded(BubbleUp(clusters, i).count)
        \/ Starts(clusters, Body(w), soft.seq) /\ soft.soft = FALSE
    BY <1>3, IsSoftFourOutcome DEF VerdictInv
  <2> HIDE DEF soft
  <2>3. ASSUME NEW i \in DOMAIN clusters
        PROVE  Crowded(BubbleUp(clusters, i).count) <=> clusters[i].count + 1 >= ClusterLimit
    <3>1. BubbleUp(clusters, i).count = clusters[i].count + 1
      <4>1. clusters \in Seq(Cluster) /\ Ordered(clusters)
        BY DEF VerdictInv, VerdictTypes
      <4>2. Grown(clusters, i, BubbleUp(clusters, i).seq)
        BY <2>3, <4>1, BubbleUpOK
      <4> QED BY <4>2 DEF Grown
    <3> QED BY <3>1 DEF Crowded
  <2> QED BY <1>1, <1>2, <1>3, <1>4, <2>1, <2>2, <2>3 DEF Weighed
<1>5. CASE ~(Compared(r) /\ ~Hidden(r))
  <2>1. \/ End(w, "filtered") /\ UNCHANGED <<clusters, evicted>>
        \/ ~Weighed(w) /\ MoveTo(w, "count") /\ UNCHANGED <<clusters, verdict, evicted>>
    BY <1>5 DEF applyFilters, Weighed, Compared
  <2> QED BY <1>1, <1>2, <1>3, <2>1
<1> QED BY <1>4, <1>5

(* The table before and after.                                                *)
LEMMA JoinedOK ==
  ASSUME VerdictInv, NEW i \in DOMAIN clusters, clusters' = BubbleUp(clusters, i).seq
  PROVE  /\ clusters' \in Seq(Cluster) /\ Len(clusters') = Len(clusters) /\ Ordered(clusters')
         /\ \A j \in DOMAIN clusters' : \E k \in DOMAIN clusters :
               /\ clusters'[j].centroid = clusters[k].centroid
               /\ \/ clusters'[j].count = clusters[k].count
                  \/ k = i /\ clusters'[j].count = clusters[k].count + 1
         /\ \A k \in DOMAIN clusters : \E j \in DOMAIN clusters' :
               /\ clusters'[j].centroid = clusters[k].centroid
               /\ clusters'[j].count >= clusters[k].count
<1>1. clusters \in Seq(Cluster) /\ Ordered(clusters)
  BY DEF VerdictInv, VerdictTypes
<1> DEFINE s == clusters'
<1>2. s = BubbleUp(clusters, i).seq
  OBVIOUS
<1> HIDE DEF s
<1>3. Grown(clusters, i, s)
  BY <1>1, <1>2, BubbleUpOK
<1> QED BY <1>3 DEF s, Grown

LEMMA StartedOK ==
  ASSUME VerdictInv, NEW body \in Nat, Starts(clusters, body, clusters')
  PROVE  /\ clusters' \in Seq(Cluster) /\ Len(clusters') <= MaxClusters /\ Ordered(clusters')
         /\ \A j \in DOMAIN clusters' :
               \/ clusters'[j].centroid = body /\ clusters'[j].count = 1
               \/ j \in DOMAIN clusters /\ clusters'[j] = clusters[j]
         /\ \A k \in DOMAIN clusters :
               k \in DOMAIN clusters' /\ (clusters'[k] = clusters[k] \/ k = Len(clusters))
<1>1. MaxClusters \in Nat \ {0}
  BY Limits DEF VerdictInv, VerdictTypes
<1>2. clusters \in Seq(Cluster) /\ Ordered(clusters)
  BY DEF VerdictInv, VerdictTypes
<1> QED BY <1>1, <1>2, StartsOK

(* The seeds of the calibration stand in front, all with the same count.      *)
LEMMA SeedOK ==
  ASSUME VerdictInv, CalibrateSoft404
  PROVE  /\ clusters' \in Seq(Cluster) /\ Len(clusters') <= probed' /\ probed' = probed + 1
         /\ probed' <= Len(site.missing) /\ seeded' \subseteq Nat /\ seeded \subseteq seeded'
         /\ \A j \in DOMAIN clusters' : clusters'[j].count = ClusterLimit
         /\ \A j \in DOMAIN clusters' :
               \/ clusters'[j].centroid \in seeded'
               \/ \E k \in DOMAIN clusters : clusters'[j] = clusters[k]
         /\ \A b \in seeded' : HasFull(clusters', b) \/ b \in seeded
         /\ \A k \in DOMAIN clusters : \E j \in DOMAIN clusters' : clusters'[j] = clusters[k]
         /\ Judging = {} /\ Judging' = {}
<1>1. /\ probed \in Nat /\ probed <= Len(site.missing) /\ ~Calibrated /\ probed' = probed + 1
      /\ clusters \in Seq(Cluster) /\ seeded \subseteq Nat
      /\ \A i \in 1..Len(site.missing) : IsAnswer(site.missing[i])
      /\ Len(site.missing) \in Nat /\ ClusterLimit \in Nat \ {0}
  BY Limits DEF VerdictInv, VerdictTypes, CalibrateSoft404
<1>2. /\ Len(clusters) <= probed /\ Judging = {}
      /\ \A i \in DOMAIN clusters : clusters[i].count = ClusterLimit
  BY <1>1 DEF VerdictInv, VerdictCalibrates
<1>3. probed' <= Len(site.missing) /\ probed + 1 \in 1..Len(site.missing)
  BY <1>1 DEF Calibrated
<1>4. Judging' = {}
  BY <1>2 DEF CalibrateSoft404, Judging
<1>5. DOMAIN clusters = 1..Len(clusters) /\ Len(clusters) \in Nat
  BY <1>1
<1>6. CASE UNCHANGED <<clusters, seeded>>
  <2>1. Len(clusters') <= probed'
    BY <1>6, <1>1, <1>2, <1>5
  <2> QED BY <1>1, <1>2, <1>3, <1>4, <1>6, <2>1
<1>7. ASSUME NEW body \in Nat, clusters' = SeedBaseline(clusters, body),
             seeded' = seeded \cup {body}
      PROVE  /\ clusters' \in Seq(Cluster) /\ Len(clusters') <= probed'
             /\ \A j \in DOMAIN clusters' : clusters'[j].count = ClusterLimit
             /\ \A j \in DOMAIN clusters' :
                   \/ clusters'[j].centroid \in seeded'
                   \/ \E k \in DOMAIN clusters : clusters'[j] = clusters[k]
             /\ \A b \in seeded' : HasFull(clusters', b) \/ b \in seeded
             /\ \A k \in DOMAIN clusters : \E j \in DOMAIN clusters' : clusters'[j] = clusters[k]
  <2> DEFINE seed == [centroid |-> body, count |-> ClusterLimit]
  <2>1. seed \in Cluster /\ seed.centroid = body /\ seed.count = ClusterLimit
    BY <1>1, <1>7 DEF Cluster
  <2>2. clusters' = <<seed>> \o clusters
    BY <1>7 DEF SeedBaseline
  <2> HIDE DEF seed
  <2>3. /\ clusters' \in Seq(Cluster) /\ Len(clusters') = Len(clusters) + 1
        /\ DOMAIN clusters' = 1..(Len(clusters) + 1) /\ clusters'[1] = seed
        /\ \A j \in 1..(Len(clusters) + 1) : j # 1 => clusters'[j] = clusters[j - 1]
    BY <1>1, <1>5, <2>1, <2>2
  <2>4. \A j \in 1..(Len(clusters) + 1) : j = 1 \/ j - 1 \in DOMAIN clusters
    BY <1>5
  <2>5. ASSUME NEW k \in DOMAIN clusters
        PROVE  \E j \in DOMAIN clusters' : clusters'[j] = clusters[k]
    <3>1. k + 1 \in DOMAIN clusters' /\ k + 1 # 1 /\ (k + 1) - 1 = k
      BY <1>5, <2>3
    <3> QED BY <2>3, <3>1
  <2>6. HasFull(clusters', body)
    BY <1>1, <1>5, <2>1, <2>3 DEF HasFull
  <2>7. Len(clusters') <= probed'
    BY <1>1, <1>2, <1>5, <2>3
  <2>8. ASSUME NEW j \in DOMAIN clusters'
        PROVE  /\ clusters'[j].count = ClusterLimit
               /\ \/ clusters'[j].centroid \in seeded'
                  \/ \E k \in DOMAIN clusters : clusters'[j] = clusters[k]
    BY <1>2, <1>7, <2>1, <2>3, <2>4
  <2> QED BY <1>7, <2>3, <2>5, <2>6, <2>7, <2>8
<1>8. CASE \E body \in Nat : clusters' = SeedBaseline(clusters, body) /\ seeded' = seeded \cup {body}
  BY <1>1, <1>2, <1>3, <1>4, <1>7, <1>8
<1> DEFINE r == site.missing[probed + 1]
<1>9. r.body \in Nat
  BY <1>1, <1>3 DEF IsAnswer
<1>10. \/ UNCHANGED <<clusters, seeded>>
       \/ clusters' = SeedBaseline(clusters, r.body) /\ seeded' = seeded \cup {r.body}
  BY DEF CalibrateSoft404
<1> HIDE DEF r
<1> QED BY <1>6, <1>8, <1>9, <1>10

-----------------------------------------------------------------------------
(* Each part of the invariant is kept by every step.                          *)

(* Which step it is, when the worker of a step is busy.                       *)
LEMMA JudgeIsBusy ==
  ASSUME VerdictInv, NEW w \in Judges,
         \/ countFingerprint(w) \/ autoFilter(w) \/ checkMirror(w) \/ RememberSignature(w)
         \/ publish(w)
  PROVE  w \in Judging /\ job[w] \in filter /\ job[w] \in SitePaths /\ job[w] \notin queue
<1>1. w \in Judging
  BY DEF countFingerprint, autoFilter, checkMirror, RememberSignature, publish, Judging
<1> QED BY <1>1 DEF VerdictInv, VerdictOnce, VerdictTypes

(* Drift has three outcomes.                                                  *)
LEMMA DriftOutcome == \A p : applyEagleDrift(p) \in {"new", "drift", "same"}
  BY DEF applyEagleDrift

LEMMA VerdictTypesStep ==
  ASSUME VerdictInv, [VerdictNext]_verdictVars
  PROVE  VerdictTypes'
<1>0. VerdictTypes /\ VerdictOnce
  BY DEF VerdictInv
<1> USE <1>0 DEF setting, calibration
<1>1. CASE UNCHANGED verdictVars
  BY <1>1 DEF verdictVars, VerdictTypes, Calibrated
<1>2. CASE CalibrateSoft404
  <2>1. Len(site.missing) <= MaxClusters /\ MaxClusters \in Nat /\ Len(site.missing) \in Nat
        /\ probed \in Nat
    BY Limits DEF VerdictTypes
  <2>2. /\ clusters' \in Seq(Cluster) /\ Len(clusters') <= probed' /\ probed' = probed + 1
        /\ probed' <= Len(site.missing) /\ seeded' \subseteq Nat
    BY <1>2, SeedOK
  <2>3. Len(clusters') \in Nat /\ Len(clusters') <= MaxClusters /\ probed' \in 0..Len(site.missing)
    BY <2>1, <2>2
  <2> QED BY <2>2, <2>3, <1>2 DEF CalibrateSoft404, VerdictTypes
<1>3. ASSUME NEW w \in Judges, Take(w) PROVE VerdictTypes'
  <2>1. stage' \in [Judges -> VerdictStages]
    BY <1>3, MoveToStage DEF Take, VerdictStages
  <2> QED BY <1>3, <2>1 DEF Take, VerdictTypes
<1>4. ASSUME NEW w \in Judges, applyFilters(w) PROVE VerdictTypes'
  <2>1. w \in Judging /\ Body(w) \in Nat
    BY <1>4, FilterOutcome
  <2>2. \/ UNCHANGED clusters
        \/ \E i \in DOMAIN clusters : clusters' = BubbleUp(clusters, i).seq
        \/ Starts(clusters, Body(w), clusters')
    BY <1>4, FilterOutcome
  <2>3. clusters' \in Seq(Cluster) /\ Len(clusters') <= MaxClusters
    BY <2>1, <2>2, JoinedOK, StartedOK DEF VerdictTypes
  <2>4. \/ \E v \in {"filtered", "soft404"} : End(w, v)
        \/ MoveTo(w, "count") /\ UNCHANGED verdict
    BY <1>4, FilterOutcome
  <2>5. stage' \in [Judges -> VerdictStages] /\ verdict' \in [SitePaths -> Verdicts]
    <3>1. CASE \E v \in {"filtered", "soft404"} : End(w, v)
      BY <3>1, <2>1, EndVerdict DEF Verdicts
    <3>2. CASE MoveTo(w, "count") /\ UNCHANGED verdict
      BY <3>2, MoveToStage DEF VerdictStages, VerdictTypes, Verdicts
    <3> QED BY <2>4, <3>1, <3>2
  <2> QED BY <1>4, <2>3, <2>5 DEF applyFilters, VerdictTypes, Verdicts
<1>5. ASSUME NEW w \in Judges, countFingerprint(w) PROVE VerdictTypes'
  <2> DEFINE f == Fingerprint(Answer(job[w]))
  <2>1. stage' \in [Judges -> VerdictStages]
    BY <1>5, MoveToStage DEF countFingerprint, VerdictStages
  <2>2. CountOf(f) \in Nat
    BY DEF CountOf, VerdictTypes
  <2>3. (\A g \in DOMAIN fpCounts : fpCounts[g] \in Nat)' /\ count' \in [Judges -> Nat]
    <3> HIDE DEF f
    <3>1. CASE Counted(Answer(job[w]))
      <4>1. /\ fpCounts' = [g \in DOMAIN fpCounts \cup {f} |->
                              IF g = f THEN CountOf(f) + 1 ELSE fpCounts[g]]
            /\ count' = [count EXCEPT ![w] = CountOf(f) + 1]
        BY <1>5, <3>1 DEF countFingerprint, f
      <4> QED BY <4>1, <2>2 DEF VerdictTypes
    <3>2. CASE ~Counted(Answer(job[w]))
      BY <1>5, <3>2 DEF countFingerprint, VerdictTypes
    <3> QED BY <3>1, <3>2
  <2> QED BY <1>5, <2>1, <2>3 DEF countFingerprint, VerdictTypes
<1>6. ASSUME NEW w \in Judges, autoFilter(w) PROVE VerdictTypes'
  <2>1. w \in Judging
    BY <1>6, JudgeIsBusy
  <2>2. stage' \in [Judges -> VerdictStages] /\ verdict' \in [SitePaths -> Verdicts]
    <3>1. CASE End(w, "auto")
      BY <3>1, <2>1, EndVerdict DEF Verdicts
    <3>2. CASE MoveTo(w, "mirror") /\ UNCHANGED verdict
      BY <3>2, MoveToStage DEF VerdictStages, VerdictTypes, Verdicts
    <3> QED BY <1>6, <3>1, <3>2 DEF autoFilter
  <2> QED BY <1>6, <2>2 DEF autoFilter, VerdictTypes, Verdicts
<1>7. ASSUME NEW w \in Judges, checkMirror(w) PROVE VerdictTypes'
  <2>1. w \in Judging
    BY <1>7, JudgeIsBusy
  <2>2. stage' \in [Judges -> VerdictStages] /\ verdict' \in [SitePaths -> Verdicts]
    <3>1. CASE End(w, "mirror")
      BY <3>1, <2>1, EndVerdict DEF Verdicts
    <3>2. CASE (MoveTo(w, "remember") \/ MoveTo(w, "report")) /\ UNCHANGED verdict
      BY <3>2, MoveToStage DEF VerdictStages, VerdictTypes, Verdicts
    <3> QED BY <1>7, <3>1, <3>2 DEF checkMirror
  <2> QED BY <1>7, <2>2 DEF checkMirror, VerdictTypes, Verdicts
<1>8. ASSUME NEW w \in Judges, RememberSignature(w) PROVE VerdictTypes'
  <2>1. stage' \in [Judges -> VerdictStages]
    BY <1>8, MoveToStage DEF RememberSignature, VerdictStages
  <2>2. job[w] \in SitePaths
    BY <1>8, JudgeIsBusy
  <2>3. DOMAIN signatures' \subseteq SitePaths
    BY <1>8, <2>2 DEF RememberSignature, VerdictTypes
  <2> QED BY <1>8, <2>1, <2>3 DEF RememberSignature, VerdictTypes
<1>9. ASSUME NEW w \in Judges, publish(w) PROVE VerdictTypes'
  <2>1. w \in Judging /\ job[w] \in filter
    BY <1>9, JudgeIsBusy
  <2>2. stage' \in [Judges -> VerdictStages] /\ verdict' \in [SitePaths -> Verdicts]
    <3>1. applyEagleDrift(job[w]) \in Verdicts /\ End(w, applyEagleDrift(job[w]))
      BY <1>9, DriftOutcome DEF Verdicts, publish
    <3> HIDE DEF Verdicts
    <3> QED BY <3>1, <2>1, EndVerdict
  <2> QED BY <1>9, <2>1, <2>2 DEF publish, VerdictTypes, Verdicts
<1>10. ASSUME NEW p \in SitePaths, scanBranch(p) PROVE VerdictTypes'
  <2>1. Children(p) \subseteq SitePaths
    BY DEF Children
  <2>2. queue' \subseteq filter' /\ filter' \subseteq SitePaths /\ probing' \subseteq filter'
    BY <1>10, <2>1 DEF scanBranch, VerdictTypes
  <2> QED BY <1>10, <2>2 DEF scanBranch, VerdictTypes
<1> QED BY <1>1, <1>2, <1>3, <1>4, <1>5, <1>6, <1>7, <1>8, <1>9, <1>10 DEF VerdictNext

-----------------------------------------------------------------------------
(* A worker that goes on with its path.                                       *)
Later == {"auto", "mirror", "new", "drift", "same"}
Ends(w, V) ==
    /\ stage'[w] = "idle" /\ \E v \in V : verdict' = [verdict EXCEPT ![job[w]] = v]
Goes(w) == stage'[w] \in PastFilter /\ verdict' = verdict
Alone(w) ==
    /\ queue' = queue /\ filter' = filter /\ job' = job /\ site' = site
    /\ \A x \in Judges : x # w => stage'[x] = stage[x]

LEMMA LaterSteps ==
  ASSUME VerdictInv, NEW w \in Judges,
         \/ countFingerprint(w) \/ autoFilter(w) \/ checkMirror(w) \/ RememberSignature(w)
         \/ publish(w)
  PROVE  /\ w \in Judging /\ job[w] \in filter /\ stage[w] \in PastFilter /\ Alone(w)
         /\ Ends(w, Later) \/ Goes(w)
         /\ clusters' = clusters /\ evicted' = evicted /\ seeded' = seeded /\ probed' = probed
<1>0. VerdictTypes /\ VerdictOnce /\ w \in Judging /\ job[w] \in filter
  BY JudgeIsBusy DEF VerdictInv
<1>1. ASSUME NEW v \in Later, End(w, v)
      PROVE  Ends(w, Later) /\ \A x \in Judges : x # w => stage'[x] = stage[x]
  <2>1. v \in Verdicts
    BY DEF Later, Verdicts
  <2>2. stage'[w] = "idle" /\ \A x \in Judges : x # w => stage'[x] = stage[x]
    BY <1>0, <1>1, <2>1, EndVerdict
  <2> QED BY <1>1, <2>2 DEF Ends, End
<1>2. ASSUME NEW s \in PastFilter, MoveTo(w, s), verdict' = verdict
      PROVE  Goes(w) /\ \A x \in Judges : x # w => stage'[x] = stage[x]
  <2>1. s \in VerdictStages
    BY DEF PastFilter, VerdictStages
  <2> QED BY <1>0, <1>2, <2>1, MoveToStage DEF Goes
<1> USE DEF setting, calibration
<1>3. CASE countFingerprint(w)
  BY <1>0, <1>2, <1>3 DEF countFingerprint, Alone, PastFilter
<1>4. CASE autoFilter(w)
  BY <1>0, <1>1, <1>2, <1>4 DEF autoFilter, Alone, PastFilter, Later
<1>5. CASE checkMirror(w)
  BY <1>0, <1>1, <1>2, <1>5 DEF checkMirror, Alone, PastFilter, Later
<1>6. CASE RememberSignature(w)
  BY <1>0, <1>2, <1>6 DEF RememberSignature, Alone, PastFilter
<1>7. CASE publish(w)
  <2>1. applyEagleDrift(job[w]) \in Later
    BY DriftOutcome DEF Later
  <2> QED BY <1>0, <1>1, <1>7, <2>1 DEF publish, Alone, PastFilter
<1> QED BY <1>3, <1>4, <1>5, <1>6, <1>7

LEMMA FilterStep ==
  ASSUME VerdictInv, NEW w \in Judges, applyFilters(w)
  PROVE  /\ w \in Judging /\ job[w] \in filter /\ stage[w] = "filter" /\ Alone(w)
         /\ Ends(w, {"filtered", "soft404"}) \/ Goes(w)
         /\ seeded' = seeded /\ probed' = probed
<1>0. VerdictTypes /\ VerdictOnce /\ w \in Judging /\ job[w] \in filter /\ stage[w] = "filter"
  BY FilterOutcome DEF VerdictInv
<1>1. \/ \E v \in {"filtered", "soft404"} : End(w, v)
      \/ MoveTo(w, "count") /\ UNCHANGED verdict
  BY FilterOutcome
<1>2. (Ends(w, {"filtered", "soft404"}) \/ Goes(w)) /\ \A x \in Judges : x # w => stage'[x] = stage[x]
  <2>1. CASE \E v \in {"filtered", "soft404"} : End(w, v)
    BY <1>0, <2>1, EndVerdict DEF Verdicts, Ends, End
  <2>2. CASE MoveTo(w, "count") /\ UNCHANGED verdict
    BY <1>0, <2>2, MoveToStage DEF VerdictStages, Goes, PastFilter
  <2> QED BY <1>1, <2>1, <2>2
<1> QED BY <1>0, <1>2 DEF applyFilters, Alone, setting, calibration

(* It keeps its path to itself.                                               *)
LEMMA AloneOnce ==
  ASSUME VerdictInv, NEW w \in Judging, Alone(w), (\E V \in SUBSET Verdicts : Ends(w, V)) \/ Goes(w)
  PROVE  VerdictOnce'
<1>0. VerdictTypes /\ VerdictOnce
  BY DEF VerdictInv
<1>1. /\ job[w] \in filter \ queue /\ job[w] \in SitePaths /\ w \in Judges
      /\ \A v \in Judging : v # w => job[v] # job[w]
  BY <1>0 DEF VerdictOnce, VerdictTypes, Judging
<1>2. /\ queue' = queue /\ filter' = filter /\ job' = job
      /\ \A x \in Judges : x # w => stage'[x] = stage[x]
  BY DEF Alone
<1>3. Judging' \subseteq Judging
  BY <1>2 DEF Judging
<1>4. \A p \in SitePaths : p # job[w] => verdict'[p] = verdict[p]
  <2>1. verdict \in [SitePaths -> Verdicts]
    BY <1>0 DEF VerdictTypes, Verdicts
  <2> QED BY <2>1 DEF Ends, Goes
<1>5. w \in Judging' => verdict' = verdict
  BY DEF Ends, Goes, Judging
<1>6. queue \subseteq SitePaths /\ \A v \in Judging : job[v] \in SitePaths
  BY <1>0 DEF VerdictOnce, VerdictTypes
<1>7. \A p \in queue' \cup (SitePaths \ filter') : verdict'[p] = "none"
  BY <1>0, <1>1, <1>2, <1>4, <1>6 DEF VerdictOnce
<1>8. ASSUME NEW v \in Judging'
      PROVE  /\ job'[v] \in filter' \ queue' /\ verdict'[job'[v]] = "none"
             /\ \A x \in Judging' : x # v => job'[x] # job'[v]
  <2>1. v \in Judging
    BY <1>3, <1>8
  <2>2. job[v] \in filter \ queue /\ verdict[job[v]] = "none"
        /\ \A x \in Judging : x # v => job[x] # job[v]
    BY <1>0, <2>1 DEF VerdictOnce
  <2>3. verdict'[job[v]] = "none"
    BY <1>1, <1>4, <1>5, <1>6, <1>8, <2>1, <2>2
  <2> QED BY <1>2, <1>3, <2>2, <2>3
<1> QED BY <1>7, <1>8 DEF VerdictOnce

LEMMA VerdictOnceStep ==
  ASSUME VerdictInv, [VerdictNext]_verdictVars
  PROVE  VerdictOnce'
<1>0. VerdictTypes /\ VerdictOnce
  BY DEF VerdictInv
<1>1. CASE UNCHANGED verdictVars
  BY <1>0, <1>1 DEF verdictVars, VerdictOnce, Judging
<1>2. CASE CalibrateSoft404
  BY <1>0, <1>2 DEF CalibrateSoft404, VerdictOnce, Judging
<1>3. ASSUME NEW w \in Judges, Take(w) PROVE VerdictOnce'
  <2>1. PICK p \in queue : queue' = queue \ {p} /\ job' = [job EXCEPT ![w] = p]
    BY <1>3 DEF Take
  <2>2. /\ filter' = filter /\ verdict' = verdict /\ stage[w] = "idle"
        /\ \A x \in Judges : x # w => stage'[x] = stage[x]
    BY <1>0, <1>3, MoveToStage DEF Take, VerdictStages
  <2>3. job'[w] = p /\ \A x \in Judges : x # w => job'[x] = job[x]
    BY <1>0, <2>1 DEF VerdictTypes
  <2>4. \A x \in Judging' : x \in Judges /\ (x = w \/ x \in Judging)
    BY <2>2 DEF Judging
  <2>5. \A x \in Judging : job[x] # p
    BY <1>0, <2>1 DEF VerdictOnce
  <2>6. w \notin Judging
    BY <2>2 DEF Judging
  <2>7. p \in filter /\ p \notin queue' /\ verdict[p] = "none"
    BY <1>0, <2>1 DEF VerdictOnce, VerdictTypes
  <2>8. ASSUME NEW v \in Judging'
        PROVE  /\ job'[v] \in filter' \ queue' /\ verdict'[job'[v]] = "none"
               /\ \A x \in Judging' : x # v => job'[x] # job'[v]
    <3>1. CASE v = w
      BY <3>1, <2>2, <2>3, <2>4, <2>5, <2>7
    <3>2. CASE v # w
      <4>1. v \in Judging /\ job'[v] = job[v]
        BY <3>2, <2>3, <2>4, <2>8
      <4>2. job[v] \in filter \ queue /\ verdict[job[v]] = "none"
            /\ \A x \in Judging : x # v => job[x] # job[v]
        BY <1>0, <4>1 DEF VerdictOnce
      <4> QED BY <4>1, <4>2, <2>1, <2>2, <2>3, <2>4, <2>5
    <3> QED BY <3>1, <3>2
  <2>9. \A q \in queue' \cup (SitePaths \ filter') : verdict'[q] = "none"
    BY <1>0, <2>1, <2>2 DEF VerdictOnce
  <2> QED BY <2>8, <2>9 DEF VerdictOnce
<1>4. ASSUME NEW w \in Judges, applyFilters(w) PROVE VerdictOnce'
  <2>1. {"filtered", "soft404"} \in SUBSET Verdicts
    BY DEF Verdicts
  <2> QED BY <1>4, <2>1, FilterStep, AloneOnce
<1>5. ASSUME NEW w \in Judges,
             \/ countFingerprint(w) \/ autoFilter(w) \/ checkMirror(w) \/ RememberSignature(w)
             \/ publish(w)
      PROVE  VerdictOnce'
  <2>1. Later \in SUBSET Verdicts
    BY DEF Later, Verdicts
  <2> QED BY <1>5, <2>1, LaterSteps, AloneOnce
<1>6. ASSUME NEW p \in SitePaths, scanBranch(p) PROVE VerdictOnce'
  <2>1. /\ filter \subseteq filter' /\ verdict' = verdict /\ job' = job /\ stage' = stage
        /\ \A q \in queue' : q \in queue \/ q \in SitePaths \ filter
        /\ filter' \subseteq SitePaths
    BY <1>0, <1>6 DEF scanBranch, Children, VerdictTypes
  <2>2. Judging' = Judging
    BY <2>1 DEF Judging
  <2>3. ASSUME NEW q \in queue' \cup (SitePaths \ filter') PROVE verdict'[q] = "none"
    BY <1>0, <2>1, <2>3 DEF VerdictOnce
  <2>4. ASSUME NEW v \in Judging'
        PROVE  /\ job'[v] \in filter' \ queue' /\ verdict'[job'[v]] = "none"
               /\ \A x \in Judging' : x # v => job'[x] # job'[v]
    BY <1>0, <2>1, <2>2, <2>4 DEF VerdictOnce
  <2> QED BY <2>3, <2>4 DEF VerdictOnce
<1> QED BY <1>1, <1>2, <1>3, <1>4, <1>5, <1>6 DEF VerdictNext

(* The table stays in order, and what the calibration knows of it stays true. *)
LEMMA VerdictOrderStep ==
  ASSUME VerdictInv, [VerdictNext]_verdictVars
  PROVE  Ordered(clusters)' /\ VerdictCalibrates'
<1>0. VerdictTypes /\ Ordered(clusters) /\ VerdictCalibrates
  BY DEF VerdictInv
<1>1. CASE /\ clusters' = clusters /\ probed' = probed /\ site' = site
           /\ Calibrated \/ (Judging' = Judging /\ Reported' = Reported)
  <2>1. Ordered(clusters)'
    BY <1>0, <1>1 DEF Ordered
  <2> QED BY <1>0, <1>1, <2>1 DEF VerdictCalibrates, Calibrated
<1>2. CASE CalibrateSoft404
  <2>1. /\ Len(clusters') <= probed' /\ Judging' = {} /\ clusters' \in Seq(Cluster)
        /\ \A j \in DOMAIN clusters' : clusters'[j].count = ClusterLimit
    BY <1>2, SeedOK
  <2>3. Reported' = {}
    BY <1>0, <1>2 DEF CalibrateSoft404, VerdictCalibrates, Reported
  <2>2. ClusterLimit \in Nat
    BY <1>0, Limits DEF VerdictTypes
  <2> QED BY <2>1, <2>2, <2>3 DEF Ordered, VerdictCalibrates
<1>3. ASSUME NEW w \in Judges, Take(w) PROVE Ordered(clusters)' /\ VerdictCalibrates'
  BY <1>1, <1>3 DEF Take, setting, calibration
<1>4. \A w \in Judging : Calibrated
  BY <1>0 DEF VerdictCalibrates
<1>5. ASSUME NEW w \in Judges, applyFilters(w) PROVE Ordered(clusters)' /\ VerdictCalibrates'
  <2>1. w \in Judging /\ Body(w) \in Nat /\ probed' = probed /\ site' = site
    BY <1>5, FilterOutcome, FilterStep DEF Alone
  <2>2. \/ UNCHANGED clusters
        \/ \E i \in DOMAIN clusters : clusters' = BubbleUp(clusters, i).seq
        \/ Starts(clusters, Body(w), clusters')
    BY <1>5, FilterOutcome
  <2>3. Ordered(clusters')
    BY <1>0, <2>1, <2>2, JoinedOK, StartedOK
  <2> QED BY <1>4, <2>1, <2>3 DEF Calibrated, VerdictCalibrates, Ordered
<1>6. ASSUME NEW w \in Judges,
             \/ countFingerprint(w) \/ autoFilter(w) \/ checkMirror(w) \/ RememberSignature(w)
             \/ publish(w)
      PROVE  Ordered(clusters)' /\ VerdictCalibrates'
  BY <1>1, <1>4, <1>6, LaterSteps DEF Alone
<1>7. ASSUME NEW p \in SitePaths, scanBranch(p) PROVE Ordered(clusters)' /\ VerdictCalibrates'
  BY <1>1, <1>7 DEF scanBranch, setting, calibration, Judging, Reported
<1>8. CASE UNCHANGED verdictVars
  BY <1>1, <1>8 DEF verdictVars, Judging, Reported
<1> QED BY <1>2, <1>3, <1>5, <1>6, <1>7, <1>8 DEF VerdictNext

-----------------------------------------------------------------------------
(* Crowds.                                                                    *)
Alike(S, c) == {q \in S : Compared(Answer(q)) /\ Near(c, Answer(q).body)}
LEMMA HeldFinite ==
  ASSUME VerdictTypes, VerdictOnce
  PROVE  Held404 \subseteq SitePaths /\ IsFiniteSet(Held404)
<1>1. Held404 \subseteq SitePaths
  <2>1. ASSUME NEW w \in Judges, stage[w] \in PastFilter PROVE job[w] \in SitePaths
    BY <2>1 DEF VerdictTypes, VerdictOnce, Judging, PastFilter
  <2> QED BY <2>1 DEF Held404, Passed
<1>2. IsFiniteSet(SitePaths)
  BY VerdictAssumption
<1> QED BY <1>1, <1>2, FS_Subset

LEMMA AlikeGrows ==
  ASSUME NEW S, NEW T, S \subseteq T, IsFiniteSet(T), NEW c
  PROVE  /\ Cardinality(Alike(S, c)) \in Nat /\ Cardinality(Alike(T, c)) \in Nat
         /\ Cardinality(Alike(S, c)) <= Cardinality(Alike(T, c))
<1>1. Alike(T, c) \subseteq T /\ Alike(S, c) \subseteq Alike(T, c)
  BY DEF Alike
<1>2. IsFiniteSet(Alike(T, c))
  BY <1>1, FS_Subset
<1> QED BY <1>1, <1>2, FS_Subset, FS_CardinalityType

LEMMA AlikeOneMore ==
  ASSUME NEW S, NEW p, p \notin S, IsFiniteSet(S), NEW c, Near(c, Answer(p).body),
         Compared(Answer(p))
  PROVE  /\ Cardinality(Alike(S, c)) \in Nat
         /\ Cardinality(Alike(S \cup {p}, c)) = Cardinality(Alike(S, c)) + 1
<1>1. Alike(S, c) \subseteq S /\ Alike(S \cup {p}, c) = Alike(S, c) \cup {p} /\ p \notin Alike(S, c)
  BY DEF Alike
<1>2. IsFiniteSet(Alike(S, c))
  BY <1>1, FS_Subset
<1> QED BY <1>1, <1>2, FS_AddElement, FS_CardinalityType

(* What holds of a body among the paths held against the clusters, holds      *)
(* among more of them.                                                        *)
Crowd(S, c, n) == c \in Bodies(S) /\ n <= Cardinality(Alike(S, c))
LEMMA CrowdGrows ==
  ASSUME NEW S, NEW T, S \subseteq T, IsFiniteSet(T), NEW c, NEW n \in Nat, Crowd(S, c, n)
  PROVE  Crowd(T, c, n)
<1>1. c \in Bodies(T)
  BY DEF Crowd, Bodies
<1>2. n <= Cardinality(Alike(T, c))
  BY AlikeGrows DEF Crowd
<1> QED BY <1>1, <1>2 DEF Crowd

Suppressed(S, B, p) ==
    \/ \E b \in B : Near(b, Answer(p).body)
    \/ \E c \in Bodies(S) : Near(c, Answer(p).body) /\ Crowd(S, c, ClusterLimit)
CrowdsOK(cs, S, B, hidden) ==
    /\ \A i \in DOMAIN cs : cs[i].centroid \in B \/ Crowd(S, cs[i].centroid, cs[i].count)
    /\ \A p \in hidden : Suppressed(S, B, p)
Soft == {p \in SitePaths : verdict[p] = "soft404"}

LEMMA CrowdsAre ==
  ASSUME VerdictTypes
  PROVE  VerdictCrowds <=> CrowdsOK(clusters, Held404, seeded, Soft)
<1>0. ClusterLimit \in Nat
  BY Limits DEF VerdictTypes
<1>1. \A c : Alike(Held404, c) = Like(c)
  BY DEF Alike, Like
<1>2. \A i \in DOMAIN clusters :
         Crowd(Held404, clusters[i].centroid, clusters[i].count) <=>
            /\ clusters[i].centroid \in Bodies(Held404)
            /\ clusters[i].count <= Cardinality(Like(clusters[i].centroid))
  BY <1>1 DEF Crowd
<1>3. \A p \in SitePaths : Suppressed(Held404, seeded, p) <=>
          \/ \E b \in seeded : Near(b, Answer(p).body)
          \/ \E c \in Bodies(Held404) :
                Near(c, Answer(p).body) /\ Cardinality(Like(c)) >= ClusterLimit
  <2> TAKE p \in SitePaths
  <2>1. ASSUME NEW c \in Bodies(Held404)
        PROVE  Crowd(Held404, c, ClusterLimit) <=> Cardinality(Like(c)) >= ClusterLimit
    BY <1>1, <2>1, <1>0 DEF Crowd
  <2> QED BY <2>1 DEF Suppressed
<1> QED BY <1>2, <1>3 DEF VerdictCrowds, CrowdsOK, Soft

LEMMA SuppressedGrows ==
  ASSUME NEW S, NEW T, S \subseteq T, IsFiniteSet(T), NEW B, NEW C, B \subseteq C, NEW p,
         ClusterLimit \in Nat, Suppressed(S, B, p)
  PROVE  Suppressed(T, C, p)
<1>1. CASE \E b \in B : Near(b, Answer(p).body)
  BY <1>1 DEF Suppressed
<1>2. CASE \E c \in Bodies(S) :
              Near(c, Answer(p).body) /\ Crowd(S, c, ClusterLimit)
  <2>1. PICK c \in Bodies(S) :
              Near(c, Answer(p).body) /\ Crowd(S, c, ClusterLimit)
    BY <1>2
  <2>2. Crowd(T, c, ClusterLimit)
    BY <2>1, CrowdGrows
  <2>3. c \in Bodies(T)
    BY <2>2 DEF Crowd
  <2> QED BY <2>1, <2>2, <2>3 DEF Suppressed
<1> QED BY <1>1, <1>2 DEF Suppressed

LEMMA CrowdsGrow ==
  ASSUME NEW cs \in Seq(Cluster), NEW ds, NEW S, NEW T, S \subseteq T, IsFiniteSet(T),
         NEW B, NEW C, B \subseteq C, ClusterLimit \in Nat, NEW hidden, CrowdsOK(cs, S, B, hidden),
         \A j \in DOMAIN ds : ds[j].centroid \in C \/ \E k \in DOMAIN cs : ds[j] = cs[k]
  PROVE  CrowdsOK(ds, T, C, hidden)
<1>1. ASSUME NEW j \in DOMAIN ds
      PROVE  ds[j].centroid \in C \/ Crowd(T, ds[j].centroid, ds[j].count)
  <2>1. CASE ds[j].centroid \in C
    BY <2>1
  <2>2. CASE \E k \in DOMAIN cs : ds[j] = cs[k]
    <3>1. PICK k \in DOMAIN cs : ds[j] = cs[k]
      BY <2>2
    <3>2. cs[k].count \in Nat
      <4>1. cs[k] \in Cluster
        OBVIOUS
      <4> QED BY <4>1 DEF Cluster
    <3>3. cs[k].centroid \in B \/ Crowd(S, cs[k].centroid, cs[k].count)
      BY DEF CrowdsOK
    <3>4. CASE Crowd(S, cs[k].centroid, cs[k].count)
      <4>1. Crowd(T, cs[k].centroid, cs[k].count)
        BY <3>2, <3>4, CrowdGrows
      <4> QED BY <3>1, <4>1
    <3> QED BY <3>1, <3>3, <3>4
  <2> QED BY <1>1, <2>1, <2>2
<1>2. ASSUME NEW p \in hidden PROVE Suppressed(T, C, p)
  <2>1. Suppressed(S, B, p)
    BY <1>2 DEF CrowdsOK
  <2> QED BY <2>1, SuppressedGrows
<1> QED BY <1>1, <1>2 DEF CrowdsOK

LEMMA CrowdsPrimed ==
  ASSUME site' = site, VerdictTypes',
         CrowdsOK(clusters', Held404', seeded', Soft')
  PROVE  VerdictCrowds'
<1>0. ClusterLimit \in Nat
  BY Limits DEF VerdictTypes
<1>1. \A p : Answer(p)' = Answer(p)
  BY DEF Answer
<1>2. Bodies(Held404)' = Bodies(Held404')
  BY <1>1 DEF Bodies
<1>3. \A c : Like(c)' = Alike(Held404', c)
  BY <1>1 DEF Alike, Like
<1>4. ASSUME NEW i \in DOMAIN clusters'
      PROVE  \/ clusters'[i].centroid \in seeded'
             \/ /\ clusters'[i].centroid \in Bodies(Held404)'
                /\ clusters'[i].count <= Cardinality(Like(clusters[i].centroid)')
  BY <1>2, <1>3, <1>4 DEF CrowdsOK, Crowd
<1>5. ASSUME NEW p \in SitePaths, verdict'[p] = "soft404"
      PROVE  \/ \E b \in seeded' : Near(b, Answer(p).body)
             \/ \E c \in Bodies(Held404)' :
                   Near(c, Answer(p).body) /\ Cardinality(Like(c)') >= ClusterLimit
  <2>1. Suppressed(Held404', seeded', p)
    BY <1>5 DEF CrowdsOK, Soft
  <2>2. CASE \E b \in seeded' : Near(b, Answer(p).body)
    BY <2>2
  <2>3. CASE \E c \in Bodies(Held404') :
                Near(c, Answer(p).body) /\ Crowd(Held404', c, ClusterLimit)
    <3>1. PICK c \in Bodies(Held404') :
                Near(c, Answer(p).body) /\ Crowd(Held404', c, ClusterLimit)
      BY <2>3
    <3>2. ClusterLimit <= Cardinality(Like(c)')
      BY <3>1, <1>3 DEF Crowd
    <3>3. Cardinality(Like(c)') >= ClusterLimit
      BY <3>2
    <3> QED BY <3>1, <3>3, <1>2
  <2> QED BY <2>1, <2>2, <2>3 DEF Suppressed
<1> QED BY <1>1, <1>4, <1>5 DEF VerdictCrowds

(* What is held against the clusters is held from then on.                    *)
Settled == {"soft404", "auto", "mirror", "new", "drift", "same"}
LEMMA HeldKept ==
  ASSUME VerdictInv, NEW w \in Judging, Alone(w), Ends(w, Later) \/ Goes(w)
  PROVE  Held404 \subseteq Held404' /\ job[w] \in Held404' /\ Soft' = Soft
<1>0. VerdictTypes /\ VerdictOnce /\ w \in Judges
  BY DEF VerdictInv, Judging
<1>1. job[w] \in SitePaths /\ verdict[job[w]] = "none"
  BY <1>0 DEF VerdictTypes, VerdictOnce
<1>2. verdict \in [SitePaths -> Verdicts]
  BY <1>0 DEF VerdictTypes, Verdicts
<1>3. job' = job /\ \A x \in Judges : x # w => stage'[x] = stage[x]
  BY DEF Alone
<1>4. CASE Goes(w)
  <2>1. verdict' = verdict /\ stage'[w] \in PastFilter
    BY <1>4 DEF Goes
  <2> QED BY <2>1, <1>0, <1>3 DEF Held404, Passed, Soft
<1>5. CASE Ends(w, Later)
  <2>1. PICK v \in Later : verdict' = [verdict EXCEPT ![job[w]] = v]
    BY <1>5 DEF Ends
  <2>2. verdict'[job[w]] = v /\ \A p \in SitePaths : p # job[w] => verdict'[p] = verdict[p]
    BY <2>1, <1>1, <1>2
  <2>3. v \in Settled /\ v # "soft404"
    BY DEF Later, Settled
  <2>4. Passed' = Passed \cup {job[w]}
    <3>1. Passed' = {p \in SitePaths : verdict'[p] \in Settled}
      BY DEF Passed, Settled
    <3>2. Passed = {p \in SitePaths : verdict[p] \in Settled}
      BY DEF Passed, Settled
    <3> QED BY <3>1, <3>2, <2>2, <2>3, <1>1
  <2>5. Soft' = Soft
    BY <1>1, <2>2, <2>3 DEF Soft
  <2> QED BY <2>4, <2>5, <1>0, <1>3 DEF Held404
<1> QED BY <1>4, <1>5

(* The step that holds a path against the clusters.                           *)
LEMMA HeldByFilter ==
  ASSUME VerdictInv, NEW w \in Judging, Alone(w), stage[w] = "filter"
  PROVE  /\ job[w] \notin Held404
         /\ End(w, "filtered") => Held404' = Held404 /\ Soft' = Soft
         /\ End(w, "soft404") => Held404' = Held404 \cup {job[w]} /\ Soft' = Soft \cup {job[w]}
         /\ Goes(w) => Held404' = Held404 \cup {job[w]} /\ Soft' = Soft
<1>0. VerdictTypes /\ VerdictOnce /\ w \in Judges
  BY DEF VerdictInv, Judging
<1>1. /\ job[w] \in SitePaths /\ verdict[job[w]] = "none"
      /\ \A x \in Judging : x # w => job[x] # job[w]
  BY <1>0 DEF VerdictTypes, VerdictOnce
<1>2. verdict \in [SitePaths -> Verdicts]
  BY <1>0 DEF VerdictTypes, Verdicts
<1>3. job' = job /\ \A x \in Judges : x # w => stage'[x] = stage[x]
  BY DEF Alone
<1>4. stage[w] \notin PastFilter /\ \A x \in Judges : stage[x] \in PastFilter => x \in Judging
  BY DEF PastFilter, Judging
<1>5. job[w] \notin Held404
  BY <1>1, <1>4 DEF Held404, Passed
<1>6. ASSUME Goes(w) PROVE Held404' = Held404 \cup {job[w]} /\ Soft' = Soft
  <2>1. verdict' = verdict /\ stage'[w] \in PastFilter
    BY <1>6 DEF Goes
  <2> QED BY <2>1, <1>0, <1>3, <1>4 DEF Held404, Passed, Soft
<1>7. Passed = {p \in SitePaths : verdict[p] \in Settled}
      /\ Passed' = {p \in SitePaths : verdict'[p] \in Settled}
  BY DEF Passed, Settled
<1>8. ASSUME NEW v \in Verdicts, End(w, v)
      PROVE  /\ verdict'[job[w]] = v /\ \A p \in SitePaths : p # job[w] => verdict'[p] = verdict[p]
             /\ {job[x] : x \in {x \in Judges : stage[x] \in PastFilter}}'
                = {job[x] : x \in {x \in Judges : stage[x] \in PastFilter}}
  <2>1. verdict'[job[w]] = v /\ \A p \in SitePaths : p # job[w] => verdict'[p] = verdict[p]
    BY <1>8, <1>1, <1>2 DEF End
  <2>2. stage'[w] = "idle"
    BY <1>8, <1>0, EndVerdict
  <2>3. "idle" \notin PastFilter
    BY DEF PastFilter
  <2>4. \A x \in Judges : stage'[x] \in PastFilter <=> stage[x] \in PastFilter
    BY <2>2, <2>3, <1>3, <1>4
  <2> QED BY <2>1, <2>4, <1>3
<1>9. ASSUME End(w, "filtered") PROVE Held404' = Held404 /\ Soft' = Soft
  <2>1. "filtered" \in Verdicts /\ "filtered" \notin Settled /\ "none" \notin Settled
    BY DEF Verdicts, Settled
  <2>2. Passed' = Passed
    BY <2>1, <1>1, <1>7, <1>8, <1>9
  <2>3. Soft' = Soft
    BY <2>1, <1>1, <1>8, <1>9 DEF Soft
  <2> QED BY <2>1, <2>2, <2>3, <1>8, <1>9 DEF Held404
<1>10. ASSUME End(w, "soft404")
       PROVE  Held404' = Held404 \cup {job[w]} /\ Soft' = Soft \cup {job[w]}
  <2>1. "soft404" \in Verdicts /\ "soft404" \in Settled
    BY DEF Verdicts, Settled
  <2>2. Passed' = Passed \cup {job[w]}
    BY <2>1, <1>1, <1>7, <1>8, <1>10
  <2>3. Soft' = Soft \cup {job[w]}
    BY <2>1, <1>1, <1>8, <1>10 DEF Soft
  <2> QED BY <2>1, <2>2, <2>3, <1>8, <1>10 DEF Held404
<1> QED BY <1>5, <1>6, <1>9, <1>10

LEMMA NearIsSymmetric ==
  ASSUME NEW a \in Nat, NEW b \in Nat, Threshold \in Nat
  PROVE  (Near(a, b) <=> Near(b, a)) /\ Near(a, a)
  BY DEF Near, hammingDistance

LEMMA FilterCrowds ==
  ASSUME VerdictInv, VerdictTypes', VerdictOnce', NEW w \in Judges, applyFilters(w)
  PROVE  CrowdsOK(clusters', Held404', seeded', Soft')
<1> DEFINE p == job[w]
           S == Held404
           T == S \cup {p}
<1>0. VerdictTypes /\ VerdictOnce /\ VerdictCrowds
  BY DEF VerdictInv
<1>1. /\ w \in Judging /\ p \in SitePaths /\ Body(w) \in Nat /\ Alone(w) /\ stage[w] = "filter"
      /\ seeded' = seeded
  BY FilterOutcome, FilterStep
<1>2. /\ p \notin S
      /\ End(w, "filtered") => Held404' = S /\ Soft' = Soft
      /\ End(w, "soft404") => Held404' = T /\ Soft' = Soft \cup {p}
      /\ Goes(w) => Held404' = T /\ Soft' = Soft
  BY <1>1, HeldByFilter
<1>3. CrowdsOK(clusters, S, seeded, Soft)
  BY <1>0, CrowdsAre
<1>4. IsFiniteSet(S) /\ IsFiniteSet(T)
  <2>1. IsFiniteSet(S) /\ S \subseteq SitePaths
    BY <1>0, HeldFinite
  <2>2. IsFiniteSet(T)
    BY <2>1, <1>2, FS_AddElement
  <2> QED BY <2>1, <2>2
<1>5. ClusterLimit \in Nat \ {0} /\ Threshold \in Nat /\ clusters \in Seq(Cluster)
  BY <1>0, Limits DEF VerdictTypes
<1>6. MoveTo(w, "count") => Goes(w) \/ verdict' # verdict
  BY <1>0, <1>1, MoveToStage DEF Goes, PastFilter, VerdictStages, Judging
<1>7. Body(w) = Answer(p).body /\ (Weighed(w) => Compared(Answer(p)))
  BY DEF Body, Weighed
<1> HIDE DEF T, S, p
<1>8. S \subseteq T /\ p \in T
  BY DEF T
<1>9. CASE clusters' = clusters /\ (End(w, "filtered") \/ (MoveTo(w, "count") /\ verdict' = verdict))
  <2>1. \A j \in DOMAIN clusters : \E k \in DOMAIN clusters : clusters[j] = clusters[k]
    OBVIOUS
  <2>2. CrowdsOK(clusters, T, seeded, Soft)
    BY <2>1, <1>3, <1>4, <1>5, <1>8, CrowdsGrow
  <2> QED BY <2>2, <1>1, <1>2, <1>3, <1>6, <1>9
<1>10. ASSUME NEW i \in DOMAIN clusters,
              Joins(clusters, Body(w), i), clusters' = BubbleUp(clusters, i).seq,
              Weighed(w),
              IF clusters[i].count + 1 >= ClusterLimit THEN End(w, "soft404")
              ELSE MoveTo(w, "count") /\ UNCHANGED verdict
       PROVE  CrowdsOK(clusters', Held404', seeded', Soft')
  <2> DEFINE c == clusters[i].centroid
             n == clusters[i].count
  <2>1. \A j \in DOMAIN clusters' : \E k \in DOMAIN clusters :
               /\ clusters'[j].centroid = clusters[k].centroid
               /\ \/ clusters'[j].count = clusters[k].count
                  \/ k = i /\ clusters'[j].count = clusters[k].count + 1
    BY <1>10, JoinedOK
  <2>2. c \in Nat /\ n \in Nat /\ Near(c, Answer(p).body)
        /\ \A k \in DOMAIN clusters : clusters[k].count \in Nat
    <3>1. \A k \in DOMAIN clusters : clusters[k] \in Cluster
      BY <1>5
    <3> QED BY <3>1, <1>7, <1>10 DEF Cluster, Joins
  <2>3. Held404' = T /\ (n + 1 >= ClusterLimit => Soft' = Soft \cup {p})
        /\ (~(n + 1 >= ClusterLimit) => Soft' = Soft)
    BY <1>2, <1>6, <1>10
  <2>4. c \in seeded \/ Crowd(T, c, n + 1)
    <3>1. c \in seeded \/ Crowd(S, c, n)
      BY <1>3 DEF CrowdsOK
    <3>2. CASE Crowd(S, c, n)
      <4>1. /\ Cardinality(Alike(S, c)) \in Nat
            /\ Cardinality(Alike(T, c)) = Cardinality(Alike(S, c)) + 1
        BY <1>2, <1>4, <1>7, <1>10, <2>2, AlikeOneMore DEF T
      <4>2. n <= Cardinality(Alike(S, c)) /\ c \in Bodies(T)
        BY <3>2, <1>8 DEF Crowd, Bodies
      <4> HIDE DEF c, n
      <4>3. n + 1 <= Cardinality(Alike(T, c))
        BY <2>2, <4>1, <4>2
      <4> QED BY <4>2, <4>3 DEF Crowd
    <3> QED BY <3>1, <3>2
  <2>5. ASSUME NEW j \in DOMAIN clusters'
        PROVE  clusters'[j].centroid \in seeded \/ Crowd(T, clusters'[j].centroid, clusters'[j].count)
    <3>1. PICK k \in DOMAIN clusters :
               /\ clusters'[j].centroid = clusters[k].centroid
               /\ \/ clusters'[j].count = clusters[k].count
                  \/ k = i /\ clusters'[j].count = clusters[k].count + 1
      BY <2>1
    <3>2. CASE clusters'[j].count = clusters[k].count
      <4>1. clusters[k].centroid \in seeded \/ Crowd(S, clusters[k].centroid, clusters[k].count)
        BY <1>3 DEF CrowdsOK
      <4>2. CASE Crowd(S, clusters[k].centroid, clusters[k].count)
        <5>1. Crowd(T, clusters[k].centroid, clusters[k].count)
          BY <4>2, <2>2, <1>4, <1>8, CrowdGrows
        <5> QED BY <5>1, <3>1, <3>2
      <4> QED BY <4>1, <4>2, <3>1, <3>2
    <3>3. CASE k = i /\ clusters'[j].count = clusters[k].count + 1
      BY <3>1, <3>3, <2>4
    <3> QED BY <3>1, <3>2, <3>3
  <2>6. ASSUME n + 1 >= ClusterLimit PROVE Suppressed(T, seeded, p)
    <3>1. CASE c \in seeded
      BY <3>1, <2>2 DEF Suppressed
    <3>2. CASE Crowd(T, c, n + 1)
      <4>1. c \in Bodies(T) /\ n + 1 <= Cardinality(Alike(T, c))
        BY <3>2 DEF Crowd
      <4>2. Cardinality(Alike(T, c)) \in Nat
        BY <1>4, AlikeGrows
      <4> HIDE DEF c, n
      <4>3. Crowd(T, c, ClusterLimit)
        BY <4>1, <4>2, <2>2, <2>6, <1>5 DEF Crowd
      <4> QED BY <4>1, <4>3, <2>2 DEF Suppressed
    <3> QED BY <3>1, <3>2, <2>4
  <2>7. \A q \in Soft : Suppressed(T, seeded, q)
    <3> TAKE q \in Soft
    <3>1. Suppressed(S, seeded, q)
      BY <1>3 DEF CrowdsOK
    <3> QED BY <3>1, <1>4, <1>5, <1>8, SuppressedGrows
  <2> HIDE DEF c, n
  <2>8. \A q \in Soft' : Suppressed(T, seeded, q)
    BY <2>3, <2>6, <2>7
  <2> QED BY <2>3, <2>5, <2>8, <1>1 DEF CrowdsOK
<1>11. CASE /\ Starts(clusters, Body(w), clusters') /\ MoveTo(w, "count") /\ verdict' = verdict
            /\ Weighed(w)
  <2>1. \A j \in DOMAIN clusters' :
               \/ clusters'[j].centroid = Body(w) /\ clusters'[j].count = 1
               \/ j \in DOMAIN clusters /\ clusters'[j] = clusters[j]
    BY <1>1, <1>11, StartedOK
  <2>2. Held404' = T /\ Soft' = Soft
    BY <1>2, <1>6, <1>11
  <2>3. Crowd(T, Body(w), 1)
    <3>1. Near(Body(w), Answer(p).body)
      BY <1>1, <1>5, <1>7, NearIsSymmetric
    <3>2. /\ Cardinality(Alike(S, Body(w))) \in Nat
          /\ Cardinality(Alike(T, Body(w))) = Cardinality(Alike(S, Body(w))) + 1
      BY <3>1, <1>2, <1>4, <1>7, <1>11, AlikeOneMore DEF T
    <3>3. 1 <= Cardinality(Alike(T, Body(w)))
      BY <3>2
    <3>4. Body(w) \in Bodies(T)
      BY <1>7, <1>8, <1>11 DEF Bodies
    <3> QED BY <3>3, <3>4 DEF Crowd
  <2>4. ASSUME NEW j \in DOMAIN clusters'
        PROVE  clusters'[j].centroid \in seeded \/ Crowd(T, clusters'[j].centroid, clusters'[j].count)
    <3>1. CASE clusters'[j].centroid = Body(w) /\ clusters'[j].count = 1
      BY <3>1, <2>3
    <3>2. CASE j \in DOMAIN clusters /\ clusters'[j] = clusters[j]
      <4>1. clusters[j].centroid \in seeded \/ Crowd(S, clusters[j].centroid, clusters[j].count)
        BY <3>2, <1>3 DEF CrowdsOK
      <4>2. CASE Crowd(S, clusters[j].centroid, clusters[j].count)
        <5>1. clusters[j] \in Cluster
          BY <3>2, <1>5
        <5>2. clusters[j].count \in Nat
          BY <5>1 DEF Cluster
        <5>3. Crowd(T, clusters[j].centroid, clusters[j].count)
          BY <4>2, <5>2, <1>4, <1>8, CrowdGrows
        <5> QED BY <5>3, <3>2
      <4> QED BY <4>1, <4>2, <3>2
    <3> QED BY <2>1, <3>1, <3>2
  <2>5. \A q \in Soft : Suppressed(T, seeded, q)
    <3> TAKE q \in Soft
    <3>1. Suppressed(S, seeded, q)
      BY <1>3 DEF CrowdsOK
    <3> QED BY <3>1, <1>4, <1>5, <1>8, SuppressedGrows
  <2> QED BY <2>2, <2>4, <2>5, <1>1 DEF CrowdsOK
<1>12. \/ clusters' = clusters /\ (End(w, "filtered") \/ (MoveTo(w, "count") /\ verdict' = verdict))
       \/ \E i \in DOMAIN clusters :
             /\ Joins(clusters, Body(w), i) /\ clusters' = BubbleUp(clusters, i).seq
             /\ Weighed(w)
             /\ IF clusters[i].count + 1 >= ClusterLimit THEN End(w, "soft404")
                ELSE MoveTo(w, "count") /\ UNCHANGED verdict
       \/ /\ Starts(clusters, Body(w), clusters') /\ MoveTo(w, "count") /\ verdict' = verdict
          /\ Weighed(w)
  BY FilterOutcome
<1> QED BY <1>9, <1>10, <1>11, <1>12

LEMMA VerdictCrowdsStep ==
  ASSUME VerdictInv, [VerdictNext]_verdictVars, VerdictTypes', VerdictOnce'
  PROVE  VerdictCrowds'
<1>0. VerdictTypes /\ VerdictOnce /\ VerdictCrowds
  BY DEF VerdictInv
<1>1. CrowdsOK(clusters, Held404, seeded, Soft)
  BY <1>0, CrowdsAre
<1>2. ClusterLimit \in Nat /\ clusters \in Seq(Cluster) /\ IsFiniteSet(Held404)
  BY <1>0, Limits, HeldFinite DEF VerdictTypes
<1>3. IsFiniteSet(Held404')
  <2>1. Held404' \subseteq SitePaths
    <3>1. ASSUME NEW x \in Judges, stage'[x] \in PastFilter PROVE job'[x] \in SitePaths
      BY <3>1 DEF VerdictTypes, VerdictOnce, Judging, PastFilter
    <3> QED BY <3>1 DEF Held404, Passed
  <2> QED BY <2>1, VerdictAssumption, FS_Subset
<1>4. ASSUME site' = site, Held404 \subseteq Held404', Soft' = Soft, seeded \subseteq seeded',
             \A j \in DOMAIN clusters' :
                clusters'[j].centroid \in seeded' \/ \E k \in DOMAIN clusters : clusters'[j] = clusters[k]
      PROVE  VerdictCrowds'
  <2> DEFINE ds == clusters'
             T == Held404'
             C == seeded'
  <2>1. IsFiniteSet(T) /\ Held404 \subseteq T /\ seeded \subseteq C
        /\ \A j \in DOMAIN ds : ds[j].centroid \in C \/ \E k \in DOMAIN clusters : ds[j] = clusters[k]
    BY <1>3, <1>4
  <2> HIDE DEF ds, T, C
  <2>2. CrowdsOK(ds, T, C, Soft)
    BY <2>1, <1>1, <1>2, CrowdsGrow
  <2>3. CrowdsOK(clusters', Held404', seeded', Soft')
    BY <2>2, <1>4 DEF ds, T, C
  <2> QED BY <2>3, <1>4, CrowdsPrimed
<1>5. CASE stage' = stage /\ job' = job /\ verdict' = verdict /\ site' = site
           /\ clusters' = clusters /\ seeded' = seeded
  <2>1. Held404' = Held404 /\ Soft' = Soft
    BY <1>5 DEF Held404, Passed, Soft
  <2> QED BY <2>1, <1>4, <1>5
<1>6. CASE CalibrateSoft404
  <2>1. Held404' = Held404 /\ Soft' = Soft /\ site' = site
    BY <1>6 DEF CalibrateSoft404, Held404, Passed, Soft, setting
  <2>2. /\ seeded \subseteq seeded'
        /\ \A j \in DOMAIN clusters' :
             clusters'[j].centroid \in seeded' \/ \E k \in DOMAIN clusters : clusters'[j] = clusters[k]
    BY <1>6, SeedOK
  <2> QED BY <2>1, <2>2, <1>4
<1>7. ASSUME NEW w \in Judges, Take(w) PROVE VerdictCrowds'
  <2>1. /\ \A x \in Judges : x # w => stage'[x] = stage[x] /\ job'[x] = job[x]
        /\ stage'[w] = "filter" /\ stage[w] = "idle" /\ site' = site /\ verdict' = verdict
        /\ clusters' = clusters /\ seeded' = seeded
    BY <1>0, <1>7, MoveToStage DEF Take, VerdictStages, VerdictTypes, setting, calibration
  <2>2. \A x \in Judges : stage'[x] \in PastFilter <=> stage[x] \in PastFilter
    BY <2>1 DEF PastFilter
  <2>3. \A x \in Judges : stage[x] \in PastFilter => job'[x] = job[x]
    BY <2>1 DEF PastFilter
  <2>4. Held404 \subseteq Held404' /\ Soft' = Soft
    BY <2>1, <2>2, <2>3 DEF Held404, Passed, Soft
  <2> QED BY <2>1, <2>4, <1>4
<1>8. ASSUME NEW w \in Judges, applyFilters(w) PROVE VerdictCrowds'
  <2>1. CrowdsOK(clusters', Held404', seeded', Soft') /\ site' = site
    BY <1>8, FilterCrowds, FilterStep DEF Alone
  <2> QED BY <2>1, CrowdsPrimed
<1>9. ASSUME NEW w \in Judges,
             \/ countFingerprint(w) \/ autoFilter(w) \/ checkMirror(w) \/ RememberSignature(w)
             \/ publish(w)
      PROVE  VerdictCrowds'
  <2>1. /\ w \in Judging /\ Alone(w) /\ (Ends(w, Later) \/ Goes(w))
        /\ clusters' = clusters /\ seeded' = seeded /\ site' = site
    BY <1>9, LaterSteps DEF Alone
  <2>2. Held404 \subseteq Held404' /\ Soft' = Soft
    BY <2>1, HeldKept
  <2> QED BY <2>1, <2>2, <1>4
<1>10. ASSUME NEW p \in SitePaths, scanBranch(p) PROVE VerdictCrowds'
  BY <1>5, <1>10 DEF scanBranch, setting, calibration
<1>11. CASE UNCHANGED verdictVars
  BY <1>5, <1>11 DEF verdictVars
<1> QED BY <1>6, <1>7, <1>8, <1>9, <1>10, <1>11 DEF VerdictNext

-----------------------------------------------------------------------------
(* Baselines.                                                                 *)
LEMMA ShownByStep ==
  ASSUME VerdictInv, NEW w \in Judging, Alone(w)
  PROVE  /\ stage[w] \in PastFilter /\ (Ends(w, Later) \/ Goes(w)) => Shown' \subseteq Shown
         /\ Goes(w) => Shown' \subseteq Shown \cup {job[w]}
         /\ Ends(w, {"filtered", "soft404"}) => Shown' \subseteq Shown
<1>0. VerdictTypes /\ VerdictOnce /\ w \in Judges
  BY DEF VerdictInv, Judging
<1>1. job[w] \in SitePaths /\ verdict \in [SitePaths -> Verdicts]
  BY <1>0 DEF VerdictTypes, VerdictOnce, Verdicts
<1>2. job' = job /\ \A x \in Judges : x # w => stage'[x] = stage[x]
  BY DEF Alone
<1>3. ASSUME Goes(w) PROVE Shown' \subseteq Shown \cup {job[w]}
  BY <1>2, <1>3 DEF Goes, Shown, Reported
<1>4. ASSUME NEW V \in SUBSET Verdicts, Ends(w, V)
      PROVE  /\ Shown' \subseteq Shown \cup {job[w]}
             /\ V \cap {"new", "drift", "same"} = {} => Shown' \subseteq Shown
  <2>1. PICK v \in V : verdict' = [verdict EXCEPT ![job[w]] = v]
    BY <1>4 DEF Ends
  <2>2. verdict'[job[w]] = v /\ \A p \in SitePaths : p # job[w] => verdict'[p] = verdict[p]
    BY <2>1, <1>1
  <2>3. \A x \in Judges : stage'[x] \in PastFilter => x # w /\ stage[x] \in PastFilter
    BY <1>2, <1>4 DEF Ends, PastFilter
  <2>4. {job[x] : x \in {x \in Judges : stage[x] \in PastFilter}}'
        \subseteq {job[x] : x \in {x \in Judges : stage[x] \in PastFilter}}
    BY <2>3, <1>2
  <2>5. Reported' \subseteq Reported \cup {job[w]}
    BY <2>2 DEF Reported
  <2>6. ASSUME V \cap {"new", "drift", "same"} = {} PROVE Reported' \subseteq Reported
    <3>1. v \notin {"new", "drift", "same"}
      BY <2>1, <2>6
    <3> QED BY <2>2, <3>1 DEF Reported
  <2> QED BY <2>4, <2>5, <2>6 DEF Shown
<1>5. ASSUME stage[w] \in PastFilter PROVE job[w] \in Shown
  BY <1>0, <1>5 DEF Shown
<1>6. Later \in SUBSET Verdicts /\ {"filtered", "soft404"} \in SUBSET Verdicts
      /\ {"filtered", "soft404"} \cap {"new", "drift", "same"} = {}
  BY DEF Later, Verdicts
<1>7. ASSUME stage[w] \in PastFilter, Ends(w, Later) \/ Goes(w) PROVE Shown' \subseteq Shown
  <2>1. Shown' \subseteq Shown \cup {job[w]}
    BY <1>3, <1>4, <1>6, <1>7
  <2> QED BY <2>1, <1>5, <1>7
<1>8. ASSUME Ends(w, {"filtered", "soft404"}) PROVE Shown' \subseteq Shown
  BY <1>4, <1>6, <1>8
<1> QED BY <1>3, <1>7, <1>8

LEMMA FilterBaselines ==
  ASSUME VerdictInv, NEW w \in Judges, applyFilters(w), ~evicted'
  PROVE  /\ \A b \in seeded : HasFull(clusters', b)
         /\ \A p \in Shown' : Compared(Answer(p)) => \A b \in seeded : ~Near(b, Answer(p).body)
<1>0. VerdictTypes /\ VerdictOnce /\ VerdictBaselines /\ Ordered(clusters)
  BY DEF VerdictInv
<1>1. w \in Judging /\ Alone(w) /\ Body(w) \in Nat /\ Body(w) = Answer(job[w]).body
  BY FilterOutcome, FilterStep DEF Body
<1>2. ~evicted
  BY FilterOutcome
<1>3. /\ \A b \in seeded : HasFull(clusters, b)
      /\ \A p \in Shown : Compared(Answer(p)) => \A b \in seeded : ~Near(b, Answer(p).body)
  BY <1>0, <1>2 DEF VerdictBaselines
<1>4. MoveTo(w, "count") /\ verdict' = verdict => Goes(w)
  BY <1>0, MoveToStage DEF Goes, PastFilter, VerdictStages
<1>5. ASSUME NEW v \in {"filtered", "soft404"}, End(w, v) PROVE Shown' \subseteq Shown
  <2>1. Ends(w, {"filtered", "soft404"})
    BY <1>0, <1>1, <1>5, EndVerdict DEF Ends, End, Verdicts
  <2> QED BY <2>1, <1>1, ShownByStep
<1>6. ASSUME MoveTo(w, "count"), verdict' = verdict,
             Weighed(w) => \A b \in seeded : ~Near(b, Body(w))
      PROVE  \A p \in Shown' : Compared(Answer(p)) => \A b \in seeded : ~Near(b, Answer(p).body)
  <2>1. Shown' \subseteq Shown \cup {job[w]}
    BY <1>1, <1>4, <1>6, ShownByStep
  <2> QED BY <2>1, <1>1, <1>3, <1>6 DEF Weighed
<1>7. /\ ClusterLimit \in Nat \ {0} /\ clusters \in Seq(Cluster) /\ DOMAIN clusters = 1..Len(clusters)
      /\ Len(clusters) \in Nat /\ \A k \in DOMAIN clusters : clusters[k].count \in Nat
  <2>1. ClusterLimit \in Nat \ {0} /\ clusters \in Seq(Cluster)
    BY <1>0, Limits DEF VerdictTypes
  <2>2. \A k \in DOMAIN clusters : clusters[k] \in Cluster
    BY <2>1
  <2> QED BY <2>1, <2>2 DEF Cluster
<1>8. CASE clusters' = clusters /\ End(w, "filtered")
  BY <1>3, <1>5, <1>8
<1>9. CASE clusters' = clusters /\ ~Weighed(w) /\ MoveTo(w, "count") /\ verdict' = verdict
  BY <1>3, <1>6, <1>9
<1>10. ASSUME NEW i \in DOMAIN clusters,
              Joins(clusters, Body(w), i), clusters' = BubbleUp(clusters, i).seq,
              IF clusters[i].count + 1 >= ClusterLimit THEN End(w, "soft404")
              ELSE MoveTo(w, "count") /\ UNCHANGED verdict
       PROVE  /\ \A b \in seeded : HasFull(clusters', b)
              /\ \A p \in Shown' : Compared(Answer(p)) => \A b \in seeded : ~Near(b, Answer(p).body)
  <2>1. /\ \A k \in DOMAIN clusters : \E j \in DOMAIN clusters' :
              clusters'[j].centroid = clusters[k].centroid /\ clusters'[j].count >= clusters[k].count
        /\ clusters' \in Seq(Cluster)
    BY <1>10, JoinedOK
  <2>2. \A j \in DOMAIN clusters' : clusters'[j].count \in Nat
    <3>1. \A j \in DOMAIN clusters' : clusters'[j] \in Cluster
      BY <2>1
    <3> QED BY <3>1 DEF Cluster
  <2>3. ASSUME NEW b \in seeded PROVE HasFull(clusters', b)
    <3>1. PICK k \in DOMAIN clusters : clusters[k].centroid = b /\ clusters[k].count >= ClusterLimit
      BY <1>3 DEF HasFull
    <3>2. PICK j \in DOMAIN clusters' :
              clusters'[j].centroid = clusters[k].centroid /\ clusters'[j].count >= clusters[k].count
      BY <2>1
    <3>3. clusters'[j].count >= ClusterLimit
      BY <3>1, <3>2, <2>2, <1>7
    <3> QED BY <3>1, <3>2, <3>3 DEF HasFull
  <2>4. CASE clusters[i].count + 1 >= ClusterLimit
    BY <2>3, <2>4, <1>3, <1>5, <1>10
  <2>5. CASE ~(clusters[i].count + 1 >= ClusterLimit)
    <3>1. ASSUME NEW b \in seeded, Near(b, Body(w)) PROVE FALSE
      <4>1. PICK k \in DOMAIN clusters : clusters[k].centroid = b /\ clusters[k].count >= ClusterLimit
        BY <1>3 DEF HasFull
      <4>2. i <= k
        BY <1>10, <3>1, <4>1 DEF Joins
      <4>3. clusters[i].count >= clusters[k].count
        BY <1>0, <4>2 DEF Ordered
      <4> QED BY <1>7, <2>5, <4>1, <4>3
    <3> QED BY <2>3, <2>5, <3>1, <1>6, <1>10
  <2> QED BY <2>4, <2>5
<1>11. CASE /\ Starts(clusters, Body(w), clusters') /\ MoveTo(w, "count") /\ verdict' = verdict
            /\ evicted' = (evicted \/ \E c \in Range(clusters) : \A d \in Range(clusters') :
                                            d.centroid # c.centroid)
  <2>1. /\ \A k \in DOMAIN clusters :
               k \in DOMAIN clusters' /\ (clusters'[k] = clusters[k] \/ k = Len(clusters))
        /\ \A j \in DOMAIN clusters' :
               \/ clusters'[j].centroid = Body(w) /\ clusters'[j].count = 1
               \/ j \in DOMAIN clusters /\ clusters'[j] = clusters[j]
    BY <1>1, <1>11, StartedOK
  <2>2. \A k \in DOMAIN clusters : ~Near(clusters[k].centroid, Body(w))
    BY <1>11 DEF Starts
  <2>3. \A b \in seeded : ~Near(b, Body(w))
    BY <2>2, <1>3 DEF HasFull
  <2>4. ASSUME NEW b \in seeded PROVE HasFull(clusters', b)
    <3>1. PICK k \in DOMAIN clusters : clusters[k].centroid = b /\ clusters[k].count >= ClusterLimit
      BY <1>3 DEF HasFull
    <3>2. CASE clusters'[k] = clusters[k]
      BY <2>1, <3>1, <3>2 DEF HasFull
    <3>3. CASE k = Len(clusters)
      <4>1. clusters[k] \in Range(clusters)
        BY DEF Range
      <4>2. PICK d \in Range(clusters') : d.centroid = clusters[k].centroid
        BY <1>11, <4>1
      <4>3. PICK j \in DOMAIN clusters' : clusters'[j].centroid = b
        BY <3>1, <4>2 DEF Range
      <4>4. b # Body(w)
        <5>1. Near(Body(w), Body(w))
          BY <1>0, <1>1, Limits, NearIsSymmetric DEF VerdictTypes
        <5> QED BY <5>1, <2>3
      <4>5. j \in DOMAIN clusters /\ clusters'[j] = clusters[j]
        BY <2>1, <4>3, <4>4
      <4>6. clusters[j].count >= clusters[k].count
        BY <1>0, <1>7, <3>3, <4>5 DEF Ordered
      <4>7. clusters'[j].count >= ClusterLimit
        BY <1>7, <3>1, <4>5, <4>6
      <4> QED BY <4>3, <4>7 DEF HasFull
    <3> QED BY <2>1, <3>2, <3>3
  <2> QED BY <2>3, <2>4, <1>6, <1>11
<1>12. \/ clusters' = clusters /\ End(w, "filtered")
       \/ clusters' = clusters /\ ~Weighed(w) /\ MoveTo(w, "count") /\ verdict' = verdict
       \/ \E i \in DOMAIN clusters :
             /\ Joins(clusters, Body(w), i) /\ clusters' = BubbleUp(clusters, i).seq
             /\ IF clusters[i].count + 1 >= ClusterLimit THEN End(w, "soft404")
                ELSE MoveTo(w, "count") /\ UNCHANGED verdict
       \/ /\ Starts(clusters, Body(w), clusters') /\ MoveTo(w, "count") /\ verdict' = verdict
          /\ evicted' = (evicted \/ \E c \in Range(clusters) : \A d \in Range(clusters') :
                                            d.centroid # c.centroid)
  BY FilterOutcome
<1> QED BY <1>8, <1>9, <1>10, <1>11, <1>12

LEMMA VerdictBaselinesStep ==
  ASSUME VerdictInv, [VerdictNext]_verdictVars
  PROVE  VerdictBaselines'
<1>0. VerdictTypes /\ VerdictBaselines /\ VerdictCalibrates
  BY DEF VerdictInv
<1>1. ASSUME site' = site, evicted' = evicted, Shown' \subseteq Shown, seeded' = seeded,
             clusters' = clusters
      PROVE  VerdictBaselines'
  BY <1>0, <1>1 DEF VerdictBaselines, HasFull, Answer
<1>2. CASE CalibrateSoft404
  <2>1. /\ Judging' = {} /\ \A b \in seeded' : HasFull(clusters', b) \/ b \in seeded
        /\ \A k \in DOMAIN clusters : \E j \in DOMAIN clusters' : clusters'[j] = clusters[k]
    BY <1>2, SeedOK
  <2>2. Reported' = {}
    BY <1>0, <1>2 DEF CalibrateSoft404, VerdictCalibrates, Reported
  <2>3. Shown' = {}
    BY <2>1, <2>2 DEF Shown, Judging, PastFilter
  <2>4. evicted' = evicted
    BY <1>2 DEF CalibrateSoft404
  <2>5. ASSUME ~evicted, NEW b \in seeded' PROVE HasFull(clusters', b)
    <3>1. CASE b \in seeded
      <4>1. HasFull(clusters, b)
        BY <1>0, <2>5, <3>1 DEF VerdictBaselines
      <4> QED BY <4>1, <2>1 DEF HasFull
    <3> QED BY <2>1, <3>1
  <2>6. ~evicted' => \A b \in seeded' : HasFull(clusters', b)
    BY <2>4, <2>5
  <2> QED BY <2>3, <2>6 DEF VerdictBaselines, HasFull
<1>3. ASSUME NEW w \in Judges, Take(w) PROVE VerdictBaselines'
  <2>1. /\ \A x \in Judges : x # w => stage'[x] = stage[x] /\ job'[x] = job[x]
        /\ stage'[w] = "filter" /\ stage[w] = "idle" /\ site' = site /\ verdict' = verdict
        /\ clusters' = clusters /\ seeded' = seeded /\ evicted' = evicted
    BY <1>0, <1>3, MoveToStage DEF Take, VerdictStages, VerdictTypes, setting, calibration
  <2>2. \A x \in Judges : stage'[x] \in PastFilter => x # w /\ stage[x] \in PastFilter
    BY <2>1 DEF PastFilter
  <2>3. Shown' \subseteq Shown
    BY <2>1, <2>2 DEF Shown, Reported
  <2> QED BY <2>1, <2>3, <1>1
<1>4. ASSUME NEW w \in Judges, applyFilters(w) PROVE VerdictBaselines'
  <2>1. site' = site /\ seeded' = seeded
    BY <1>4, FilterStep DEF Alone
  <2>2. ~evicted' =>
           /\ \A b \in seeded : HasFull(clusters', b)
           /\ \A p \in Shown' : Compared(Answer(p)) => \A b \in seeded : ~Near(b, Answer(p).body)
    BY <1>4, FilterBaselines
  <2>3. \A p : Answer(p)' = Answer(p)
    BY <2>1 DEF Answer
  <2> QED BY <2>1, <2>2, <2>3 DEF VerdictBaselines, HasFull
<1>5. ASSUME NEW w \in Judges,
             \/ countFingerprint(w) \/ autoFilter(w) \/ checkMirror(w) \/ RememberSignature(w)
             \/ publish(w)
      PROVE  VerdictBaselines'
  <2>1. /\ w \in Judging /\ Alone(w) /\ stage[w] \in PastFilter /\ (Ends(w, Later) \/ Goes(w))
        /\ clusters' = clusters /\ seeded' = seeded /\ site' = site /\ evicted' = evicted
    BY <1>5, LaterSteps DEF Alone
  <2>2. Shown' \subseteq Shown
    BY <2>1, ShownByStep
  <2> QED BY <2>1, <2>2, <1>1
<1>6. CASE /\ stage' = stage /\ job' = job /\ verdict' = verdict /\ site' = site
           /\ clusters' = clusters /\ seeded' = seeded /\ evicted' = evicted
  <2>1. Shown' = Shown
    BY <1>6 DEF Shown, Reported
  <2> QED BY <2>1, <1>1, <1>6
<1>7. ASSUME NEW p \in SitePaths, scanBranch(p) PROVE VerdictBaselines'
  BY <1>6, <1>7 DEF scanBranch, setting, calibration
<1>8. CASE UNCHANGED verdictVars
  BY <1>6, <1>8 DEF verdictVars
<1> QED BY <1>2, <1>3, <1>4, <1>5, <1>7, <1>8 DEF VerdictNext

-----------------------------------------------------------------------------
(* Announcements.                                                             *)

(* The verdicts of all paths but that of the worker stay.                     *)
LEMMA EndsOf ==
  ASSUME VerdictInv, NEW w \in Judging
  PROVE  /\ \A v \in Verdicts : End(w, v) =>
               /\ stage'[w] = "idle" /\ verdict'[job[w]] = v
               /\ \A x \in Judges : x # w => stage'[x] = stage[x]
               /\ \A p \in SitePaths : p # job[w] => verdict'[p] = verdict[p]
         /\ \A s \in VerdictStages : MoveTo(w, s) =>
               stage'[w] = s /\ \A x \in Judges : x # w => stage'[x] = stage[x]
<1>0. VerdictTypes /\ VerdictOnce /\ w \in Judges
  BY DEF VerdictInv, Judging
<1>1. ASSUME NEW v \in Verdicts, End(w, v)
      PROVE  /\ stage'[w] = "idle" /\ verdict'[job[w]] = v
             /\ \A x \in Judges : x # w => stage'[x] = stage[x]
             /\ \A p \in SitePaths : p # job[w] => verdict'[p] = verdict[p]
  BY <1>0, <1>1, EndVerdict
<1>2. ASSUME NEW s \in VerdictStages, MoveTo(w, s)
      PROVE  stage'[w] = s /\ \A x \in Judges : x # w => stage'[x] = stage[x]
  BY <1>0, <1>2, MoveToStage
<1> QED BY <1>1, <1>2

LEMMA CountsKept ==
  ASSUME VerdictCounts, fpCounts' = fpCounts, notices' = notices, count' = count,
         site' = site,
         \A x \in Judges : stage'[x] = "decide" <=> stage[x] = "decide",
         \A x \in Judges : stage[x] = "decide" => job'[x] = job[x],
         \A p \in SitePaths : verdict'[p] = "auto" => verdict[p] = "auto"
  PROVE  VerdictCounts'
<1>1. /\ \A p : Fingerprint(Answer(p))' = Fingerprint(Answer(p))
      /\ \A x \in Judges : stage[x] = "decide" => JobPrint(x)' = JobPrint(x)
  BY DEF Answer, JobPrint, Fingerprint
<1>2. \A x \in Judges : \A f : Announces(x, f) => Announces(x, f)'
  BY <1>1 DEF Announces
<1>3. ASSUME NEW f \in DOMAIN fpCounts, AutoLimit > 0 /\ fpCounts[f] >= AutoLimit
      PROVE  f \in Said \/ \E x \in Judges : Announces(x, f)'
  BY <1>2, <1>3 DEF VerdictCounts
<1>4. ASSUME NEW x \in Judges, stage'[x] = "decide"
      PROVE  JobPrint(x)' \in DOMAIN fpCounts /\ count[x] <= fpCounts[JobPrint(x)']
  BY <1>1, <1>4 DEF VerdictCounts
<1>5. ASSUME NEW p \in SitePaths, verdict'[p] = "auto"
      PROVE  /\ AutoLimit > 0 /\ Fingerprint(Answer(p))' \in DOMAIN fpCounts
             /\ fpCounts[Fingerprint(Answer(p))'] >= AutoLimit
  BY <1>1, <1>5 DEF VerdictCounts
<1>6. Said' = Said
  BY DEF Said
<1> QED BY <1>3, <1>4, <1>5, <1>6 DEF VerdictCounts

LEMMA CountingCounts ==
  ASSUME VerdictInv, NEW w \in Judges, countFingerprint(w)
  PROVE  VerdictCounts'
<1> DEFINE f == Fingerprint(Answer(job[w]))
           n == CountOf(f) + 1
<1>0. /\ VerdictTypes /\ VerdictCounts /\ w \in Judging /\ stage[w] = "count" /\ AutoLimit \in Nat
      /\ \A g \in DOMAIN fpCounts : fpCounts[g] \in Nat
  BY JudgeIsBusy, Limits DEF VerdictInv, countFingerprint, VerdictTypes
<1>1. /\ notices' = notices /\ verdict' = verdict /\ job' = job /\ site' = site
      /\ \A x \in Judges : x # w => stage'[x] = stage[x]
      /\ stage'[w] \in {"decide", "mirror"}
  <2>1. MoveTo(w, "decide") \/ MoveTo(w, "mirror")
    BY DEF countFingerprint
  <2>2. {"decide", "mirror"} \subseteq VerdictStages
    BY DEF VerdictStages
  <2>3. /\ \A x \in Judges : x # w => stage'[x] = stage[x]
        /\ stage'[w] \in {"decide", "mirror"}
    BY <1>0, <2>1, <2>2, EndsOf
  <2> QED BY <2>3 DEF countFingerprint, setting
<1>2. CASE ~Counted(Answer(job[w]))
  <2>1. fpCounts' = fpCounts /\ count' = count /\ stage'[w] = "mirror"
    <3>1. MoveTo(w, "mirror") /\ "mirror" \in VerdictStages
      BY <1>2 DEF countFingerprint, VerdictStages
    <3> QED BY <1>0, <1>2, <3>1, EndsOf DEF countFingerprint
  <2> QED BY <2>1, <1>0, <1>1, CountsKept
<1>3. CASE Counted(Answer(job[w]))
  <2>1. /\ fpCounts' = [g \in DOMAIN fpCounts \cup {f} |-> IF g = f THEN n ELSE fpCounts[g]]
        /\ count' = [count EXCEPT ![w] = n] /\ stage'[w] = "decide"
    <3>1. MoveTo(w, "decide") /\ "decide" \in VerdictStages
      BY <1>3 DEF countFingerprint, VerdictStages
    <3>2. stage'[w] = "decide"
      BY <1>0, <3>1, EndsOf
    <3> QED BY <1>3, <3>2 DEF countFingerprint
  <2>2. /\ CountOf(f) \in Nat /\ n \in Nat
        /\ f \in DOMAIN fpCounts => fpCounts[f] = CountOf(f)
        /\ f \notin DOMAIN fpCounts => CountOf(f) = 0
    BY <1>0 DEF CountOf
  <2>3. /\ \A p : Fingerprint(Answer(p))' = Fingerprint(Answer(p))
        /\ \A x \in Judges : JobPrint(x)' = JobPrint(x)
    BY <1>1 DEF Answer, JobPrint, Fingerprint
  <2>4. f = JobPrint(w)
    BY DEF JobPrint
  <2>5. /\ DOMAIN fpCounts' = DOMAIN fpCounts \cup {f} /\ fpCounts'[f] = n
        /\ \A g \in DOMAIN fpCounts : g # f => fpCounts'[g] = fpCounts[g]
        /\ count'[w] = n /\ \A x \in Judges : x # w => count'[x] = count[x]
    BY <2>1, <1>0 DEF VerdictTypes
  <2>6. \A g \in DOMAIN fpCounts : fpCounts'[g] \in Nat /\ fpCounts[g] <= fpCounts'[g]
    <3> TAKE g \in DOMAIN fpCounts
    <3> HIDE DEF f
    <3>1. CASE g = f
      BY <3>1, <2>2, <2>5, <1>0
    <3>2. CASE g # f
      BY <3>2, <2>5, <1>0
    <3> QED BY <3>1, <3>2
  <2> HIDE DEF f, n
  <2>7. \A x \in Judges : \A g : Announces(x, g) => Announces(x, g)'
    <3> SUFFICES ASSUME NEW x \in Judges, NEW g, Announces(x, g) PROVE Announces(x, g)'
      OBVIOUS
    <3>1. x # w
      BY <1>0 DEF Announces
    <3> QED BY <3>1, <1>1, <2>3, <2>5 DEF Announces
  <2>8. ASSUME NEW g \in DOMAIN fpCounts', AutoLimit > 0 /\ fpCounts'[g] >= AutoLimit
        PROVE  g \in Said \/ \E x \in Judges : Announces(x, g)'
    <3>1. CASE g # f
      BY <3>1, <2>5, <2>7, <2>8, <1>0 DEF VerdictCounts
    <3>2. CASE g = f /\ n = AutoLimit
      BY <3>2, <2>1, <2>3, <2>4, <2>5 DEF Announces
    <3>3. CASE g = f /\ n # AutoLimit
      <4>1. CountOf(f) >= AutoLimit /\ CountOf(f) # 0
        BY <3>3, <2>2, <2>5, <2>8, <1>0 DEF n
      <4>2. f \in DOMAIN fpCounts /\ fpCounts[f] >= AutoLimit
        BY <4>1, <2>2
      <4> QED BY <4>2, <3>3, <2>7, <2>8, <1>0 DEF VerdictCounts
    <3> QED BY <3>1, <3>2, <3>3
  <2>9. ASSUME NEW x \in Judges, stage'[x] = "decide"
        PROVE  JobPrint(x)' \in DOMAIN fpCounts' /\ count'[x] <= fpCounts'[JobPrint(x)']
    <3>1. CASE x = w
      BY <3>1, <2>2, <2>3, <2>4, <2>5
    <3>2. CASE x # w
      <4>1. JobPrint(x) \in DOMAIN fpCounts /\ count[x] <= fpCounts[JobPrint(x)]
        BY <3>2, <2>9, <1>0, <1>1 DEF VerdictCounts
      <4>2. count[x] \in Nat
        BY <1>0 DEF VerdictTypes
      <4>3. count[x] <= fpCounts'[JobPrint(x)]
        BY <4>1, <4>2, <2>6, <1>0
      <4> QED BY <4>1, <4>3, <3>2, <2>3, <2>5
    <3> QED BY <3>1, <3>2
  <2>10. ASSUME NEW p \in SitePaths, verdict'[p] = "auto"
         PROVE  /\ AutoLimit > 0 /\ Fingerprint(Answer(p))' \in DOMAIN fpCounts'
                /\ fpCounts'[Fingerprint(Answer(p))'] >= AutoLimit
    <3> DEFINE g == Fingerprint(Answer(p))
    <3>1. AutoLimit > 0 /\ g \in DOMAIN fpCounts /\ fpCounts[g] >= AutoLimit
      BY <2>10, <1>0, <1>1 DEF VerdictCounts
    <3>2. g = Fingerprint(Answer(p))'
      BY <2>3
    <3> HIDE DEF g
    <3>3. fpCounts'[g] >= AutoLimit
      BY <3>1, <2>6, <1>0
    <3> QED BY <3>1, <3>2, <3>3, <2>5
  <2>11. Said' = Said
    BY <1>1 DEF Said
  <2> QED BY <1>1, <2>8, <2>9, <2>10, <2>11 DEF VerdictCounts
<1> QED BY <1>2, <1>3

(* The worker that reached the limit leaves one notice.                       *)
LEMMA NoticeOfLimit ==
  ASSUME NEW w \in Judges, autoFilter(w)
  PROVE  /\ AutoLimit > 0 /\ count[w] = AutoLimit =>
               /\ Said' = Said \cup {JobPrint(w)}
               /\ \E x : notices' = notices \cup {x} /\ x.print = JobPrint(w)
         /\ ~(AutoLimit > 0 /\ count[w] = AutoLimit) => notices' = notices /\ Said' = Said
<1>1. PICK sent \in BOOLEAN :
          notices' = IF AutoLimit > 0 /\ count[w] = AutoLimit
                     THEN notices \cup {[print |-> JobPrint(w), sent |-> sent]}
                     ELSE notices
  BY DEF autoFilter, JobPrint
<1> DEFINE x == [print |-> JobPrint(w), sent |-> sent]
<1>2. x.print = JobPrint(w)
  OBVIOUS
<1> HIDE DEF x
<1>3. CASE AutoLimit > 0 /\ count[w] = AutoLimit
  <2>1. notices' = notices \cup {x}
    BY <1>1, <1>3 DEF x
  <2>2. Said' = Said \cup {JobPrint(w)}
    BY <1>2, <2>1 DEF Said
  <2> QED BY <1>2, <1>3, <2>1, <2>2
<1>4. CASE ~(AutoLimit > 0 /\ count[w] = AutoLimit)
  BY <1>1, <1>4 DEF Said
<1> QED BY <1>3, <1>4

LEMMA DecidingCounts ==
  ASSUME VerdictInv, NEW w \in Judges, autoFilter(w)
  PROVE  VerdictCounts'
<1> DEFINE n == count[w]
<1>0. /\ VerdictTypes /\ VerdictCounts /\ w \in Judging /\ stage[w] = "decide" /\ AutoLimit \in Nat
      /\ \A g \in DOMAIN fpCounts : fpCounts[g] \in Nat
      /\ n \in Nat /\ job[w] \in SitePaths
  BY JudgeIsBusy, Limits DEF VerdictInv, autoFilter, VerdictTypes
<1>1. /\ fpCounts' = fpCounts /\ count' = count /\ job' = job /\ site' = site
      /\ Said' = IF AutoLimit > 0 /\ n = AutoLimit THEN Said \cup {JobPrint(w)} ELSE Said
  BY NoticeOfLimit DEF autoFilter, setting
<1>2. /\ \A x \in Judges : x # w => stage'[x] = stage[x]
      /\ stage'[w] # "decide"
      /\ \A p \in SitePaths : verdict'[p] = "auto" =>
            verdict[p] = "auto" \/ (p = job[w] /\ AutoLimit > 0 /\ n >= AutoLimit)
  <2>1. CASE AutoLimit > 0 /\ n >= AutoLimit
    <3>1. End(w, "auto") /\ "auto" \in Verdicts
      BY <2>1 DEF autoFilter, Verdicts
    <3> QED BY <1>0, <2>1, <3>1, EndsOf
  <2>2. CASE ~(AutoLimit > 0 /\ n >= AutoLimit)
    <3>1. MoveTo(w, "mirror") /\ verdict' = verdict /\ "mirror" \in VerdictStages
      BY <2>2 DEF autoFilter, VerdictStages
    <3> QED BY <1>0, <2>2, <3>1, EndsOf
  <2> QED BY <2>1, <2>2
<1>3. /\ \A p : Fingerprint(Answer(p))' = Fingerprint(Answer(p))
      /\ \A x \in Judges : JobPrint(x)' = JobPrint(x)
  BY <1>1 DEF Answer, JobPrint, Fingerprint
<1>4. ASSUME NEW f \in DOMAIN fpCounts, AutoLimit > 0 /\ fpCounts[f] >= AutoLimit
      PROVE  f \in Said' \/ \E x \in Judges : Announces(x, f)'
  <2>1. f \in Said \/ \E x \in Judges : Announces(x, f)
    BY <1>0, <1>4 DEF VerdictCounts
  <2>2. CASE f \in Said
    BY <2>2, <1>1
  <2>3. CASE \E x \in Judges : Announces(x, f)
    <3>1. PICK x \in Judges : Announces(x, f)
      BY <2>3
    <3>2. CASE x = w
      BY <3>1, <3>2, <1>1, <1>4 DEF Announces
    <3>3. CASE x # w
      BY <3>1, <3>3, <1>1, <1>2, <1>3 DEF Announces
    <3> QED BY <3>2, <3>3
  <2> QED BY <2>1, <2>2, <2>3
<1>5. ASSUME NEW x \in Judges, stage'[x] = "decide"
      PROVE  JobPrint(x)' \in DOMAIN fpCounts /\ count[x] <= fpCounts[JobPrint(x)']
  BY <1>0, <1>2, <1>3, <1>5 DEF VerdictCounts
<1>6. ASSUME NEW p \in SitePaths, verdict'[p] = "auto"
      PROVE  /\ AutoLimit > 0 /\ Fingerprint(Answer(p))' \in DOMAIN fpCounts
             /\ fpCounts[Fingerprint(Answer(p))'] >= AutoLimit
  <2>1. CASE verdict[p] = "auto"
    BY <2>1, <1>0, <1>3 DEF VerdictCounts
  <2>2. CASE p = job[w] /\ AutoLimit > 0 /\ n >= AutoLimit
    <3>1. JobPrint(w) \in DOMAIN fpCounts /\ n <= fpCounts[JobPrint(w)]
      BY <1>0 DEF VerdictCounts
    <3>2. Fingerprint(Answer(p))' = JobPrint(w)
      BY <2>2, <1>3 DEF JobPrint
    <3> HIDE DEF n
    <3>3. fpCounts[JobPrint(w)] >= AutoLimit
      BY <1>0, <2>2, <3>1
    <3> QED BY <2>2, <3>1, <3>2, <3>3
  <2> QED BY <2>1, <2>2, <1>2, <1>6
<1> QED BY <1>1, <1>4, <1>5, <1>6 DEF VerdictCounts

(* The stages and verdicts of the other steps.                                *)
LEMMA OtherEnds ==
  ASSUME VerdictInv, NEW w \in Judges,
         applyFilters(w) \/ checkMirror(w) \/ RememberSignature(w) \/ publish(w)
  PROVE  /\ stage[w] # "decide" /\ stage'[w] # "decide" /\ Alone(w) /\ w \in Judging
         /\ \A p \in SitePaths : verdict'[p] = "auto" => verdict[p] = "auto"
<1>1. CASE applyFilters(w)
  <2>1. /\ w \in Judging /\ stage[w] = "filter" /\ Alone(w)
        /\ \/ End(w, "filtered") \/ End(w, "soft404")
           \/ MoveTo(w, "count") /\ verdict' = verdict
    BY <1>1, FilterOutcome, FilterStep
  <2>2. {"filtered", "soft404"} \subseteq Verdicts /\ "count" \in VerdictStages
    BY DEF Verdicts, VerdictStages
  <2> QED BY <2>1, <2>2, EndsOf
<1>2. CASE checkMirror(w)
  <2>1. w \in Judging /\ stage[w] = "mirror" /\ Alone(w)
    BY <1>2, LaterSteps DEF checkMirror
  <2>2. \/ End(w, "mirror")
        \/ (MoveTo(w, "remember") \/ MoveTo(w, "report")) /\ verdict' = verdict
    BY <1>2 DEF checkMirror
  <2>3. "mirror" \in Verdicts /\ "remember" \in VerdictStages /\ "report" \in VerdictStages
    BY DEF Verdicts, VerdictStages
  <2> QED BY <2>1, <2>2, <2>3, EndsOf
<1>3. CASE RememberSignature(w)
  <2>1. w \in Judging /\ stage[w] = "remember" /\ Alone(w) /\ MoveTo(w, "report") /\ verdict' = verdict
    BY <1>3, LaterSteps DEF RememberSignature
  <2>2. "report" \in VerdictStages
    BY DEF VerdictStages
  <2> QED BY <2>1, <2>2, EndsOf
<1>4. CASE publish(w)
  <2>1. w \in Judging /\ stage[w] = "report" /\ Alone(w) /\ End(w, applyEagleDrift(job[w]))
    BY <1>4, LaterSteps DEF publish
  <2>2. applyEagleDrift(job[w]) \in Verdicts /\ applyEagleDrift(job[w]) # "auto"
    BY DriftOutcome DEF Verdicts
  <2> QED BY <2>1, <2>2, EndsOf
<1> QED BY <1>1, <1>2, <1>3, <1>4

LEMMA VerdictCountsStep ==
  ASSUME VerdictInv, [VerdictNext]_verdictVars
  PROVE  VerdictCounts'
<1>0. VerdictTypes /\ VerdictCounts
  BY DEF VerdictInv
<1>1. CASE UNCHANGED verdictVars
  BY <1>0, <1>1, CountsKept DEF verdictVars
<1>2. CASE CalibrateSoft404
  BY <1>0, <1>2, CountsKept DEF CalibrateSoft404, setting
<1>3. ASSUME NEW w \in Judges, Take(w) PROVE VerdictCounts'
  <2>1. /\ \A x \in Judges : x # w => stage'[x] = stage[x] /\ job'[x] = job[x]
        /\ stage'[w] = "filter" /\ stage[w] = "idle" /\ site' = site /\ verdict' = verdict
        /\ fpCounts' = fpCounts /\ notices' = notices /\ count' = count
    BY <1>0, <1>3, MoveToStage DEF Take, VerdictStages, VerdictTypes, setting, calibration
  <2> QED BY <1>0, <2>1, CountsKept
<1>4. ASSUME NEW w \in Judges,
             applyFilters(w) \/ checkMirror(w) \/ RememberSignature(w) \/ publish(w)
      PROVE  VerdictCounts'
  <2>1. /\ stage[w] # "decide" /\ stage'[w] # "decide" /\ Alone(w)
        /\ \A p \in SitePaths : verdict'[p] = "auto" => verdict[p] = "auto"
    BY <1>4, OtherEnds
  <2>2. fpCounts' = fpCounts /\ notices' = notices /\ count' = count
    BY <1>4 DEF applyFilters, checkMirror, RememberSignature, publish
  <2> QED BY <1>0, <2>1, <2>2, CountsKept DEF Alone
<1>5. ASSUME NEW p \in SitePaths, scanBranch(p) PROVE VerdictCounts'
  BY <1>0, <1>5, CountsKept DEF scanBranch, setting, calibration
<1> QED BY <1>1, <1>2, <1>3, <1>4, <1>5, CountingCounts, DecidingCounts DEF VerdictNext

(* One notice for a fingerprint.                                              *)
LEMMA NoticesKept ==
  ASSUME VerdictNotices, fpCounts' = fpCounts, notices' = notices, count' = count, site' = site,
         \A x \in Judges : stage'[x] = "decide" => stage[x] = "decide" /\ job'[x] = job[x]
  PROVE  VerdictNotices'
<1>1. \A x \in Judges : stage'[x] = "decide" => JobPrint(x)' = JobPrint(x)
  BY DEF JobPrint, Fingerprint, Answer
<1>2. Said' = Said
  BY DEF Said
<1>3. \A x \in Judges : \A f : Announces(x, f)' => Announces(x, f)
  BY <1>1 DEF Announces
<1>4. \A f \in Said' : /\ f \in DOMAIN fpCounts /\ fpCounts[f] >= AutoLimit
                        /\ \A w \in Judges : ~Announces(w, f)'
  BY <1>2, <1>3 DEF VerdictNotices
<1>5. ASSUME NEW w \in Judges, NEW v \in Judges, w # v, stage'[w] = "decide",
             stage'[v] = "decide", JobPrint(w)' = JobPrint(v)'
      PROVE  count[w] # count[v]
  BY <1>1, <1>5 DEF VerdictNotices
<1>6. \A x, y \in notices : x.print = y.print => x = y
  BY DEF VerdictNotices
<1> QED BY <1>4, <1>5, <1>6 DEF VerdictNotices

LEMMA CountingNotices ==
  ASSUME VerdictInv, NEW w \in Judges, countFingerprint(w)
  PROVE  VerdictNotices'
<1> DEFINE f == Fingerprint(Answer(job[w]))
           n == CountOf(f) + 1
<1>0. /\ VerdictTypes /\ VerdictCounts /\ VerdictNotices /\ w \in Judging /\ stage[w] = "count"
      /\ AutoLimit \in Nat /\ \A g \in DOMAIN fpCounts : fpCounts[g] \in Nat
      /\ count \in [Judges -> Nat]
  BY JudgeIsBusy, Limits DEF VerdictInv, countFingerprint, VerdictTypes
<1>1. /\ notices' = notices /\ job' = job /\ site' = site
      /\ \A x \in Judges : x # w => stage'[x] = stage[x]
  <2>1. MoveTo(w, "decide") \/ MoveTo(w, "mirror")
    BY DEF countFingerprint
  <2>2. {"decide", "mirror"} \subseteq VerdictStages
    BY DEF VerdictStages
  <2> QED BY <1>0, <2>1, <2>2, EndsOf DEF countFingerprint, setting
<1>2. CASE ~Counted(Answer(job[w]))
  <2>1. fpCounts' = fpCounts /\ count' = count /\ stage'[w] = "mirror"
    <3>1. MoveTo(w, "mirror") /\ "mirror" \in VerdictStages
      BY <1>2 DEF countFingerprint, VerdictStages
    <3> QED BY <1>0, <1>2, <3>1, EndsOf DEF countFingerprint
  <2>2. \A x \in Judges : stage'[x] = "decide" => stage[x] = "decide"
    BY <2>1, <1>1
  <2> QED BY <2>1, <2>2, <1>0, <1>1, NoticesKept
<1>3. CASE Counted(Answer(job[w]))
  <2>1. /\ fpCounts' = [g \in DOMAIN fpCounts \cup {f} |-> IF g = f THEN n ELSE fpCounts[g]]
        /\ count' = [count EXCEPT ![w] = n]
    BY <1>3 DEF countFingerprint
  <2>2. /\ CountOf(f) \in Nat /\ f = JobPrint(w)
        /\ f \in DOMAIN fpCounts => fpCounts[f] = CountOf(f)
    BY <1>0 DEF CountOf, JobPrint
  <2>3. \A x \in Judges : JobPrint(x)' = JobPrint(x)
    BY <1>1 DEF Answer, JobPrint, Fingerprint
  <2>4. /\ DOMAIN fpCounts' = DOMAIN fpCounts \cup {f} /\ fpCounts'[f] = n
        /\ \A g \in DOMAIN fpCounts : g # f => fpCounts'[g] = fpCounts[g]
        /\ count'[w] = n /\ \A x \in Judges : x # w => count'[x] = count[x]
    BY <2>1, <1>0
  <2> HIDE DEF f
  <2>5. \A g \in DOMAIN fpCounts : fpCounts'[g] \in Nat /\ fpCounts[g] <= fpCounts'[g]
    BY <1>0, <2>2, <2>4
  <2>6. n \in Nat /\ n = CountOf(f) + 1
    BY <2>2
  <2> HIDE DEF n
  <2>7. ASSUME NEW x \in Judges, x # w, stage'[x] = "decide", JobPrint(x) = f
        PROVE  count'[x] < n
    <3>1. f \in DOMAIN fpCounts /\ count[x] <= fpCounts[f]
      BY <2>7, <1>0, <1>1 DEF VerdictCounts
    <3>2. count[x] \in Nat /\ count'[x] = count[x] /\ fpCounts[f] = CountOf(f)
      BY <1>0, <2>2, <2>4, <2>7, <3>1
    <3> QED BY <3>1, <3>2, <2>2, <2>6
  <2>8. ASSUME NEW g \in Said
        PROVE  /\ g \in DOMAIN fpCounts' /\ fpCounts'[g] >= AutoLimit
               /\ \A x \in Judges : ~Announces(x, g)'
    <3>1. /\ g \in DOMAIN fpCounts /\ fpCounts[g] >= AutoLimit
          /\ \A x \in Judges : ~Announces(x, g)
      BY <1>0, <2>8 DEF VerdictNotices
    <3>2. fpCounts'[g] >= AutoLimit /\ g \in DOMAIN fpCounts'
      BY <3>1, <2>4, <2>5, <1>0
    <3>3. ASSUME NEW x \in Judges, Announces(x, g)' PROVE FALSE
      <4>1. stage'[x] = "decide" /\ JobPrint(x) = g /\ count'[x] = AutoLimit
        BY <3>3, <2>3 DEF Announces
      <4>2. CASE x = w
        <5>1. g = f /\ n = AutoLimit /\ fpCounts[f] = CountOf(f)
          BY <4>1, <4>2, <2>2, <2>4, <3>1
        <5> QED BY <5>1, <3>1, <2>2, <2>6, <1>0
      <4>3. CASE x # w
        BY <4>1, <4>3, <3>1, <2>4, <1>1 DEF Announces
      <4> QED BY <4>2, <4>3
    <3> QED BY <3>2, <3>3
  <2>9. ASSUME NEW x \in Judges, NEW y \in Judges, x # y, stage'[x] = "decide",
               stage'[y] = "decide", JobPrint(x)' = JobPrint(y)'
        PROVE  count'[x] # count'[y]
    <3>1. JobPrint(x) = JobPrint(y)
      BY <2>3, <2>9
    <3>2. CASE x = w
      <4>1. count'[y] < n /\ count'[y] \in Nat /\ count'[x] = n
        BY <2>2, <2>4, <2>7, <2>9, <3>1, <3>2, <1>0
      <4> QED BY <4>1, <2>6
    <3>3. CASE y = w
      <4>1. count'[x] < n /\ count'[x] \in Nat /\ count'[y] = n
        BY <2>2, <2>4, <2>7, <2>9, <3>1, <3>3, <1>0
      <4> QED BY <4>1, <2>6
    <3>4. CASE x # w /\ y # w
      BY <3>1, <3>4, <2>4, <2>9, <1>0, <1>1 DEF VerdictNotices
    <3> QED BY <3>2, <3>3, <3>4
  <2>10. Said' = Said /\ \A x, y \in notices : x.print = y.print => x = y
    BY <1>0, <1>1 DEF Said, VerdictNotices
  <2> QED BY <1>1, <2>8, <2>9, <2>10 DEF VerdictNotices
<1> QED BY <1>2, <1>3

LEMMA DecidingNotices ==
  ASSUME VerdictInv, NEW w \in Judges, autoFilter(w)
  PROVE  VerdictNotices'
<1> DEFINE n == count[w]
           p == JobPrint(w)
<1>0. /\ VerdictTypes /\ VerdictCounts /\ VerdictNotices /\ w \in Judging /\ stage[w] = "decide"
  BY JudgeIsBusy DEF VerdictInv, autoFilter
<1>1. /\ fpCounts' = fpCounts /\ count' = count /\ job' = job /\ site' = site
  BY DEF autoFilter, setting
<1>2. \A x \in Judges : stage'[x] = "decide" => x # w /\ stage[x] = "decide"
  <2>1. \/ End(w, "auto") /\ "auto" \in Verdicts
        \/ MoveTo(w, "mirror") /\ "mirror" \in VerdictStages
    BY DEF autoFilter, Verdicts, VerdictStages
  <2>2. stage'[w] # "decide" /\ \A x \in Judges : x # w => stage'[x] = stage[x]
    BY <1>0, <2>1, EndsOf
  <2> QED BY <2>2
<1>3. CASE ~(AutoLimit > 0 /\ n = AutoLimit)
  <2>1. notices' = notices
    BY <1>3, NoticeOfLimit
  <2> QED BY <2>1, <1>0, <1>1, <1>2, NoticesKept
<1>4. CASE AutoLimit > 0 /\ n = AutoLimit
  <2>1. PICK z : notices' = notices \cup {z} /\ z.print = p
    BY <1>4, NoticeOfLimit
  <2>2. Said' = Said \cup {p}
    BY <1>4, NoticeOfLimit
  <2>3. Announces(w, p)
    BY <1>0, <1>4 DEF Announces
  <2>4. p \notin Said
    BY <1>0, <2>3 DEF VerdictNotices
  <2>5. \A x \in Judges : JobPrint(x)' = JobPrint(x)
    BY <1>1 DEF Answer, JobPrint, Fingerprint
  <2>6. \A x \in Judges : \A f : Announces(x, f)' => x # w /\ Announces(x, f)
    BY <1>1, <1>2, <2>5 DEF Announces
  <2>7. p \in DOMAIN fpCounts /\ fpCounts[p] >= AutoLimit
    <3>1. p \in DOMAIN fpCounts /\ n <= fpCounts[p]
      BY <1>0 DEF VerdictCounts
    <3> QED BY <3>1, <1>4
  <2>8. ASSUME NEW f, f = p PROVE \A x \in Judges : ~Announces(x, f)'
    <3> SUFFICES ASSUME NEW x \in Judges, Announces(x, f)' PROVE FALSE
      OBVIOUS
    <3>1. x # w /\ Announces(x, f)
      BY <2>6
    <3>2. Announces(w, f)
      BY <2>3, <2>8
    <3> QED BY <3>1, <3>2, <1>0 DEF Announces, VerdictNotices
  <2> HIDE DEF p, n
  <2>9. \A f \in Said' : /\ f \in DOMAIN fpCounts' /\ fpCounts'[f] >= AutoLimit
                          /\ \A x \in Judges : ~Announces(x, f)'
    <3> SUFFICES ASSUME NEW f \in Said \cup {p}
                 PROVE  /\ f \in DOMAIN fpCounts /\ fpCounts[f] >= AutoLimit
                        /\ \A x \in Judges : ~Announces(x, f)'
      BY <1>1, <2>2
    <3>1. CASE f = p
      BY <3>1, <2>7, <2>8
    <3>2. CASE f \in Said
      <4>1. /\ f \in DOMAIN fpCounts /\ fpCounts[f] >= AutoLimit
            /\ \A x \in Judges : ~Announces(x, f)
        BY <3>2, <1>0 DEF VerdictNotices
      <4>2. \A x \in Judges : ~Announces(x, f)'
        BY <4>1, <2>6
      <4> QED BY <4>1, <4>2
    <3> QED BY <3>1, <3>2
  <2>10. ASSUME NEW x \in Judges, NEW y \in Judges, x # y, stage'[x] = "decide",
                stage'[y] = "decide", JobPrint(x)' = JobPrint(y)'
         PROVE  count'[x] # count'[y]
    BY <1>0, <1>1, <1>2, <2>5, <2>10 DEF VerdictNotices
  <2>11. ASSUME NEW x \in notices', NEW y \in notices', x.print = y.print PROVE x = y
    <3>1. \A v \in notices : v.print # p
      BY <2>4 DEF Said
    <3> QED BY <2>1, <2>11, <3>1, <1>0 DEF VerdictNotices
  <2> QED BY <2>9, <2>10, <2>11 DEF VerdictNotices
<1> QED BY <1>3, <1>4

LEMMA VerdictNoticesStep ==
  ASSUME VerdictInv, [VerdictNext]_verdictVars
  PROVE  VerdictNotices'
<1>0. VerdictTypes /\ VerdictNotices
  BY DEF VerdictInv
<1>1. CASE UNCHANGED verdictVars
  BY <1>0, <1>1, NoticesKept DEF verdictVars
<1>2. CASE CalibrateSoft404
  BY <1>0, <1>2, NoticesKept DEF CalibrateSoft404, setting
<1>3. ASSUME NEW w \in Judges, Take(w) PROVE VerdictNotices'
  <2>1. /\ \A x \in Judges : x # w => stage'[x] = stage[x] /\ job'[x] = job[x]
        /\ stage'[w] = "filter" /\ site' = site
        /\ fpCounts' = fpCounts /\ notices' = notices /\ count' = count
    BY <1>0, <1>3, MoveToStage DEF Take, VerdictStages, VerdictTypes, setting, calibration
  <2> QED BY <1>0, <2>1, NoticesKept
<1>4. ASSUME NEW w \in Judges,
             applyFilters(w) \/ checkMirror(w) \/ RememberSignature(w) \/ publish(w)
      PROVE  VerdictNotices'
  <2>1. stage'[w] # "decide" /\ Alone(w)
    BY <1>4, OtherEnds
  <2>2. fpCounts' = fpCounts /\ notices' = notices /\ count' = count
    BY <1>4 DEF applyFilters, checkMirror, RememberSignature, publish
  <2> QED BY <1>0, <2>1, <2>2, NoticesKept DEF Alone
<1>5. ASSUME NEW p \in SitePaths, scanBranch(p) PROVE VerdictNotices'
  BY <1>0, <1>5, NoticesKept DEF scanBranch, setting, calibration
<1> QED BY <1>1, <1>2, <1>3, <1>4, <1>5, CountingNotices, DecidingNotices DEF VerdictNext

-----------------------------------------------------------------------------
(* Mirrors.                                                                   *)
LEMMA AncestorsOfChild ==
  ASSUME NEW p \in SitePaths, NEW q \in Children(p)
  PROVE  Ancestors(q) \subseteq Ancestors(p) \cup {p}
<1>1. /\ q \in SitePaths /\ p \in Seq(STRING) /\ q \in Seq(STRING) /\ p # <<>>
      /\ Len(q) = Len(p) + 1 /\ SubSeq(q, 1, Len(p)) = p
  BY VerdictAssumption DEF Children
<1>2. Len(p) \in Nat /\ DOMAIN p = 1..Len(p)
  BY <1>1
<1>3. ASSUME NEW n \in 1..(Len(q) - 1) PROVE SubSeq(q, 1, n) \in Ancestors(p) \cup {p}
  <2>1. CASE n = Len(p)
    BY <2>1, <1>1
  <2>2. CASE n # Len(p)
    <3>1. n \in 1..(Len(p) - 1)
      <4>1. n \in Nat /\ 1 <= n /\ n <= Len(p)
        BY <1>1, <1>2, <1>3
      <4>2. Len(p) \in Nat /\ n # Len(p)
        BY <1>2, <2>2
      <4> QED BY ONLY <4>1, <4>2
    <3>2. \A i \in 1..Len(p) : q[i] = p[i]
      <4>1. \A i \in 1..Len(p) : SubSeq(q, 1, Len(p))[i] = q[i]
        BY <1>1, <1>2
      <4> QED BY <4>1, <1>1
    <3>3. SubSeq(q, 1, n) = [i \in 1..n |-> q[i]] /\ SubSeq(p, 1, n) = [i \in 1..n |-> p[i]]
      BY <3>1, <1>1, <1>2
    <3>4. \A i \in 1..n : q[i] = p[i]
      BY <3>1, <3>2, <1>2
    <3>5. SubSeq(q, 1, n) = SubSeq(p, 1, n)
      BY <3>3, <3>4
    <3> QED BY <3>1, <3>5 DEF Ancestors
  <2> QED BY <2>1, <2>2
<1> QED BY <1>3 DEF Ancestors

LEMMA MirrorsKept ==
  ASSUME VerdictMirrors, signatures' = signatures, site' = site, probing' = probing,
         filter' = filter,
         \A x \in Judges : stage'[x] \in {"remember", "report"} =>
            stage'[x] = stage[x] /\ job'[x] = job[x],
         Reported' \subseteq Reported
  PROVE  VerdictMirrors'
<1>1. \A p : Answer(p)' = Answer(p) /\ Unlike(p)' = Unlike(p) /\ Signed(p)' = Signed(p)
  BY DEF Answer, Unlike, Fingerprint, Signed
<1>2. \A x \in Judges : stage'[x] \in {"remember", "report"} => Unlike(job[x])'
  BY <1>1 DEF VerdictMirrors
<1>3. \A p \in Reported' : Unlike(p)'
  BY <1>1 DEF VerdictMirrors
<1>4. \A a \in DOMAIN signatures' : signatures'[a] = Fingerprint(Answer(a))'
  BY <1>1 DEF VerdictMirrors, Fingerprint
<1>5. \A x \in Judges : stage'[x] = "report" => Signed(job[x])'
  BY <1>1 DEF VerdictMirrors
<1>6. (\A p \in probing' : Signed(p)') /\ \A p \in filter' : \A a \in Ancestors(p) : Signed(a)'
  BY <1>1 DEF VerdictMirrors
<1> QED BY <1>2, <1>3, <1>4, <1>5, <1>6 DEF VerdictMirrors

(* The worker's place and the hits after the steps that matter to mirrors.    *)
LEMMA StageAfter ==
  ASSUME VerdictInv, NEW w \in Judging, NEW v \in Verdicts, NEW s \in VerdictStages, Alone(w),
         End(w, v) \/ (MoveTo(w, s) /\ verdict' = verdict)
  PROVE  /\ stage'[w] \in {"idle", s}
         /\ \A x \in Judges : stage'[x] = stage[x] \/ (x = w /\ stage'[x] \in {"idle", s})
         /\ v \notin {"new", "drift", "same"} => Reported' \subseteq Reported
         /\ Reported' \subseteq Reported \cup {job[w]}
         /\ \A p \in SitePaths : p # job[w] => verdict'[p] = verdict[p]
         /\ stage'[w] = "idle" /\ s # "idle" => verdict'[job[w]] = v
<1>0. w \in Judges /\ \A x \in Judges : x # w => stage'[x] = stage[x]
  BY DEF Judging, Alone
<1>1. CASE End(w, v)
  <2>1. /\ stage'[w] = "idle" /\ verdict'[job[w]] = v
        /\ \A p \in SitePaths : p # job[w] => verdict'[p] = verdict[p]
    BY <1>1, EndsOf
  <2> QED BY <1>0, <2>1 DEF Reported
<1>2. CASE MoveTo(w, s) /\ verdict' = verdict
  <2>1. stage'[w] = s
    BY <1>2, EndsOf
  <2> QED BY <1>0, <1>2, <2>1 DEF Reported
<1> QED BY <1>1, <1>2

LEMMA CheckedMirrors ==
  ASSUME VerdictInv, NEW w \in Judges, checkMirror(w)
  PROVE  VerdictMirrors'
<1>0. /\ VerdictTypes /\ VerdictMirrors /\ w \in Judging /\ job[w] \in filter /\ job[w] \in SitePaths
      /\ Alone(w)
  BY JudgeIsBusy, LaterSteps DEF VerdictInv
<1>1. /\ signatures' = signatures /\ site' = site /\ probing' = probing /\ filter' = filter
      /\ job' = job
  BY DEF checkMirror, setting
<1>2. /\ \A x \in Judges :
            stage'[x] = stage[x] \/ (x = w /\ stage'[x] \in {"idle", "remember", "report"})
      /\ Reported' \subseteq Reported
      /\ stage'[w] # "idle" =>
            Answer(job[w]).head \/ ~(Depth(job[w]) > 0 /\ IsMirror(job[w]))
      /\ stage'[w] = "report" => Answer(job[w]).head
  <2>1. "mirror" \in Verdicts /\ "remember" \in VerdictStages /\ "report" \in VerdictStages
    BY DEF Verdicts, VerdictStages
  <2>2. CASE Answer(job[w]).head
    <3>1. MoveTo(w, "report") /\ verdict' = verdict
      BY <2>2 DEF checkMirror
    <3> QED BY <1>0, <2>1, <2>2, <3>1, EndsOf DEF Reported, Judging
  <2>3. CASE ~Answer(job[w]).head /\ Depth(job[w]) > 0 /\ IsMirror(job[w])
    <3>1. End(w, "mirror")
      BY <2>3 DEF checkMirror
    <3>2. stage'[w] = "idle"
      BY <1>0, <2>1, <3>1, EndsOf
    <3>3. Reported' \subseteq Reported /\ \A x \in Judges : x # w => stage'[x] = stage[x]
      BY <1>0, <2>1, <3>1, EndsOf, StageAfter
    <3> QED BY <3>2, <3>3
  <2>4. CASE ~Answer(job[w]).head /\ ~(Depth(job[w]) > 0 /\ IsMirror(job[w]))
    <3>1. MoveTo(w, "remember") /\ verdict' = verdict
      BY <2>4 DEF checkMirror
    <3> QED BY <1>0, <2>1, <2>4, <3>1, EndsOf DEF Reported, Judging
  <2> QED BY <2>2, <2>3, <2>4
<1>3. ASSUME stage'[w] # "idle" PROVE Unlike(job[w])
  <2> DEFINE p == job[w]
  <2>1. Answer(p).head \/ ~(Depth(p) > 0 /\ IsMirror(p))
    BY <1>2, <1>3
  <2>2. ASSUME ~Answer(p).head, NEW a \in Ancestors(p), ~Answer(a).head
        PROVE  Fingerprint(Answer(p)) # Fingerprint(Answer(a))
    <3>1. PICK n \in 1..(Len(p) - 1) : a = SubSeq(p, 1, n)
      BY <2>2 DEF Ancestors
    <3>2. p \in Seq(STRING)
      BY <1>0, VerdictAssumption
    <3>3. Depth(p) > 0
      BY <3>1, <3>2 DEF Depth
    <3>4. a \in DOMAIN signatures /\ signatures[a] = Fingerprint(Answer(a))
      BY <1>0, <2>2 DEF VerdictMirrors, Signed
    <3>5. a \in References(p) \cap DOMAIN signatures
      BY <2>2, <3>4 DEF References
    <3> HIDE DEF p
    <3> QED BY <2>1, <2>2, <3>3, <3>4, <3>5 DEF IsMirror
  <2> QED BY <2>2 DEF Unlike
<1>4. \A p : Unlike(p)' = Unlike(p) /\ Answer(p)' = Answer(p) /\ Signed(p)' = Signed(p)
  BY <1>1 DEF Answer, Unlike, Fingerprint, Signed
<1>5. ASSUME NEW x \in Judges, stage'[x] \in {"remember", "report"} PROVE Unlike(job[x])'
  <2>1. Unlike(job[x])
    BY <1>0, <1>2, <1>3, <1>5 DEF VerdictMirrors
  <2> QED BY <2>1, <1>1, <1>4
<1>6. ASSUME NEW x \in Judges, stage'[x] = "report" PROVE Signed(job[x])'
  <2>1. Signed(job[x])
    BY <1>0, <1>2, <1>6 DEF VerdictMirrors, Signed
  <2> QED BY <2>1, <1>1, <1>4
<1>7. \A p \in Reported' : Unlike(p)'
  BY <1>0, <1>2, <1>4 DEF VerdictMirrors
<1>8. /\ \A a \in DOMAIN signatures' : signatures'[a] = Fingerprint(Answer(a))'
      /\ \A p \in probing' : Signed(p)'
      /\ \A p \in filter' : \A a \in Ancestors(p) : Signed(a)'
  BY <1>0, <1>1, <1>4 DEF VerdictMirrors, Fingerprint
<1> QED BY <1>5, <1>6, <1>7, <1>8 DEF VerdictMirrors

LEMMA RememberedMirrors ==
  ASSUME VerdictInv, NEW w \in Judges, RememberSignature(w)
  PROVE  VerdictMirrors'
<1>0. VerdictTypes /\ VerdictMirrors /\ w \in Judging /\ Alone(w) /\ stage[w] = "remember"
  BY JudgeIsBusy, LaterSteps DEF VerdictInv, RememberSignature
<1>1. /\ site' = site /\ probing' = probing /\ filter' = filter /\ job' = job /\ verdict' = verdict
      /\ signatures' = [p \in DOMAIN signatures \cup {job[w]} |->
                          IF p = job[w] THEN Fingerprint(Answer(p)) ELSE signatures[p]]
  BY DEF RememberSignature, setting
<1>2. /\ DOMAIN signatures' = DOMAIN signatures \cup {job[w]}
      /\ \A a \in DOMAIN signatures' : signatures'[a] = Fingerprint(Answer(a))
  BY <1>0, <1>1 DEF VerdictMirrors
<1>3. \A x \in Judges : stage'[x] = stage[x] \/ (x = w /\ stage'[x] = "report")
  <2>1. MoveTo(w, "report") /\ "report" \in VerdictStages
    BY DEF RememberSignature, VerdictStages
  <2> QED BY <1>0, <2>1, EndsOf
<1>4. \A p : Unlike(p)' = Unlike(p) /\ Answer(p)' = Answer(p) /\ (Signed(p) => Signed(p)')
  BY <1>1, <1>2 DEF Answer, Unlike, Fingerprint, Signed
<1>5. ASSUME NEW x \in Judges, stage'[x] \in {"remember", "report"} PROVE Unlike(job[x])'
  <2>1. Unlike(job[x])
    BY <1>0, <1>3, <1>5 DEF VerdictMirrors
  <2> QED BY <2>1, <1>1, <1>4
<1>6. ASSUME NEW x \in Judges, stage'[x] = "report" PROVE Signed(job[x])'
  <2>1. CASE stage[x] = "report"
    <3>1. Signed(job[x])
      BY <1>0, <2>1 DEF VerdictMirrors
    <3> QED BY <3>1, <1>1, <1>4
  <2>2. CASE x = w
    <3>1. job'[w] \in DOMAIN signatures'
      BY <1>1, <1>2
    <3> QED BY <2>2, <3>1 DEF Signed
  <2> QED BY <1>3, <1>6, <2>1, <2>2
<1>7. \A p \in Reported' : Unlike(p)'
  <2>1. Reported' = Reported
    BY <1>1 DEF Reported
  <2> QED BY <2>1, <1>0, <1>4 DEF VerdictMirrors
<1>8. /\ \A a \in DOMAIN signatures' : signatures'[a] = Fingerprint(Answer(a))'
      /\ \A p \in probing' : Signed(p)'
      /\ \A p \in filter' : \A a \in Ancestors(p) : Signed(a)'
  BY <1>0, <1>1, <1>2, <1>4 DEF VerdictMirrors, Fingerprint
<1> QED BY <1>5, <1>6, <1>7, <1>8 DEF VerdictMirrors

LEMMA PublishedMirrors ==
  ASSUME VerdictInv, NEW w \in Judges, publish(w)
  PROVE  VerdictMirrors'
<1>0. VerdictTypes /\ VerdictMirrors /\ w \in Judging /\ Alone(w) /\ stage[w] = "report"
  BY JudgeIsBusy, LaterSteps DEF VerdictInv, publish
<1>1. /\ site' = site /\ filter' = filter /\ job' = job /\ signatures' = signatures
      /\ probing' \subseteq probing \cup {job[w]}
  BY DEF publish, setting
<1>2. /\ Reported' \subseteq Reported \cup {job[w]}
      /\ \A x \in Judges : stage'[x] = stage[x] \/ stage'[x] = "idle"
  <2>1. applyEagleDrift(job[w]) \in Verdicts /\ "idle" \in VerdictStages
    BY DriftOutcome DEF Verdicts, VerdictStages
  <2>2. End(w, applyEagleDrift(job[w]))
    BY DEF publish
  <2> DEFINE v == applyEagleDrift(job[w])
  <2> HIDE DEF v
  <2>3. v \in Verdicts /\ End(w, v)
    BY <2>1, <2>2 DEF v
  <2> QED BY <1>0, <2>1, <2>3, StageAfter
<1>4. \A p : Unlike(p)' = Unlike(p) /\ Answer(p)' = Answer(p) /\ Signed(p)' = Signed(p)
  BY <1>1 DEF Answer, Unlike, Fingerprint, Signed
<1>5. ASSUME NEW x \in Judges, stage'[x] \in {"remember", "report"} PROVE Unlike(job[x])'
  <2>1. Unlike(job[x])
    BY <1>0, <1>2, <1>5 DEF VerdictMirrors
  <2> QED BY <2>1, <1>1, <1>4
<1>6. ASSUME NEW x \in Judges, stage'[x] = "report" PROVE Signed(job[x])'
  <2>1. Signed(job[x])
    BY <1>0, <1>2, <1>6 DEF VerdictMirrors
  <2> QED BY <2>1, <1>1, <1>4
<1>7. \A p \in Reported' : Unlike(p)'
  <2>1. w \in Judges /\ Unlike(job[w])
    BY <1>0 DEF VerdictMirrors
  <2>2. \A p \in Reported \cup {job[w]} : Unlike(p)
    BY <1>0, <2>1 DEF VerdictMirrors
  <2> QED BY <2>2, <1>2, <1>4
<1>8. /\ \A a \in DOMAIN signatures' : signatures'[a] = Fingerprint(Answer(a))'
      /\ \A p \in probing' : Signed(p)'
      /\ \A p \in filter' : \A a \in Ancestors(p) : Signed(a)'
  <2>1. Signed(job[w])
    BY <1>0 DEF VerdictMirrors, Judging
  <2> QED BY <2>1, <1>0, <1>1, <1>4 DEF VerdictMirrors, Fingerprint
<1> QED BY <1>5, <1>6, <1>7, <1>8 DEF VerdictMirrors

LEMMA ScannedMirrors ==
  ASSUME VerdictInv, NEW p \in SitePaths, scanBranch(p)
  PROVE  VerdictMirrors'
<1>0. VerdictTypes /\ VerdictMirrors
  BY DEF VerdictInv
<1>1. /\ p \in probing /\ probing' \subseteq probing /\ filter' \subseteq filter \cup Children(p)
      /\ site' = site /\ stage' = stage /\ job' = job /\ verdict' = verdict
      /\ signatures' = signatures
  BY DEF scanBranch, setting
<1>2. \A a : Unlike(a)' = Unlike(a) /\ Answer(a)' = Answer(a) /\ Signed(a)' = Signed(a)
  BY <1>1 DEF Answer, Unlike, Fingerprint, Signed
<1>3. ASSUME NEW q \in filter' PROVE \A a \in Ancestors(q) : Signed(a)
  <2>1. CASE q \in filter
    BY <2>1, <1>0 DEF VerdictMirrors
  <2>2. CASE q \in Children(p)
    <3>1. Ancestors(q) \subseteq Ancestors(p) \cup {p}
      BY <2>2, AncestorsOfChild
    <3>2. p \in filter /\ Signed(p)
      BY <1>0, <1>1 DEF VerdictTypes, VerdictMirrors
    <3>3. \A a \in Ancestors(p) : Signed(a)
      BY <1>0, <3>2 DEF VerdictMirrors
    <3> QED BY <3>1, <3>2, <3>3
  <2> QED BY <1>1, <1>3, <2>1, <2>2
<1>4. \A x \in Judges : stage'[x] \in {"remember", "report"} => Unlike(job[x])'
  <2> TAKE x \in Judges
  <2> HAVE stage'[x] \in {"remember", "report"}
  <2>1. Unlike(job[x])
    BY <1>0, <1>1 DEF VerdictMirrors
  <2> QED BY <2>1, <1>1, <1>2
<1>5. /\ \A x \in Judges : stage'[x] = "report" => Signed(job[x])'
      /\ \A a \in probing' : Signed(a)'
      /\ \A a \in DOMAIN signatures' : signatures'[a] = Fingerprint(Answer(a))'
  BY <1>0, <1>1, <1>2 DEF VerdictMirrors, Fingerprint
<1>6. \A q \in Reported' : Unlike(q)'
  <2>1. Reported' = Reported
    BY <1>1 DEF Reported
  <2> QED BY <2>1, <1>0, <1>2 DEF VerdictMirrors
<1>7. \A q \in filter' : \A a \in Ancestors(q) : Signed(a)'
  BY <1>2, <1>3
<1> QED BY <1>4, <1>5, <1>6, <1>7 DEF VerdictMirrors

LEMMA VerdictMirrorsStep ==
  ASSUME VerdictInv, [VerdictNext]_verdictVars
  PROVE  VerdictMirrors'
<1>0. VerdictTypes /\ VerdictMirrors
  BY DEF VerdictInv
<1>1. CASE UNCHANGED verdictVars
  BY <1>0, <1>1, MirrorsKept DEF verdictVars, Reported
<1>2. CASE CalibrateSoft404
  BY <1>0, <1>2, MirrorsKept DEF CalibrateSoft404, setting, Reported
<1>3. ASSUME NEW w \in Judges, Take(w) PROVE VerdictMirrors'
  <2>1. /\ \A x \in Judges : x # w => stage'[x] = stage[x] /\ job'[x] = job[x]
        /\ stage'[w] = "filter" /\ site' = site /\ verdict' = verdict
        /\ signatures' = signatures /\ probing' = probing /\ filter' = filter
    BY <1>0, <1>3, MoveToStage DEF Take, VerdictStages, VerdictTypes, setting, calibration
  <2>2. Reported' = Reported
    BY <2>1 DEF Reported
  <2> QED BY <1>0, <2>1, <2>2, MirrorsKept
<1>4. ASSUME NEW w \in Judges, applyFilters(w) \/ countFingerprint(w) \/ autoFilter(w)
      PROVE  VerdictMirrors'
  <2>1. w \in Judging /\ Alone(w)
    BY <1>4, FilterStep, LaterSteps
  <2>2. \E v \in {"filtered", "soft404", "auto"}, s \in {"count", "decide", "mirror"} :
           End(w, v) \/ (MoveTo(w, s) /\ verdict' = verdict)
    <3>1. CASE applyFilters(w)
      BY <3>1, FilterOutcome
    <3>2. CASE countFingerprint(w)
      BY <3>2 DEF countFingerprint
    <3>3. CASE autoFilter(w)
      BY <3>3 DEF autoFilter
    <3> QED BY <1>4, <3>1, <3>2, <3>3
  <2>3. PICK v \in {"filtered", "soft404", "auto"}, s \in {"count", "decide", "mirror"} :
           End(w, v) \/ (MoveTo(w, s) /\ verdict' = verdict)
    BY <2>2
  <2>4. v \in Verdicts /\ s \in VerdictStages /\ v \notin {"new", "drift", "same"}
        /\ {"idle", s} \cap {"remember", "report"} = {}
    BY <2>3 DEF Verdicts, VerdictStages
  <2>5. /\ \A x \in Judges : stage'[x] = stage[x] \/ (x = w /\ stage'[x] \in {"idle", s})
        /\ Reported' \subseteq Reported
    BY <2>1, <2>3, <2>4, StageAfter
  <2>6. /\ signatures' = signatures /\ probing' = probing /\ filter' = filter /\ job' = job
        /\ site' = site
    BY <1>4 DEF applyFilters, countFingerprint, autoFilter, setting
  <2> QED BY <1>0, <2>4, <2>5, <2>6, MirrorsKept
<1> QED BY <1>1, <1>2, <1>3, <1>4, CheckedMirrors, RememberedMirrors, PublishedMirrors,
           ScannedMirrors DEF VerdictNext

-----------------------------------------------------------------------------
(* The comparison with the older scan.                                        *)
LEMMA ComparesKept ==
  ASSUME VerdictCompares, UNCHANGED setting,
         \A p \in Reported' : verdict'[p] = applyEagleDrift(p)
  PROVE  VerdictCompares'
<1>1. previous' = previous /\ older' = older /\ site' = site /\ raw' = raw
  BY DEF setting
<1>2. \A p : applyEagleDrift(p)' = applyEagleDrift(p)
  BY <1>1 DEF applyEagleDrift, Answer
<1>3. LoadPreviousScan(older)' = LoadPreviousScan(older)
  BY <1>1 DEF LoadPreviousScan, previousScanEntry, Answer
<1>4. \A p \in Reported' : verdict'[p] = applyEagleDrift(p)'
  BY <1>2
<1> QED BY <1>1, <1>3, <1>4 DEF VerdictCompares

LEMMA VerdictComparesStep ==
  ASSUME VerdictInv, [VerdictNext]_verdictVars
  PROVE  VerdictCompares'
<1>0. VerdictTypes /\ VerdictCompares
  BY DEF VerdictInv
<1>1. ASSUME UNCHANGED setting, verdict' = verdict PROVE VerdictCompares'
  <2>1. Reported' = Reported
    BY <1>1 DEF Reported
  <2>2. \A p \in Reported' : verdict'[p] = applyEagleDrift(p)
    BY <1>0, <1>1, <2>1 DEF VerdictCompares
  <2> QED BY <1>0, <1>1, <2>2, ComparesKept
<1>2. CASE UNCHANGED verdictVars
  BY <1>1, <1>2 DEF verdictVars, setting
<1>3. CASE CalibrateSoft404
  BY <1>1, <1>3 DEF CalibrateSoft404
<1>4. ASSUME NEW w \in Judges, Take(w) \/ countFingerprint(w) \/ RememberSignature(w)
      PROVE  VerdictCompares'
  BY <1>1, <1>4 DEF Take, countFingerprint, RememberSignature
<1>5. ASSUME NEW p \in SitePaths, scanBranch(p) PROVE VerdictCompares'
  BY <1>1, <1>5 DEF scanBranch
<1>6. ASSUME NEW w \in Judges, applyFilters(w) \/ autoFilter(w) \/ checkMirror(w) \/ publish(w)
      PROVE  VerdictCompares'
  <2>1. w \in Judging /\ Alone(w) /\ UNCHANGED setting
    BY <1>6, FilterStep, LaterSteps DEF applyFilters, autoFilter, checkMirror, publish
  <2>2. \/ verdict' = verdict
        \/ \E v \in {"filtered", "soft404", "auto", "mirror"} : End(w, v)
        \/ End(w, applyEagleDrift(job[w]))
    BY <1>6, FilterOutcome DEF autoFilter, checkMirror, publish
  <2>3. CASE verdict' = verdict
    BY <1>1, <2>1, <2>3
  <2>4. ASSUME NEW v \in Verdicts, End(w, v),
               v \in {"filtered", "soft404", "auto", "mirror"} \/ v = applyEagleDrift(job[w])
        PROVE  VerdictCompares'
    <3>1. /\ verdict'[job[w]] = v
          /\ \A p \in SitePaths : p # job[w] => verdict'[p] = verdict[p]
      BY <2>1, <2>4, EndsOf
    <3>2. ASSUME NEW p \in Reported' PROVE verdict'[p] = applyEagleDrift(p)
      <4>1. p \in SitePaths /\ verdict'[p] \in {"new", "drift", "same"}
        BY <3>2 DEF Reported
      <4>2. CASE p = job[w]
        BY <4>1, <4>2, <3>1, <2>4
      <4>3. CASE p # job[w]
        <5>1. verdict'[p] = verdict[p]
          BY <4>1, <4>3, <3>1
        <5>2. p \in Reported
          BY <5>1, <4>1 DEF Reported
        <5> QED BY <5>1, <5>2, <1>0 DEF VerdictCompares
      <4> QED BY <4>2, <4>3
    <3> QED BY <1>0, <2>1, <3>2, ComparesKept
  <2>5. applyEagleDrift(job[w]) \in Verdicts /\ {"filtered", "soft404", "auto", "mirror"} \subseteq Verdicts
    BY DriftOutcome DEF Verdicts
  <2> QED BY <2>2, <2>3, <2>4, <2>5
<1> QED BY <1>2, <1>3, <1>4, <1>5, <1>6 DEF VerdictNext

-----------------------------------------------------------------------------
LEMMA VerdictInvStep == VerdictInv /\ [VerdictNext]_verdictVars => VerdictInv'
<1> SUFFICES ASSUME VerdictInv, [VerdictNext]_verdictVars PROVE VerdictInv'
  OBVIOUS
<1>1. VerdictTypes' /\ VerdictOnce'
  BY VerdictTypesStep, VerdictOnceStep
<1>2. Ordered(clusters)' /\ VerdictCalibrates' /\ VerdictCrowds'
  BY <1>1, VerdictOrderStep, VerdictCrowdsStep
<1>3. /\ VerdictBaselines' /\ VerdictCounts' /\ VerdictNotices' /\ VerdictMirrors'
      /\ VerdictCompares'
  BY VerdictBaselinesStep, VerdictCountsStep, VerdictNoticesStep, VerdictMirrorsStep,
     VerdictComparesStep
<1> QED BY <1>1, <1>2, <1>3 DEF VerdictInv

(* What the parts of the invariant say of the properties.                     *)
LEMMA InvTypes == VerdictInv => VerdictTypeOK /\ VerdictSorted
<1> SUFFICES ASSUME VerdictInv PROVE VerdictTypeOK /\ VerdictSorted
  OBVIOUS
<1>0. VerdictTypes /\ VerdictOnce /\ Ordered(clusters)
  BY DEF VerdictInv
<1>1. clusters \in Seq(Cluster) /\ DOMAIN clusters = 1..Len(clusters) /\ Len(clusters) \in Nat
  BY <1>0 DEF VerdictTypes
<1>2. \A c \in Range(clusters) : c.centroid \in Nat /\ c.count \in Nat \ {0}
  <2>1. \A c \in Range(clusters) : c \in Cluster
    BY <1>1 DEF Range
  <2> QED BY <2>1 DEF Cluster
<1>3. \A w \in Judges : stage[w] = "idle" \/ job[w] \in SitePaths
  BY <1>0 DEF VerdictOnce, VerdictTypes, Judging
<1>4. VerdictTypeOK
  BY <1>0, <1>2, <1>3 DEF VerdictTypeOK, VerdictTypes
<1>5. VerdictSorted
  <2> SUFFICES ASSUME NEW i \in 1..(Len(clusters) - 1)
               PROVE  clusters[i].count >= clusters[i + 1].count
    BY DEF VerdictSorted
  <2>1. i \in DOMAIN clusters /\ i + 1 \in DOMAIN clusters /\ i <= i + 1
    BY <1>1
  <2> QED BY <2>1, <1>0 DEF Ordered
<1> QED BY <1>4, <1>5

LEMMA InvCrowds == VerdictInv => VerdictSoftNeedsCrowd
<1> SUFFICES ASSUME VerdictInv PROVE VerdictSoftNeedsCrowd
  OBVIOUS
<1>0. VerdictTypes /\ VerdictOnce /\ VerdictCrowds
  BY DEF VerdictInv
<1> DEFINE T == Passed \cup InHand
<1>1. Held404 \subseteq T
  BY DEF Held404, InHand, PastFilter
<1>2. IsFiniteSet(T)
  <2>1. T \subseteq SitePaths
    BY <1>0 DEF Passed, InHand, VerdictOnce, VerdictTypes, Judging
  <2> QED BY <2>1, VerdictAssumption, FS_Subset
<1>3. ClusterLimit \in Nat
  BY <1>0, Limits DEF VerdictTypes
<1> HIDE DEF T
<1>4. ASSUME NEW p \in SitePaths, verdict[p] = "soft404"
      PROVE  \/ \E b \in seeded : Near(b, Answer(p).body)
             \/ \E c \in Bodies(T) :
                   /\ Near(c, Answer(p).body)
                   /\ Cardinality(Alike(T, c)) >= ClusterLimit
  <2>1. CASE \E b \in seeded : Near(b, Answer(p).body)
    BY <2>1
  <2>2. CASE \E c \in Bodies(Held404) :
                Near(c, Answer(p).body) /\ Cardinality(Like(c)) >= ClusterLimit
    <3>1. PICK c \in Bodies(Held404) :
                Near(c, Answer(p).body) /\ Cardinality(Like(c)) >= ClusterLimit
      BY <2>2
    <3>2. /\ Cardinality(Alike(Held404, c)) \in Nat /\ Cardinality(Alike(T, c)) \in Nat
          /\ Cardinality(Alike(Held404, c)) <= Cardinality(Alike(T, c))
      BY <1>1, <1>2, AlikeGrows
    <3>3. Like(c) = Alike(Held404, c)
      BY DEF Like, Alike
    <3>4. Cardinality(Alike(T, c)) >= ClusterLimit
      BY <1>3, <3>1, <3>2, <3>3
    <3>5. c \in Bodies(T)
      BY <1>1, <3>1 DEF Bodies
    <3> QED BY <3>1, <3>4, <3>5
  <2> QED BY <1>0, <1>4, <2>1, <2>2 DEF VerdictCrowds
<1> DEFINE compared == {q \in T : Compared(Answer(q))}
<1>5. /\ Bodies(T) = {Answer(q).body : q \in compared}
      /\ \A c : Alike(T, c) = {q \in compared : Near(c, Answer(q).body)}
  BY DEF Bodies, Alike
<1> HIDE DEF compared
<1>6. ASSUME NEW p \in SitePaths, verdict[p] = "soft404"
      PROVE  \/ \E b \in seeded : Near(b, Answer(p).body)
             \/ \E c \in {Answer(q).body : q \in compared} :
                   /\ Near(c, Answer(p).body)
                   /\ Cardinality({q \in compared : Near(c, Answer(q).body)}) >= ClusterLimit
  BY <1>4, <1>5, <1>6
<1> QED BY <1>6 DEF VerdictSoftNeedsCrowd, T, compared

LEMMA InvRest ==
  VerdictInv => VerdictBaselineHidden /\ VerdictAnnounced /\ VerdictNoMirror /\ VerdictEagle
<1> SUFFICES ASSUME VerdictInv
             PROVE  VerdictBaselineHidden /\ VerdictAnnounced /\ VerdictNoMirror /\ VerdictEagle
  OBVIOUS
<1>0. /\ VerdictTypes /\ VerdictOnce /\ VerdictBaselines /\ VerdictCounts /\ VerdictNotices
      /\ VerdictMirrors /\ VerdictCompares
  BY DEF VerdictInv
<1>1. VerdictBaselineHidden
  BY <1>0 DEF VerdictBaselineHidden, VerdictBaselines, Shown
<1>2. VerdictAnnounced
  <2>1. ASSUME NEW p \in SitePaths, verdict[p] = "auto"
        PROVE  \/ \E x \in notices : x.print = Fingerprint(Answer(p))
               \/ \E w \in Judges : stage[w] = "decide"
                                    /\ Fingerprint(Answer(job[w])) = Fingerprint(Answer(p))
    <3> DEFINE f == Fingerprint(Answer(p))
    <3>1. AutoLimit > 0 /\ f \in DOMAIN fpCounts /\ fpCounts[f] >= AutoLimit
      BY <1>0, <2>1 DEF VerdictCounts
    <3>2. f \in Said \/ \E w \in Judges : Announces(w, f)
      BY <1>0, <3>1 DEF VerdictCounts
    <3> QED BY <3>2 DEF Announces, JobPrint, Said
  <2>2. \A x, y \in notices : x.print = y.print => x = y
    BY <1>0 DEF VerdictNotices
  <2> QED BY <2>1, <2>2 DEF VerdictAnnounced
<1>3. VerdictNoMirror
  BY <1>0 DEF VerdictNoMirror, VerdictMirrors, Unlike
<1>4. VerdictEagle
  <2> SUFFICES ASSUME older # <<>>, NEW p \in Reported
               PROVE  LET was == Last(older).resp[p]
                          now == Answer(p)
                          differs == \/ was.status # now.status
                                     \/ was.size # now.size /\ -1 \notin {was.size, now.size}
                                     \/ raw /\ was.body # 0 /\ now.body # 0 /\ was.body # now.body
                      IN was.head = now.head => verdict[p] = IF differs THEN "drift" ELSE "same"
    BY DEF VerdictEagle
  <2>1. p \in SitePaths
    BY DEF Reported
  <2>2. PICK s \in Sites : older = <<site, s>>
    BY <1>0 DEF VerdictCompares
  <2> DEFINE was == s.resp[p]
  <2>3. Last(older) = s /\ DOMAIN older = 1..2 /\ older[2] = s
    BY <2>2 DEF Last
  <2>4. /\ was.status # 0 /\ was.size \in Nat \cup {-1}
        /\ Answer(p).size \in Nat \cup {-1} /\ IsAnswer(was)
    BY <1>0, <2>1, VerdictAssumption, Limits DEF VerdictTypes, IsAnswer
  <2>5. ASSUME was.head = Answer(p).head
        PROVE  /\ previous[p].status = was.status /\ previous[p].size = was.size
               /\ previous[p].body = IF raw THEN was.body ELSE 0
    <3> DEFINE same == {i \in DOMAIN older : older[i].resp[p].head = Answer(p).head}
               newest == CHOOSE i \in same : \A j \in same : j <= i
    <3>1. 2 \in same /\ same \subseteq 1..2
      BY <2>3, <2>5
    <3> HIDE DEF same
    <3>2. \E i \in same : \A j \in same : j <= i
      BY <3>1
    <3>3. newest \in same /\ \A j \in same : j <= newest
      BY <3>2
    <3> HIDE DEF newest
    <3>4. newest = 2
      BY <3>1, <3>3
    <3>5. previous[p] = previousScanEntry(older[newest].resp[p])
      BY <1>0, <2>1, <3>1 DEF VerdictCompares, LoadPreviousScan, same, newest
    <3> QED BY <2>3, <3>4, <3>5 DEF previousScanEntry
  <2>6. verdict[p] = applyEagleDrift(p)
    BY <1>0 DEF VerdictCompares
  <2>7. raw \in BOOLEAN
    BY <1>0 DEF VerdictTypes
  <2> HIDE DEF was
  <2>8. ASSUME was.head = Answer(p).head
        PROVE  verdict[p] = IF \/ was.status # Answer(p).status
                               \/ was.size # Answer(p).size /\ -1 \notin {was.size, Answer(p).size}
                               \/ /\ raw /\ was.body # 0 /\ Answer(p).body # 0
                                  /\ was.body # Answer(p).body
                            THEN "drift" ELSE "same"
    <3>1. /\ (was.size >= 0) <=> (was.size # -1)
          /\ (Answer(p).size >= 0) <=> (Answer(p).size # -1)
      BY <2>4
    <3>2. CASE raw
      BY <3>1, <3>2, <2>4, <2>5, <2>6, <2>8 DEF applyEagleDrift
    <3>3. CASE ~raw
      BY <3>1, <3>3, <2>4, <2>5, <2>6, <2>8 DEF applyEagleDrift
    <3> QED BY <3>2, <3>3
  <2> QED BY <2>3, <2>8 DEF was
<1> QED BY <1>1, <1>2, <1>3, <1>4

(* The invariant of the filters holds in every behaviour.                     *)
THEOREM VerdictInvariant == VerdictSafety => []VerdictInv
<1>1. VerdictInit => VerdictInv
  BY VerdictInitInv
<1>2. VerdictInv /\ [VerdictNext]_verdictVars => VerdictInv'
  BY VerdictInvStep
<1> QED BY <1>1, <1>2, PTL DEF VerdictSafety

(* What is suppressed, announced and compared is so for the stated reasons    *)
(* (applyFilters, IsSoftFour, the auto-filter, the mirror check and           *)
(* applyEagleDrift in pkg/engine).                                            *)
THEOREM VerdictsAreSound == VerdictSafety => []VerdictsSound
<1>1. VerdictInv => VerdictsSound
  BY InvTypes, InvCrowds, InvRest DEF VerdictsSound
<1> QED BY <1>1, VerdictInvariant, PTL

-----------------------------------------------------------------------------
(* Retries of blocked requests.                                               *)

EvasionSafety == EvasionInit /\ [][EvasionNext]_evasionVars

Stages == {"idle", "choose", "mark", "store", "send", "granted", "blocked"}
Choosing == {"mark", "store", "send", "granted"}
Inline(w) == PathOf[evJob[w]]
Working == {w \in Workers : evStage[w] # "idle"}
Held == {j \in Jobs : j \notin todo /\ ended[j] = "none"}
KeptBlocked == {j \in Jobs : ended[j] = "blocked"}
KeptGranted == {j \in Jobs : ended[j] \in AllTechniques}
EndedWith(t) == {j \in Jobs : ended[j] = t}
GrantedWith(t) == {w \in Workers : evStage[w] = "granted" /\ Technique(w) = t}

EvTypes ==
    /\ attempted \in [Paths -> Seq(AllTechniques)]
    /\ attempts \in [AllTechniques -> Nat] /\ inlineHits \in [AllTechniques -> Nat]
    /\ count403 \in Nat /\ count200 \in Nat /\ todo \subseteq Jobs
    /\ evStage \in [Workers -> Stages] /\ DOMAIN evJob = Workers
    /\ next \in [Workers -> Nat \ {0}] /\ tried \in [Workers -> 0..EvasionLimit]
    /\ loaded \in [Workers -> Seq(AllTechniques)]
    /\ ended \in [Jobs -> AllTechniques \cup {"none", "blocked"}]
    /\ tasks \in [Jobs -> 0..Len(TaskTechniques)] /\ DOMAIN taskHits = Jobs
    /\ active \in Nat /\ overlapped \subseteq Paths
    /\ tries \in [Paths \X AllTechniques -> Nat]
    /\ probe \in [at : 0..Len(Strategies(ProbePath)), said : SUBSET AllTechniques]

(* A worker that is not idle has a job of its own, taken and not yet ended,   *)
(* and from the mark on a technique of that job's list.                       *)
EvWorkers ==
    \A w \in Working :
        /\ evJob[w] \in Held
        /\ evStage[w] \in Choosing => next[w] \in DOMAIN Strategies(Inline(w))
        /\ evStage[w] \in {"mark", "store"} => tried[w] < EvasionLimit
        /\ \A v \in Working : v # w => evJob[v] # evJob[w]

(* On a path that never had two workers at once the list of marks is what its *)
(* one worker has seen, and a technique is asked for after its mark only.     *)
EvMarks ==
    \A p \in Paths \ overlapped :
        /\ \A t \in AllTechniques :
              tries[<<p, t>>] <= 1 /\ (tries[<<p, t>>] = 1 => t \in Range(attempted[p]))
        /\ \A w \in Working : Inline(w) = p =>
              /\ evStage[w] \in {"mark", "store"} => Technique(w) \notin Range(attempted[p])
              /\ evStage[w] = "store" => loaded[w] = attempted[p]
              /\ evStage[w] = "send" => Technique(w) \in Range(attempted[p])
                                        /\ tries[<<p, Technique(w)>>] = 0
              /\ \A v \in Working : v # w => Inline(v) # p

EvCounts ==
    /\ count403 = Cardinality(Working) + Cardinality(KeptBlocked)
    /\ count200 = Cardinality(KeptGranted)
    /\ Cardinality(Working) = Cardinality(Held)
    /\ active = Cardinality(Working) + Cardinality(Running)
    /\ Cardinality(Running) <= BypassSlots

EvScore ==
    \A t \in AllTechniques :
        /\ inlineHits[t] = Cardinality(EndedWith(t)) + Cardinality(GrantedWith(t))
                           + (IF t \in probe.said THEN 1 ELSE 0)
        /\ inlineHits[t] <= attempts[t]
        /\ t \in probe.said => \E i \in 1..probe.at : Strategies(ProbePath)[i] = t

Refused(j, n) == \A k \in 1..(n - 1) : ~TaskGranted(Reply(PathOf[j], TaskTechniques[k]))
EvTasks ==
    \A j \in Jobs :
        /\ j \in todo => tasks[j] = 0 /\ taskHits[j] = {} /\ ended[j] = "none"
        /\ tasks[j] > 0 => taskHits[j] = {} /\ Refused(j, tasks[j])
        /\ \A t \in taskHits[j] :
              /\ taskHits[j] = {t}
              /\ \E i \in DOMAIN TaskTechniques : TaskTechniques[i] = t /\ Refused(j, i)

EvasionInv == EvTypes /\ EvWorkers /\ EvMarks /\ EvCounts /\ EvScore /\ EvTasks

-----------------------------------------------------------------------------
(* A list of techniques names each of them once.                             *)
LEMMA ListShape ==
  ASSUME NEW v
  PROVE  LET s == EvasionStrategiesFor(v) IN
         /\ Len(s) \in Nat /\ DOMAIN s = 1..Len(s)
         /\ \A i, k \in DOMAIN s : s[i] = s[k] => i = k
         /\ \A i \in DOMAIN s : s[i] \notin {"none", "blocked"}
<1> DEFINE s == EvasionStrategiesFor(v)
<1> SUFFICES /\ Len(s) \in Nat /\ DOMAIN s = 1..Len(s)
             /\ \A i, k \in DOMAIN s : s[i] = s[k] => i = k
             /\ \A i \in DOMAIN s : s[i] \notin {"none", "blocked"}
  OBVIOUS
<1>1. CASE v = "modsecurity"
  <2>1. s = <<"double-slash", "null-byte", "chunked-encoding">>
    BY <1>1 DEF EvasionStrategiesFor
  <2> HIDE DEF s
  <2>2. DOMAIN s = 1..3 /\ Len(s) = 3
    BY <2>1
  <2>3. \A k \in DOMAIN s : s[k] \notin {"none", "blocked"}
    BY <2>1, <2>2
  <2>4. \A k, n \in DOMAIN s : s[k] = s[n] => k = n
    BY <2>1, <2>2
  <2> QED BY <2>2, <2>3, <2>4
<1>2. CASE v = "akamai"
  <2>1. s = <<"case-variation", "cache-buster">>
    BY <1>2 DEF EvasionStrategiesFor
  <2> HIDE DEF s
  <2>2. DOMAIN s = 1..2 /\ Len(s) = 2
    BY <2>1
  <2>3. \A k \in DOMAIN s : s[k] \notin {"none", "blocked"}
    BY <2>1, <2>2
  <2>4. \A k, n \in DOMAIN s : s[k] = s[n] => k = n
    BY <2>1, <2>2
  <2> QED BY <2>2, <2>3, <2>4
<1>3. CASE v = "imperva"
  <2>1. s = <<"xff-localhost">>
    BY <1>3 DEF EvasionStrategiesFor
  <2> HIDE DEF s
  <2>2. DOMAIN s = 1..1 /\ Len(s) = 1
    BY <2>1
  <2>3. \A k \in DOMAIN s : s[k] \notin {"none", "blocked"}
    BY <2>1, <2>2
  <2>4. \A k, n \in DOMAIN s : s[k] = s[n] => k = n
    BY <2>1, <2>2
  <2> QED BY <2>2, <2>3, <2>4
<1>4. CASE v = "cloudflare"
  <2>1. s = <<"cf-connecting-ip", "path-dotslash">>
    BY <1>4 DEF EvasionStrategiesFor
  <2> HIDE DEF s
  <2>2. DOMAIN s = 1..2 /\ Len(s) = 2
    BY <2>1
  <2>3. \A k \in DOMAIN s : s[k] \notin {"none", "blocked"}
    BY <2>1, <2>2
  <2>4. \A k, n \in DOMAIN s : s[k] = s[n] => k = n
    BY <2>1, <2>2
  <2> QED BY <2>2, <2>3, <2>4
<1>5. CASE v \notin {"modsecurity", "akamai", "imperva", "cloudflare"}
  <2>1. s = <<"x-original-url", "x-rewrite-url",
         "x-custom-ip-127", "trailing-slash", "dot-slash", 
         "url-encoded-slash", "double-slash-prefix", "x-forwarded-for-127", 
         "head-method", "trailing-dot-slash", "unicode-first-char">>
    BY <1>5 DEF EvasionStrategiesFor
  <2> HIDE DEF s
  <2>2. DOMAIN s = 1..11 /\ Len(s) = 11
    BY <2>1
  <2>3. \A k \in DOMAIN s : s[k] \notin {"none", "blocked"}
    BY <2>1, <2>2
  <2>4. \A k, n \in DOMAIN s : s[k] = s[n] => k = n
    BY <2>1, <2>2
  <2> QED BY <2>2, <2>3, <2>4
<1> QED BY <1>1, <1>2, <1>3, <1>4, <1>5

LEMMA StrategiesShape ==
  /\ \A p : \A i, k \in DOMAIN Strategies(p) : Strategies(p)[i] = Strategies(p)[k] => i = k
  /\ \A p \in Paths : \A i \in DOMAIN Strategies(p) : Strategies(p)[i] \in AllTechniques
  /\ "none" \notin AllTechniques /\ "blocked" \notin AllTechniques
  /\ \A p : Len(Strategies(p)) \in Nat /\ DOMAIN Strategies(p) = 1..Len(Strategies(p))
<1>1. \A p : /\ Len(Strategies(p)) \in Nat /\ DOMAIN Strategies(p) = 1..Len(Strategies(p))
             /\ \A i, k \in DOMAIN Strategies(p) : Strategies(p)[i] = Strategies(p)[k] => i = k
             /\ \A i \in DOMAIN Strategies(p) : Strategies(p)[i] \notin {"none", "blocked"}
  BY ListShape DEF Strategies
<1>2. \A p \in Paths : \A i \in DOMAIN Strategies(p) : Strategies(p)[i] \in AllTechniques
  BY DEF AllTechniques, Range
<1>3. \A t \in AllTechniques : t \notin {"none", "blocked"}
  BY <1>1 DEF AllTechniques, Range
<1> QED BY <1>1, <1>2, <1>3

LEMMA FiniteParts ==
  /\ \A S \in SUBSET Jobs : IsFiniteSet(S) /\ Cardinality(S) \in Nat
                             /\ Cardinality(S) <= Cardinality(Jobs)
  /\ \A S \in SUBSET Workers : IsFiniteSet(S) /\ Cardinality(S) \in Nat
  /\ Cardinality(Jobs) \in Nat
  BY EvasionAssumption, FS_Subset, FS_CardinalityType

(* Counting when one element comes or goes.                                  *)
LEMMA OneMore == ASSUME NEW S, NEW T, NEW x, IsFiniteSet(S), x \notin S, T = S \union {x}
                 PROVE  Cardinality(T) = Cardinality(S) + 1
  BY FS_AddElement
LEMMA OneLess == ASSUME NEW S, NEW T, NEW x, IsFiniteSet(S), x \in S, T = S \ {x}
                 PROVE  Cardinality(T) = Cardinality(S) - 1 /\ Cardinality(T) \in Nat
  BY FS_RemoveElement, FS_CardinalityType

LEMMA EvasionInvInit == EvasionInit => EvasionInv
<1> SUFFICES ASSUME EvasionInit PROVE EvasionInv
  OBVIOUS
<1> USE DEF EvasionInit
<1>1. Working = {} /\ Held = {} /\ KeptBlocked = {} /\ KeptGranted = {} /\ Running = {}
  BY StrategiesShape DEF Working, Held, KeptBlocked, KeptGranted, Running
<1>2. EvTypes
  BY EvasionAssumption, StrategiesShape DEF EvTypes, Stages
<1>3. EvWorkers /\ EvMarks
  BY <1>1 DEF EvWorkers, EvMarks
<1>4. EvCounts
  BY <1>1, FS_EmptySet, EvasionAssumption DEF EvCounts
<1>5. EvScore
  <2> SUFFICES ASSUME NEW t \in AllTechniques
               PROVE  /\ inlineHits[t] = Cardinality(EndedWith(t)) + Cardinality(GrantedWith(t))
                                         + (IF t \in probe.said THEN 1 ELSE 0)
                      /\ inlineHits[t] <= attempts[t]
                      /\ t \in probe.said => \E i \in 1..probe.at : Strategies(ProbePath)[i] = t
    BY DEF EvScore
  <2>1. EndedWith(t) = {} /\ GrantedWith(t) = {}
    BY StrategiesShape DEF EndedWith, GrantedWith
  <2> QED BY <2>1, FS_EmptySet
<1>6. EvTasks
  BY DEF EvTasks
<1> QED BY <1>2, <1>3, <1>4, <1>5, <1>6 DEF EvasionInv

(* What a worker that goes on has in hand.                                   *)
LEMMA InHandOf ==
  ASSUME EvTypes, EvWorkers, NEW w \in Working
  PROVE  /\ evJob[w] \in Jobs /\ Inline(w) \in Paths /\ evJob[w] \notin todo
         /\ ended[evJob[w]] = "none" /\ w \in Workers
         /\ evStage[w] \in Choosing => Technique(w) \in AllTechniques
<1>1. evJob[w] \in Jobs /\ evJob[w] \notin todo /\ ended[evJob[w]] = "none" /\ w \in Workers
  BY DEF EvWorkers, Held, Working
<1>2. Inline(w) \in Paths
  BY <1>1 DEF Inline, Paths
<1> QED BY <1>1, <1>2, StrategiesShape DEF EvWorkers, Technique, Inline

(* A step that leaves jobs, ends and tasks alone leaves the counts alone.     *)
LEMMA CountsRest ==
  ASSUME EvCounts, Working' = Working,
         UNCHANGED <<count403, count200, todo, ended, tasks, active>>
  PROVE  EvCounts'
<1>1. Held' = Held /\ KeptBlocked' = KeptBlocked /\ KeptGranted' = KeptGranted
      /\ Running' = Running
  BY DEF Held, KeptBlocked, KeptGranted, Running
<1> QED BY <1>1 DEF EvCounts

LEMMA TasksRest ==
  ASSUME EvTasks, UNCHANGED <<todo, ended, tasks, taskHits>>
  PROVE  EvTasks'
  BY DEF EvTasks, Refused

LEMMA ScoreRest ==
  ASSUME EvScore, UNCHANGED <<inlineHits, attempts, ended, probe>>,
         \A t \in AllTechniques : GrantedWith(t)' = GrantedWith(t)
  PROVE  EvScore'
<1>1. \A t \in AllTechniques : EndedWith(t)' = EndedWith(t)
  BY DEF EndedWith
<1> QED BY <1>1 DEF EvScore

LEMMA ChooseStep == ASSUME EvasionInv, NEW w \in Workers, Choose(w) PROVE EvasionInv'
<1> USE DEF EvasionInv
<1>0. /\ evStage[w] = "choose" /\ w \in Working
      /\ UNCHANGED <<attempted, attempts, inlineHits, count403, count200, todo, evJob, tried,
                     loaded, ended, tasks, taskHits, active, overlapped, tries, probe>>
      /\ \/ evStage' = [evStage EXCEPT ![w] = "blocked"] /\ next' = next
         \/ next' = [next EXCEPT ![w] = @ + 1] /\ evStage' = evStage
         \/ /\ evStage' = [evStage EXCEPT ![w] = "mark"] /\ next' = next
            /\ next[w] <= Len(Strategies(Inline(w))) /\ tried[w] < EvasionLimit
            /\ Technique(w) \notin Range(attempted[Inline(w)])
  BY DEF Choose, Goto, Working, Inline, WasTried, evasionTechniqueSeen
<1>1. EvTypes'
  <2>1. evStage' \in [Workers -> Stages]
    BY <1>0 DEF EvTypes, Stages
  <2>2. next[w] + 1 \in Nat \ {0} /\ next \in [Workers -> Nat \ {0}]
    BY DEF EvTypes
  <2>3. next' \in [Workers -> Nat \ {0}]
    BY <1>0, <2>2
  <2> QED BY <1>0, <2>1, <2>3 DEF EvTypes
<1>2. Working' = Working
  BY <1>0 DEF Working, EvTypes
<1>3. \A v : Inline(v)' = Inline(v)
  BY <1>0 DEF Inline
<1>4. \A v \in Workers : v # w => evStage'[v] = evStage[v] /\ next'[v] = next[v] /\ Technique(v)' = Technique(v)
  BY <1>0 DEF EvTypes, Technique
<1>5. /\ evStage'[w] \in Choosing =>
            /\ evStage'[w] = "mark" /\ next'[w] \in DOMAIN Strategies(Inline(w))
            /\ tried[w] < EvasionLimit /\ Technique(w)' = Technique(w)
            /\ Technique(w) \notin Range(attempted[Inline(w)])
      /\ evStage'[w] # "granted" /\ evStage[w] # "granted"
  BY <1>0, StrategiesShape DEF EvTypes, Technique, Choosing, Inline
<1>6. Working \subseteq Workers
  BY DEF Working
<1>7. EvWorkers'
  <2>1. Held' = Held
    BY <1>0 DEF Held
  <2> QED BY <1>0, <1>2, <1>3, <1>4, <1>5, <1>6, <2>1 DEF EvWorkers, Choosing
<1>8. EvMarks'
  <2> SUFFICES ASSUME NEW p \in Paths \ overlapped
               PROVE  /\ \A t \in AllTechniques :
                            tries[<<p, t>>] <= 1 /\ (tries[<<p, t>>] = 1 => t \in Range(attempted[p]))
                      /\ \A v \in Working : Inline(v) = p =>
                            /\ evStage'[v] \in {"mark", "store"} => Technique(v)' \notin Range(attempted[p])
                            /\ evStage'[v] = "store" => loaded[v] = attempted[p]
                            /\ evStage'[v] = "send" => Technique(v)' \in Range(attempted[p])
                                        /\ tries[<<p, Technique(v)'>>] = 0
                            /\ \A u \in Working : u # v => Inline(u) # p
    BY <1>0, <1>2, <1>3 DEF EvMarks
  <2>1. ASSUME NEW v \in Working, Inline(v) = p, v # w
        PROVE  /\ evStage'[v] \in {"mark", "store"} => Technique(v)' \notin Range(attempted[p])
               /\ evStage'[v] = "store" => loaded[v] = attempted[p]
               /\ evStage'[v] = "send" => Technique(v)' \in Range(attempted[p])
                                        /\ tries[<<p, Technique(v)'>>] = 0
    <3>1. evStage'[v] = evStage[v] /\ Technique(v)' = Technique(v)
      BY <1>4, <1>6, <2>1
    <3> QED BY <2>1, <3>1 DEF EvMarks
  <2>2. /\ evStage'[w] \in {"mark", "store"} => Technique(w)' \notin Range(attempted[Inline(w)])
        /\ evStage'[w] \notin {"store", "send"}
    BY <1>5 DEF Choosing
  <2> QED BY <2>1, <2>2 DEF EvMarks
<1>9. EvCounts'
  BY <1>0, <1>2, CountsRest
<1>10. EvTasks'
  BY <1>0, TasksRest
<1>11. EvScore'
  <2>1. \A t \in AllTechniques : GrantedWith(t)' = GrantedWith(t)
    BY <1>4, <1>5 DEF GrantedWith
  <2> QED BY <1>0, <2>1, ScoreRest
<1> QED BY <1>1, <1>7, <1>8, <1>9, <1>10, <1>11

LEMMA LoadStep == ASSUME EvasionInv, NEW w \in Workers, markLoad(w) PROVE EvasionInv'
<1> USE DEF EvasionInv
<1>0. /\ evStage[w] = "mark" /\ w \in Working
      /\ UNCHANGED <<attempted, attempts, inlineHits, count403, count200, todo, evJob, next,
                     tried, ended, tasks, taskHits, active, overlapped, tries, probe>>
      /\ evStage' = [evStage EXCEPT ![w] = "store"]
      /\ loaded' = [loaded EXCEPT ![w] = attempted[Inline(w)]]
  BY DEF markLoad, Goto, Working, Inline
<1>a. Inline(w) \in Paths
  BY <1>0, InHandOf
<1>1. EvTypes'
  BY <1>0, <1>a DEF EvTypes, Stages
<1>2. Working' = Working
  BY <1>0 DEF Working, EvTypes
<1>3. \A v : Inline(v)' = Inline(v) /\ Technique(v)' = Technique(v)
  BY <1>0 DEF Inline, Technique
<1>4. \A v \in Workers : v # w => evStage'[v] = evStage[v] /\ loaded'[v] = loaded[v]
  BY <1>0 DEF EvTypes
<1>5. evStage'[w] = "store" /\ loaded'[w] = attempted[Inline(w)]
  BY <1>0 DEF EvTypes
<1>6. Working \subseteq Workers
  BY DEF Working
<1>7. EvWorkers'
  <2>1. Held' = Held
    BY <1>0 DEF Held
  <2> QED BY <1>0, <1>2, <1>3, <1>4, <1>5, <1>6, <2>1 DEF EvWorkers, Choosing
<1>8. EvMarks'
  BY <1>0, <1>2, <1>3, <1>4, <1>5, <1>6 DEF EvMarks
<1>9. EvCounts'
  BY <1>0, <1>2, CountsRest
<1>10. EvTasks'
  BY <1>0, TasksRest
<1>11. EvScore'
  <2>1. \A t \in AllTechniques : GrantedWith(t)' = GrantedWith(t)
    BY <1>0, <1>3, <1>4, <1>5 DEF GrantedWith
  <2> QED BY <1>0, <2>1, ScoreRest
<1> QED BY <1>1, <1>7, <1>8, <1>9, <1>10, <1>11

LEMMA Appended ==
  ASSUME NEW S, NEW s \in Seq(S), NEW x \in S
  PROVE  Append(s, x) \in Seq(S) /\ Range(Append(s, x)) = Range(s) \union {x}
<1>1. /\ Append(s, x) \in Seq(S) /\ Len(Append(s, x)) = Len(s) + 1 /\ Len(s) \in Nat
      /\ \A i \in 1..Len(s) : Append(s, x)[i] = s[i]
      /\ Append(s, x)[Len(s) + 1] = x
  OBVIOUS
<1>2. DOMAIN Append(s, x) = 1..(Len(s) + 1) /\ DOMAIN s = 1..Len(s)
  BY <1>1
<1>3. \A i \in 1..(Len(s) + 1) : i \in 1..Len(s) \/ i = Len(s) + 1
  BY <1>1
<1> QED BY <1>1, <1>2, <1>3 DEF Range

LEMMA StoreStep == ASSUME EvasionInv, NEW w \in Workers, markStore(w) PROVE EvasionInv'
<1> USE DEF EvasionInv
<1>0. /\ evStage[w] = "store" /\ w \in Working
      /\ UNCHANGED <<attempts, inlineHits, count403, count200, todo, evJob, next, loaded, ended,
                     tasks, taskHits, active, overlapped, tries, probe>>
      /\ evStage' = [evStage EXCEPT ![w] = "send"]
      /\ attempted' = IF Technique(w) \in Range(attempted[Inline(w)]) THEN attempted
                      ELSE [attempted EXCEPT ![Inline(w)] = Append(loaded[w], Technique(w))]
      /\ tried' = [tried EXCEPT ![w] = @ + 1]
  BY DEF markStore, Goto, Working, Inline, evasionTechniqueSeen
<1>a. Inline(w) \in Paths /\ Technique(w) \in AllTechniques /\ tried[w] < EvasionLimit
  BY <1>0, InHandOf DEF Choosing, EvWorkers
<1>b. /\ loaded[w] \in Seq(AllTechniques)
      /\ Append(loaded[w], Technique(w)) \in Seq(AllTechniques)
      /\ Range(Append(loaded[w], Technique(w))) = Range(loaded[w]) \union {Technique(w)}
  BY <1>a, Appended DEF EvTypes
<1>1. EvTypes'
  <2>1. attempted' \in [Paths -> Seq(AllTechniques)]
    BY <1>0, <1>b DEF EvTypes
  <2>2. tried' \in [Workers -> 0..EvasionLimit]
    BY <1>0, <1>a, EvasionAssumption, SMTT(30) DEF EvTypes
  <2> QED BY <1>0, <2>1, <2>2 DEF EvTypes, Stages
<1>2. Working' = Working
  BY <1>0 DEF Working, EvTypes
<1>3. \A v : Inline(v)' = Inline(v) /\ Technique(v)' = Technique(v)
  BY <1>0 DEF Inline, Technique
<1>4. \A v \in Workers : v # w => evStage'[v] = evStage[v] /\ tried'[v] = tried[v]
  BY <1>0 DEF EvTypes
<1>5. evStage'[w] = "send"
  BY <1>0 DEF EvTypes
<1>6. Working \subseteq Workers
  BY DEF Working
<1>7. EvWorkers'
  <2>1. Held' = Held
    BY <1>0 DEF Held
  <2> QED BY <1>0, <1>2, <1>3, <1>4, <1>5, <1>6, <2>1 DEF EvWorkers, Choosing
<1>8. EvMarks'
  <2> SUFFICES ASSUME NEW p \in Paths \ overlapped
               PROVE  /\ \A t \in AllTechniques :
                            tries[<<p, t>>] <= 1 /\ (tries[<<p, t>>] = 1 => t \in Range(attempted'[p]))
                      /\ \A v \in Working : Inline(v) = p =>
                            /\ evStage'[v] \in {"mark", "store"} => Technique(v) \notin Range(attempted'[p])
                            /\ evStage'[v] = "store" => loaded[v] = attempted'[p]
                            /\ evStage'[v] = "send" => Technique(v) \in Range(attempted'[p])
                                        /\ tries[<<p, Technique(v)>>] = 0
                            /\ \A u \in Working : u # v => Inline(u) # p
    BY <1>0, <1>2, <1>3 DEF EvMarks
  <2>1. CASE p # Inline(w)
    <3>1. attempted'[p] = attempted[p]
      BY <1>0, <2>1 DEF EvTypes
    <3>2. \A v \in Working : Inline(v) = p => evStage'[v] = evStage[v]
      BY <1>4, <1>6, <2>1
    <3> QED BY <3>1, <3>2 DEF EvMarks
  <2>2. CASE p = Inline(w)
    <3>1. /\ Technique(w) \notin Range(attempted[p]) /\ loaded[w] = attempted[p]
          /\ \A u \in Working : u # w => Inline(u) # p
          /\ tries[<<p, Technique(w)>>] <= 1
          /\ \A t \in AllTechniques :
                tries[<<p, t>>] <= 1 /\ (tries[<<p, t>>] = 1 => t \in Range(attempted[p]))
      BY <1>0, <1>a, <2>2 DEF EvMarks
    <3>2. tries[<<p, Technique(w)>>] \in Nat
      BY <1>a DEF EvTypes
    <3>3. attempted'[p] = Append(loaded[w], Technique(w))
      BY <1>0, <1>a, <2>2, <3>1 DEF EvTypes
    <3>4. Range(attempted'[p]) = Range(attempted[p]) \union {Technique(w)}
      BY <1>b, <3>1, <3>3
    <3>5. \A v \in Working : Inline(v) = p => v = w
      BY <3>1
    <3>6. tries[<<p, Technique(w)>>] = 0
      BY <1>a, <3>1, <3>2
    <3> QED BY <1>5, <3>1, <3>4, <3>5, <3>6
  <2> QED BY <2>1, <2>2
<1>9. EvCounts'
  BY <1>0, <1>2, CountsRest
<1>10. EvTasks'
  BY <1>0, TasksRest
<1>11. EvScore'
  <2>1. \A t \in AllTechniques : GrantedWith(t)' = GrantedWith(t)
    BY <1>0, <1>3, <1>4, <1>5 DEF GrantedWith
  <2> QED BY <1>0, <2>1, ScoreRest
<1> QED BY <1>1, <1>7, <1>8, <1>9, <1>10, <1>11

(* A blocked answer is taken by a worker that was idle.                      *)
LEMMA BlockedStep == ASSUME EvasionInv, NEW w \in Workers, Blocked(w) PROVE EvasionInv'
<1> USE DEF EvasionInv
<1> PICK j \in todo :
      /\ todo' = todo \ {j} /\ evJob' = [evJob EXCEPT ![w] = j]
      /\ schedule403BypassTask(j)
      /\ overlapped' = IF \E v \in Busy : PathOf[evJob[v]] = PathOf[j]
                       THEN overlapped \cup {PathOf[j]} ELSE overlapped
  BY DEF Blocked
<1>0. /\ evStage[w] = "idle" /\ w \notin Working
      /\ UNCHANGED <<attempted, attempts, inlineHits, count200, loaded, ended, taskHits, tries, probe>>
      /\ count403' = count403 + 1
      /\ next' = [next EXCEPT ![w] = 1] /\ tried' = [tried EXCEPT ![w] = 0]
      /\ evStage' = [evStage EXCEPT ![w] = "choose"]
      /\ overlapped' = IF \E v \in Working : Inline(v) = PathOf[j]
                       THEN overlapped \cup {PathOf[j]} ELSE overlapped
  BY DEF Blocked, Goto, Working, Busy, Inline
<1>1. /\ j \in Jobs /\ PathOf[j] \in Paths /\ ended[j] = "none" /\ tasks[j] = 0
      /\ taskHits[j] = {} /\ j \notin Held /\ j \notin Running
  BY EvasionAssumption DEF EvTypes, EvTasks, Paths, Held, Running
<1>2. /\ Working' = Working \union {w} /\ Held' = Held \union {j}
      /\ KeptBlocked' = KeptBlocked /\ KeptGranted' = KeptGranted
  <2>1. Working' = Working \union {w}
    BY <1>0 DEF Working, EvTypes
  <2>2. Held' = Held \union {j}
    BY <1>0, <1>1 DEF Held
  <2> QED BY <1>0, <2>1, <2>2 DEF KeptBlocked, KeptGranted
<1>3. /\ \A v \in Working : v # w /\ evStage'[v] = evStage[v] /\ next'[v] = next[v]
                            /\ tried'[v] = tried[v] /\ evJob'[v] = evJob[v]
                            /\ Inline(v)' = Inline(v) /\ Technique(v)' = Technique(v)
      /\ evStage'[w] = "choose" /\ evJob'[w] = j /\ Inline(w)' = PathOf[j]
  <2>1. \A v \in Workers : v # w => evStage'[v] = evStage[v] /\ next'[v] = next[v]
                            /\ tried'[v] = tried[v] /\ evJob'[v] = evJob[v]
    BY <1>0 DEF EvTypes
  <2>2. evStage'[w] = "choose" /\ evJob'[w] = j
    BY <1>0 DEF EvTypes
  <2> QED BY <1>0, <2>1, <2>2 DEF Working, Inline, Technique
<1>4. /\ \/ /\ tasks' = [tasks EXCEPT ![j] = 1] /\ active' = active + 2
            /\ Cardinality(Running) < BypassSlots /\ Running' = Running \union {j}
         \/ tasks' = tasks /\ active' = active + 1 /\ Running' = Running
      /\ \A i \in Jobs : i # j => tasks'[i] = tasks[i]
      /\ tasks'[j] \in {0, 1} /\ tasks' \in [Jobs -> 0..Len(TaskTechniques)]
  <2>1. Len(TaskTechniques) \in Nat /\ Len(TaskTechniques) >= 1
    BY EvasionAssumption
  <2>2. CASE Cardinality(Running) < BypassSlots
    <3>1. tasks' = [tasks EXCEPT ![j] = 1] /\ active' = active + 2
      BY <2>2 DEF schedule403BypassTask
    <3>2. /\ tasks'[j] = 1 /\ tasks' \in [Jobs -> 0..Len(TaskTechniques)]
          /\ \A i \in Jobs : i # j => tasks'[i] = tasks[i]
      BY <1>1, <2>1, <3>1 DEF EvTypes
    <3>3. Running' = Running \union {j}
      BY <1>1, <3>2 DEF Running
    <3> QED BY <2>2, <3>1, <3>2, <3>3
  <2>3. CASE ~(Cardinality(Running) < BypassSlots)
    <3>1. tasks' = tasks /\ active' = active + 1
      BY <2>3 DEF schedule403BypassTask
    <3> QED BY <1>1, <3>1 DEF EvTypes, Running
  <2> QED BY <2>2, <2>3
<1>5. EvTypes'
  <2>1. count403' \in Nat /\ active' \in Nat /\ todo' \subseteq Jobs
    <3>1. count403 \in Nat /\ active \in Nat /\ todo \subseteq Jobs
      BY <1>0 DEF EvTypes
    <3>2. count403' = count403 + 1 /\ todo' = todo \ {j}
      BY <1>0
    <3>3. active' = active + 2 \/ active' = active + 1
      BY <1>4
    <3> QED BY <3>1, <3>2, <3>3
  <2>2. evStage' \in [Workers -> Stages] /\ DOMAIN evJob' = Workers
    BY <1>0 DEF EvTypes, Stages
  <2>3. next' \in [Workers -> Nat \ {0}] /\ tried' \in [Workers -> 0..EvasionLimit]
    BY <1>0, EvasionAssumption DEF EvTypes
  <2>4. overlapped' \subseteq Paths
    BY <1>0, <1>1 DEF EvTypes
  <2> QED BY <1>0, <1>4, <2>1, <2>2, <2>3, <2>4 DEF EvTypes
<1>6. EvWorkers'
  <2>1. \A v \in Working : evJob[v] # j
    BY <1>1 DEF EvWorkers
  <2> QED BY <1>2, <1>3, <2>1 DEF EvWorkers, Choosing
<1>7. EvMarks'
  <2> SUFFICES ASSUME NEW p \in Paths \ overlapped'
               PROVE  /\ \A t \in AllTechniques :
                            tries[<<p, t>>] <= 1 /\ (tries[<<p, t>>] = 1 => t \in Range(attempted[p]))
                      /\ \A v \in Working' : Inline(v)' = p =>
                            /\ evStage'[v] \in {"mark", "store"} => Technique(v)' \notin Range(attempted[p])
                            /\ evStage'[v] = "store" => loaded[v] = attempted[p]
                            /\ evStage'[v] = "send" => Technique(v)' \in Range(attempted[p])
                                        /\ tries[<<p, Technique(v)'>>] = 0
                            /\ \A u \in Working' : u # v => Inline(u)' # p
    BY <1>0 DEF EvMarks
  <2>1. p \in Paths \ overlapped
    BY <1>0
  <2>2. p = PathOf[j] => \A v \in Working : Inline(v) # p
    BY <1>0
  <2>3. \A v \in Working : Inline(v)' = p =>
            /\ evStage'[v] \in {"mark", "store"} => Technique(v)' \notin Range(attempted[p])
            /\ evStage'[v] = "store" => loaded[v] = attempted[p]
            /\ evStage'[v] = "send" => Technique(v)' \in Range(attempted[p])
                                        /\ tries[<<p, Technique(v)'>>] = 0
    BY <1>3, <2>1 DEF EvMarks
  <2>4. \A v \in Working : \A u \in Working : u # v /\ Inline(v) = p => Inline(u) # p
    BY <2>1 DEF EvMarks
  <2>5. \A v, u \in Working' : u # v /\ Inline(v)' = p => Inline(u)' # p
    BY <1>2, <1>3, <2>2, <2>4
  <2>6. \A t \in AllTechniques :
            tries[<<p, t>>] <= 1 /\ (tries[<<p, t>>] = 1 => t \in Range(attempted[p]))
    BY <2>1 DEF EvMarks
  <2> QED BY <1>2, <1>3, <2>3, <2>5, <2>6
<1>8. EvCounts'
  <2>1. /\ Cardinality(Working') = Cardinality(Working) + 1
        /\ Cardinality(Held') = Cardinality(Held) + 1
    <3>1. IsFiniteSet(Working) /\ IsFiniteSet(Held)
      BY FiniteParts DEF Working, Held
    <3> QED BY <1>0, <1>1, <1>2, <3>1, OneMore
  <2>2. \/ Cardinality(Running') = Cardinality(Running) + 1 /\ active' = active + 2
           /\ Cardinality(Running) < BypassSlots
        \/ Cardinality(Running') = Cardinality(Running) /\ active' = active + 1
    <3>1. IsFiniteSet(Running)
      BY FiniteParts DEF Running
    <3> QED BY <1>1, <1>4, <3>1, OneMore
  <2>3. Cardinality(Working) \in Nat /\ Cardinality(Running) \in Nat /\ BypassSlots \in Nat
        /\ Cardinality(KeptBlocked) \in Nat /\ Cardinality(Held) \in Nat
    BY FiniteParts, EvasionAssumption DEF Working, Running, KeptBlocked, Held
  <2>4. count403' = count403 + 1 /\ count200' = count200
        /\ KeptBlocked' = KeptBlocked /\ KeptGranted' = KeptGranted
    BY <1>0, <1>2
  <2> QED BY <2>1, <2>2, <2>3, <2>4 DEF EvCounts
<1>9. EvScore'
  <2>1. \A t \in AllTechniques : GrantedWith(t)' = GrantedWith(t)
    BY <1>0, <1>2, <1>3 DEF GrantedWith, Working
  <2> QED BY <1>0, <2>1, ScoreRest
<1>10. EvTasks'
  <2>1. \A i \in Jobs : i # j => (i \in todo' <=> i \in todo)
    OBVIOUS
  <2>2. tasks'[j] > 0 => Refused(j, tasks'[j])
    BY <1>4 DEF Refused
  <2> HIDE DEF Refused
  <2>3. \A i \in Jobs : /\ i \in todo' => tasks'[i] = 0 /\ taskHits[i] = {} /\ ended[i] = "none"
                        /\ tasks'[i] > 0 => taskHits[i] = {} /\ Refused(i, tasks'[i])
    BY <1>1, <1>4, <2>1, <2>2 DEF EvTasks
  <2> QED BY <1>0, <2>3 DEF EvTasks, Refused
<1> QED BY <1>5, <1>6, <1>7, <1>8, <1>9, <1>10

(* A request with a technique: the first on its path that had one worker.     *)
LEMMA AttemptStep == ASSUME EvasionInv, NEW w \in Workers, Attempt(w) PROVE EvasionInv'
<1> USE DEF EvasionInv
<1> DEFINE t == Technique(w)
           p == Inline(w)
           ok == isMeaningfulBypassResponse(Reply(p, t))
<1>0. /\ evStage[w] = "send" /\ w \in Working
      /\ UNCHANGED <<attempted, count403, count200, todo, evJob, tried, loaded, ended, tasks,
                     taskHits, active, overlapped, probe>>
      /\ attempts' = [attempts EXCEPT ![t] = @ + 1]
      /\ inlineHits' = IF ok THEN [inlineHits EXCEPT ![t] = @ + 1] ELSE inlineHits
      /\ tries' = [tries EXCEPT ![<<p, t>>] = @ + 1]
      /\ \/ ok /\ evStage' = [evStage EXCEPT ![w] = "granted"] /\ next' = next
         \/ ~ok /\ evStage' = [evStage EXCEPT ![w] = "choose"] /\ next' = [next EXCEPT ![w] = @ + 1]
  BY DEF Attempt, Record, Goto, Working, Inline
<1>1. p \in Paths /\ t \in AllTechniques /\ w \in Workers
  BY <1>0, InHandOf DEF Choosing
<1> HIDE DEF ok, t, p
<1>2. EvTypes'
  <2>1. attempts' \in [AllTechniques -> Nat] /\ inlineHits' \in [AllTechniques -> Nat]
    BY <1>0, <1>1, SMTT(30) DEF EvTypes
  <2>2. tries' \in [Paths \X AllTechniques -> Nat]
    BY <1>0, <1>1 DEF EvTypes
  <2>3. evStage' \in [Workers -> Stages]
    BY <1>0 DEF EvTypes, Stages
  <2>4. next[w] + 1 \in Nat \ {0} /\ next \in [Workers -> Nat \ {0}]
    BY DEF EvTypes
  <2>5. next' \in [Workers -> Nat \ {0}]
    BY <1>0, <2>4
  <2> QED BY <1>0, <2>1, <2>2, <2>3, <2>5 DEF EvTypes
<1>3. Working' = Working /\ Working \subseteq Workers
  BY <1>0 DEF Working, EvTypes
<1>4. \A v : Inline(v)' = Inline(v)
  BY <1>0 DEF Inline
<1>5. \A v \in Workers : v # w => evStage'[v] = evStage[v] /\ next'[v] = next[v]
                                  /\ Technique(v)' = Technique(v)
  BY <1>0 DEF EvTypes, Technique
<1>6. \/ ok /\ evStage'[w] = "granted" /\ next'[w] = next[w] /\ Technique(w)' = t
      \/ ~ok /\ evStage'[w] = "choose"
  BY <1>0 DEF EvTypes, Technique, t
<1>7. EvWorkers'
  <2>1. Held' = Held
    BY <1>0 DEF Held
  <2> QED BY <1>0, <1>3, <1>4, <1>5, <1>6, <2>1 DEF EvWorkers, Choosing
<1>8. EvMarks'
  <2> SUFFICES ASSUME NEW q \in Paths \ overlapped
               PROVE  /\ \A x \in AllTechniques :
                            tries'[<<q, x>>] <= 1 /\ (tries'[<<q, x>>] = 1 => x \in Range(attempted[q]))
                      /\ \A v \in Working : Inline(v) = q =>
                            /\ evStage'[v] \in {"mark", "store"} => Technique(v)' \notin Range(attempted[q])
                            /\ evStage'[v] = "store" => loaded[v] = attempted[q]
                            /\ evStage'[v] = "send" => Technique(v)' \in Range(attempted[q])
                                        /\ tries'[<<q, Technique(v)'>>] = 0
                            /\ \A u \in Working : u # v => Inline(u) # q
    BY <1>0, <1>3, <1>4 DEF EvMarks
  <2>1. CASE q # p
    <3>1. \A x \in AllTechniques : tries'[<<q, x>>] = tries[<<q, x>>]
      BY <1>0, <2>1 DEF EvTypes
    <3>2. \A v \in Working : Inline(v) = q =>
            v # w /\ evStage'[v] = evStage[v] /\ Technique(v)' = Technique(v)
      BY <1>3, <1>5, <2>1 DEF p
    <3>3. \A v \in Working : evStage[v] = "send" => Technique(v) \in AllTechniques
      BY InHandOf DEF Choosing
    <3> QED BY <3>1, <3>2, <3>3 DEF EvMarks
  <2>2. CASE q = p
    <3>1. /\ t \in Range(attempted[p]) /\ tries[<<p, t>>] = 0
          /\ \A u \in Working : u # w => Inline(u) # p
      BY <1>0, <2>2 DEF EvMarks, t, p
    <3>2. \A x \in AllTechniques : tries'[<<p, x>>] = IF x = t THEN 1 ELSE tries[<<p, x>>]
      BY <1>0, <1>1, <3>1, SMTT(30) DEF EvTypes
    <3>3. \A x \in AllTechniques :
            tries'[<<p, x>>] <= 1 /\ (tries'[<<p, x>>] = 1 => x \in Range(attempted[p]))
      BY <2>2, <3>1, <3>2 DEF EvMarks
    <3> QED BY <1>6, <2>2, <3>1, <3>3
  <2> QED BY <2>1, <2>2
<1>9. EvCounts'
  BY <1>0, <1>3, CountsRest
<1>10. EvTasks'
  BY <1>0, TasksRest
<1>11. EvScore'
  <2> SUFFICES ASSUME NEW x \in AllTechniques
               PROVE  /\ inlineHits'[x] = Cardinality(EndedWith(x)) + Cardinality(GrantedWith(x)')
                                         + (IF x \in probe.said THEN 1 ELSE 0)
                      /\ inlineHits'[x] <= attempts'[x]
                      /\ x \in probe.said => \E i \in 1..probe.at : Strategies(ProbePath)[i] = x
    BY <1>0, SMTT(30) DEF EvScore, EndedWith
  <2>1. /\ inlineHits[x] = Cardinality(EndedWith(x)) + Cardinality(GrantedWith(x))
                           + (IF x \in probe.said THEN 1 ELSE 0)
        /\ inlineHits[x] <= attempts[x] /\ inlineHits[x] \in Nat /\ attempts[x] \in Nat
        /\ x \in probe.said => \E i \in 1..probe.at : Strategies(ProbePath)[i] = x
    BY DEF EvScore, EvTypes
  <2>2. w \notin GrantedWith(x) /\ IsFiniteSet(GrantedWith(x))
    BY <1>0, FiniteParts DEF GrantedWith
  <2>3. Cardinality(GrantedWith(x)) \in Nat /\ Cardinality(EndedWith(x)) \in Nat
    BY FiniteParts DEF GrantedWith, EndedWith
  <2>4. CASE ok /\ x = t
    <3>1. GrantedWith(x)' = GrantedWith(x) \union {w}
      BY <1>0, <1>1, <1>5, <1>6, <2>4 DEF GrantedWith
    <3>2. inlineHits'[x] = inlineHits[x] + 1 /\ attempts'[x] = attempts[x] + 1
      BY <1>0, <1>1, <2>4 DEF EvTypes
    <3>3. Cardinality(GrantedWith(x)') = Cardinality(GrantedWith(x)) + 1
      BY <2>2, <3>1, OneMore
    <3> QED BY <2>1, <2>3, <3>2, <3>3
  <2>5. CASE ~(ok /\ x = t)
    <3>1. GrantedWith(x)' = GrantedWith(x)
      BY <1>0, <1>5, <1>6, <2>5 DEF GrantedWith
    <3>2. /\ inlineHits'[x] = inlineHits[x]
          /\ attempts'[x] = attempts[x] \/ attempts'[x] = attempts[x] + 1
      BY <1>0, <1>1, <2>5 DEF EvTypes
    <3>3. inlineHits'[x] <= attempts'[x]
      BY <2>1, <3>2
    <3> QED BY <2>1, <3>1, <3>2, <3>3
  <2> QED BY <2>4, <2>5
<1> QED BY <1>2, <1>7, <1>8, <1>9, <1>10, <1>11

LEMMA FinishStep == ASSUME EvasionInv, NEW w \in Workers, Finish(w) PROVE EvasionInv'
<1> USE DEF EvasionInv
<1> DEFINE j == evJob[w]
           t == Technique(w)
<1>0. /\ w \in Working /\ evStage[w] \in {"granted", "blocked"}
      /\ UNCHANGED <<attempted, attempts, inlineHits, todo, evJob, next, tried, loaded, tasks,
                     taskHits, overlapped, tries, probe>>
      /\ evStage' = [evStage EXCEPT ![w] = "idle"] /\ active' = active - 1
      /\ \/ /\ evStage[w] = "granted" /\ count403' = count403 - 1 /\ count200' = count200 + 1
            /\ ended' = [ended EXCEPT ![j] = t]
         \/ /\ evStage[w] = "blocked" /\ count403' = count403 /\ count200' = count200
            /\ ended' = [ended EXCEPT ![j] = "blocked"]
  BY DEF Finish, Goto, Working, Recount
<1>1. /\ j \in Jobs /\ j \notin todo /\ ended[j] = "none"
      /\ evStage[w] = "granted" => t \in AllTechniques
  BY <1>0, InHandOf DEF Choosing
<1>2. j \in Held /\ \A v \in Working : v # w => evJob[v] # j
  BY <1>0 DEF EvWorkers
<1> HIDE DEF j, t
<1>3. /\ \A i \in Jobs : i # j => ended'[i] = ended[i]
      /\ ended'[j] = IF evStage[w] = "granted" THEN t ELSE "blocked"
      /\ ended' \in [Jobs -> AllTechniques \cup {"none", "blocked"}]
  BY <1>0, <1>1, ZenonT(30) DEF EvTypes
<1>4. /\ Working' = Working \ {w} /\ Held' = Held \ {j} /\ Running' = Running
      /\ \A v \in Working' : evStage'[v] = evStage[v]
  <2>1. ended'[j] # "none"
    BY <1>1, <1>3, StrategiesShape
  <2>2. Held' = Held \ {j}
    BY <1>0, <1>1, <1>3, <2>1 DEF Held
  <2> QED BY <1>0, <2>2 DEF Working, EvTypes, Running
<1>5. \/ /\ evStage[w] = "granted" /\ KeptGranted' = KeptGranted \union {j} /\ KeptBlocked' = KeptBlocked
      \/ /\ evStage[w] = "blocked" /\ KeptBlocked' = KeptBlocked \union {j} /\ KeptGranted' = KeptGranted
  BY <1>0, <1>1, <1>3, StrategiesShape DEF KeptGranted, KeptBlocked
<1>6. /\ IsFiniteSet(Working) /\ IsFiniteSet(Held) /\ IsFiniteSet(KeptGranted) /\ IsFiniteSet(KeptBlocked)
      /\ Cardinality(Working) \in Nat /\ Cardinality(Held) \in Nat /\ Cardinality(KeptGranted) \in Nat
      /\ Cardinality(KeptBlocked) \in Nat /\ Cardinality(Running) \in Nat
  BY FiniteParts DEF Working, Held, KeptGranted, KeptBlocked, Running
<1>7. /\ Cardinality(Working') = Cardinality(Working) - 1 /\ Cardinality(Working') \in Nat
      /\ Cardinality(Held') = Cardinality(Held) - 1
  BY <1>0, <1>2, <1>4, <1>6, OneLess
<1>8. \A v : Inline(v)' = Inline(v) /\ Technique(v)' = Technique(v)
  BY <1>0 DEF Inline, Technique
<1>9. EvCounts'
  <2>1. j \notin KeptGranted /\ j \notin KeptBlocked
    BY <1>1, StrategiesShape DEF KeptGranted, KeptBlocked
  <2>2. /\ evStage[w] = "granted" => Cardinality(KeptGranted') = Cardinality(KeptGranted) + 1
                                     /\ KeptBlocked' = KeptBlocked
        /\ evStage[w] = "blocked" => Cardinality(KeptBlocked') = Cardinality(KeptBlocked) + 1
                                     /\ KeptGranted' = KeptGranted
    BY <1>5, <1>6, <2>1, OneMore
  <2>3. Cardinality(Running') = Cardinality(Running)
    BY <1>4
  <2> QED BY <1>0, <1>6, <1>7, <2>2, <2>3 DEF EvCounts
<1>10. EvTypes'
  <2>1. active' \in Nat
    BY <1>0, <1>6, <1>7 DEF EvCounts
  <2>2. count403' \in Nat /\ count200' \in Nat
    <3>1. /\ count403' = Cardinality(Working') + Cardinality(KeptBlocked')
          /\ count200' = Cardinality(KeptGranted')
      BY <1>9 DEF EvCounts
    <3>2. Cardinality(KeptBlocked') \in Nat /\ Cardinality(KeptGranted') \in Nat
      BY FiniteParts DEF KeptBlocked, KeptGranted
    <3> QED BY <1>7, <3>1, <3>2
  <2>3. evStage' \in [Workers -> Stages]
    BY <1>0 DEF EvTypes, Stages
  <2> QED BY <1>0, <1>3, <2>1, <2>2, <2>3 DEF EvTypes
<1>11. EvWorkers'
  BY <1>0, <1>2, <1>4, <1>8 DEF EvWorkers
<1>12. EvMarks'
  BY <1>0, <1>4, <1>8 DEF EvMarks
<1>13. EvScore'
  <2> SUFFICES ASSUME NEW x \in AllTechniques
               PROVE  /\ inlineHits[x] = Cardinality(EndedWith(x)') + Cardinality(GrantedWith(x)')
                                         + (IF x \in probe.said THEN 1 ELSE 0)
                      /\ inlineHits[x] <= attempts[x]
                      /\ x \in probe.said => \E i \in 1..probe.at : Strategies(ProbePath)[i] = x
    BY <1>0 DEF EvScore
  <2>1. /\ inlineHits[x] = Cardinality(EndedWith(x)) + Cardinality(GrantedWith(x))
                           + (IF x \in probe.said THEN 1 ELSE 0)
        /\ inlineHits[x] <= attempts[x] /\ inlineHits[x] \in Nat /\ attempts[x] \in Nat
        /\ x \in probe.said => \E i \in 1..probe.at : Strategies(ProbePath)[i] = x
    BY DEF EvScore, EvTypes
  <2>2. IsFiniteSet(GrantedWith(x)) /\ IsFiniteSet(EndedWith(x)) /\ j \notin EndedWith(x)
    BY <1>1, StrategiesShape, FiniteParts DEF GrantedWith, EndedWith
  <2>3. Cardinality(GrantedWith(x)) \in Nat /\ Cardinality(EndedWith(x)) \in Nat
    BY FiniteParts DEF GrantedWith, EndedWith
  <2>4. CASE evStage[w] = "granted" /\ x = t
    <3>1. GrantedWith(x)' = GrantedWith(x) \ {w} /\ w \in GrantedWith(x)
      BY <1>0, <1>8, <2>4 DEF GrantedWith, t, EvTypes
    <3>2. EndedWith(x)' = EndedWith(x) \union {j}
      BY <1>1, <1>3, <2>4 DEF EndedWith
    <3>3. /\ Cardinality(GrantedWith(x)') = Cardinality(GrantedWith(x)) - 1
          /\ Cardinality(EndedWith(x)') = Cardinality(EndedWith(x)) + 1
      BY <2>2, <3>1, <3>2, OneMore, OneLess
    <3> QED BY <2>1, <2>3, <3>3
  <2>5. CASE ~(evStage[w] = "granted" /\ x = t)
    <3>1. GrantedWith(x)' = GrantedWith(x)
      BY <1>0, <1>8, <2>5 DEF GrantedWith, t, EvTypes
    <3>2. EndedWith(x)' = EndedWith(x)
      BY <1>1, <1>3, <2>5, StrategiesShape DEF EndedWith
    <3> QED BY <2>1, <3>1, <3>2
  <2> QED BY <2>4, <2>5
<1>14. EvTasks'
  BY <1>0, <1>1, <1>3 DEF EvTasks, Refused
<1> QED BY <1>9, <1>10, <1>11, <1>12, <1>13, <1>14

(* A step of a 403 task touches its own job, and the slot it gives back.      *)
LEMMA TaskEnds ==
  ASSUME EvTypes, EvCounts, NEW j \in Jobs, tasks[j] > 0, tasks' = [tasks EXCEPT ![j] = 0],
         active' = active - 1, UNCHANGED <<count403, count200, todo, evStage, ended>>
  PROVE  EvCounts' /\ active' \in Nat
<1>1. Running' = Running \ {j} /\ j \in Running
  BY DEF Running, EvTypes
<1>2. IsFiniteSet(Running) /\ Cardinality(Running) \in Nat /\ Cardinality(Working) \in Nat
  BY FiniteParts DEF Running, Working
<1>3. Cardinality(Running') = Cardinality(Running) - 1 /\ Cardinality(Running') \in Nat
  BY <1>1, <1>2, OneLess
<1>4. Working' = Working /\ Held' = Held /\ KeptBlocked' = KeptBlocked /\ KeptGranted' = KeptGranted
  BY DEF Working, Held, KeptBlocked, KeptGranted
<1>5. active' = Cardinality(Working) + Cardinality(Running')
  BY <1>2, <1>3 DEF EvCounts
<1>6. Cardinality(Running') <= BypassSlots
  BY <1>2, <1>3, EvasionAssumption DEF EvCounts
<1> QED BY <1>2, <1>3, <1>4, <1>5, <1>6 DEF EvCounts

LEMMA TaskEffect ==
  ASSUME EvasionInv, NEW j \in Jobs, tasks[j] > 0,
         NEW to \in 0..Len(TaskTechniques), tasks' = [tasks EXCEPT ![j] = to],
         active' = IF to = 0 THEN active - 1 ELSE active,
         UNCHANGED <<attempted, attempts, inlineHits, count403, count200, todo, evStage, evJob,
                     next, tried, loaded, ended, overlapped, tries, probe>>,
         DOMAIN taskHits' = Jobs, \A i \in Jobs : i # j => taskHits'[i] = taskHits[i],
         to > 0 => taskHits'[j] = {} /\ Refused(j, to),
         \A t \in taskHits'[j] :
              /\ taskHits'[j] = {t}
              /\ \E i \in DOMAIN TaskTechniques : TaskTechniques[i] = t /\ Refused(j, i)
  PROVE  EvasionInv'
<1> USE DEF EvasionInv
<1> HIDE DEF Refused
<1>1. EvCounts' /\ active' \in Nat
  <2>1. CASE to = 0
    BY <2>1, TaskEnds
  <2>2. CASE to # 0
    <3>1. Running' = Running
      BY <2>2 DEF Running, EvTypes
    <3>2. Working' = Working /\ Held' = Held /\ KeptBlocked' = KeptBlocked /\ KeptGranted' = KeptGranted
      BY DEF Working, Held, KeptBlocked, KeptGranted
    <3> QED BY <2>2, <3>1, <3>2 DEF EvCounts, EvTypes
  <2> QED BY <2>1, <2>2
<1>2. EvTypes'
  BY <1>1 DEF EvTypes
<1>3. Working' = Working /\ Held' = Held /\ \A w : Inline(w)' = Inline(w) /\ Technique(w)' = Technique(w)
  BY DEF Working, Held, Inline, Technique
<1>4. EvWorkers' /\ EvMarks'
  BY <1>3 DEF EvWorkers, EvMarks
<1>5. EvScore'
  <2>1. \A t \in AllTechniques : GrantedWith(t)' = GrantedWith(t)
    BY DEF GrantedWith, Technique
  <2> QED BY <2>1, ScoreRest
<1>6. EvTasks'
  <2>1. /\ j \notin todo /\ tasks'[j] = to
        /\ \A i \in Jobs : i # j => tasks'[i] = tasks[i]
    BY DEF EvTasks, EvTypes
  <2>2. \A i : \A n : Refused(i, n)' = Refused(i, n)
    BY DEF Refused
  <2> QED BY <2>1, <2>2 DEF EvTasks
<1> QED BY <1>1, <1>2, <1>4, <1>5, <1>6

LEMMA CancelStep == ASSUME EvasionInv, NEW j \in Jobs, TaskCancelled(j) PROVE EvasionInv'
<1>1. /\ tasks[j] > 0 /\ 0 \in 0..Len(TaskTechniques) /\ taskHits' = taskHits
      /\ DOMAIN taskHits = Jobs
      /\ \A t \in taskHits[j] :
            /\ taskHits[j] = {t}
            /\ \E i \in DOMAIN TaskTechniques : TaskTechniques[i] = t /\ Refused(j, i)
  BY EvasionAssumption DEF TaskCancelled, EvasionInv, EvTasks, EvTypes
<1>2. /\ tasks' = [tasks EXCEPT ![j] = 0] /\ active' = active - 1
      /\ UNCHANGED <<attempted, attempts, inlineHits, count403, count200, todo, evStage, evJob,
                     next, tried, loaded, ended, overlapped, tries, probe>>
  BY DEF TaskCancelled
<1> DEFINE to == 0
<1>3. to \in 0..Len(TaskTechniques) /\ tasks' = [tasks EXCEPT ![j] = to]
  BY <1>1, <1>2
<1>4. /\ active' = IF to = 0 THEN active - 1 ELSE active
      /\ to > 0 => taskHits'[j] = {} /\ Refused(j, to)
  BY <1>2
<1> HIDE DEF to
<1> QED BY <1>1, <1>2, <1>3, <1>4, TaskEffect

LEMMA TaskStepStep == ASSUME EvasionInv, NEW j \in Jobs, TaskStep(j) PROVE EvasionInv'
<1> DEFINE n == tasks[j]
           t == TaskTechniques[n]
           ok == TaskGranted(Reply(PathOf[j], t))
           to == IF ok THEN 0 ELSE IF n < Len(TaskTechniques) THEN n + 1 ELSE 0
<1>1. /\ n > 0 /\ n \in 0..Len(TaskTechniques) /\ n \in DOMAIN TaskTechniques
      /\ to \in 0..Len(TaskTechniques) /\ DOMAIN taskHits = Jobs
      /\ taskHits[j] = {} /\ Refused(j, n)
  BY EvasionAssumption DEF TaskStep, EvasionInv, EvTasks, EvTypes
<1>2. /\ tasks' = [tasks EXCEPT ![j] = to]
      /\ active' = IF to = 0 THEN active - 1 ELSE active
      /\ taskHits' = IF ok THEN [taskHits EXCEPT ![j] = @ \cup {t}] ELSE taskHits
      /\ UNCHANGED <<attempted, attempts, inlineHits, count403, count200, todo, evStage, evJob,
                     next, tried, loaded, ended, overlapped, tries, probe>>
  BY DEF TaskStep, AfterHit
<1>3. taskHits'[j] = IF ok THEN {t} ELSE {}
  BY <1>1, <1>2
<1>4. to > 0 => ~ok /\ to = n + 1
  OBVIOUS
<1>5. to > 0 => taskHits'[j] = {} /\ Refused(j, to)
  <2>1. ASSUME ~ok, NEW m \in Int, m = n + 1 PROVE Refused(j, m)
    BY <1>1, <2>1 DEF Refused
  <2> HIDE DEF ok, to, t
  <2> QED BY <1>1, <1>3, <1>4, <2>1
<1>6. \A x \in taskHits'[j] :
        /\ taskHits'[j] = {x}
        /\ \E i \in DOMAIN TaskTechniques : TaskTechniques[i] = x /\ Refused(j, i)
  BY <1>1, <1>3
<1>7. DOMAIN taskHits' = Jobs /\ \A i \in Jobs : i # j => taskHits'[i] = taskHits[i]
  BY <1>1, <1>2
<1> HIDE DEF to, ok, t, n
<1>8. tasks[j] > 0
  BY <1>1 DEF n
<1> QED BY <1>1, <1>2, <1>5, <1>6, <1>7, <1>8, TaskEffect

(* The probe adds one technique, that it has not asked for before.            *)
LEMMA ProbeStep == ASSUME EvasionInv, ProbeWAF PROVE EvasionInv'
<1> USE DEF EvasionInv
<1> DEFINE n == probe.at + 1
           t == Strategies(ProbePath)[n]
           r == Reply(ProbePath, t)
           said == ProbeSays(r)
<1>0. /\ UNCHANGED <<attempted, count403, count200, todo, evStage, evJob, next, tried, loaded, ended,
                     tasks, taskHits, active, overlapped, tries>>
      /\ probe.at < Len(Strategies(ProbePath))
      /\ probe' = [at |-> n, said |-> IF said THEN probe.said \cup {t} ELSE probe.said]
      /\ \/ ~said /\ inlineHits' = inlineHits /\ attempts' = attempts
         \/ attempts' = [attempts EXCEPT ![t] = @ + 1]
            /\ inlineHits' = IF said THEN [inlineHits EXCEPT ![t] = @ + 1] ELSE inlineHits
  BY DEF ProbeWAF, Record, ProbeSays
<1>1. /\ ProbePath \in Paths /\ probe.at \in Nat /\ n \in DOMAIN Strategies(ProbePath)
      /\ n \in 1..Len(Strategies(ProbePath)) /\ Len(Strategies(ProbePath)) \in Nat
  <2>1. Paths # {}
    BY EvasionAssumption DEF Paths
  <2>2. ProbePath \in Paths
    BY <2>1 DEF ProbePath
  <2>3. probe.at \in 0..Len(Strategies(ProbePath))
    BY DEF EvTypes
  <2>4. Len(Strategies(ProbePath)) \in Nat /\ DOMAIN Strategies(ProbePath) = 1..Len(Strategies(ProbePath))
    BY StrategiesShape
  <2> HIDE DEF t, r, said
  <2> QED BY <1>0, <2>2, <2>3, <2>4
<1>2. t \in AllTechniques
  BY <1>1, StrategiesShape
<1>3. t \notin probe.said
  <2> SUFFICES ASSUME t \in probe.said PROVE FALSE
    OBVIOUS
  <2>1. PICK i \in 1..probe.at : Strategies(ProbePath)[i] = t
    BY <1>2 DEF EvScore
  <2>2. i \in DOMAIN Strategies(ProbePath) /\ i # n
    BY <1>0, <1>1, StrategiesShape
  <2> QED BY <1>1, <2>1, <2>2, StrategiesShape
<1> HIDE DEF said, r, t, n
<1>4. Working' = Working /\ Held' = Held /\ \A w : Inline(w)' = Inline(w) /\ Technique(w)' = Technique(w)
  BY <1>0 DEF Working, Held, Inline, Technique
<1>5. EvWorkers' /\ EvMarks'
  BY <1>0, <1>4 DEF EvWorkers, EvMarks
<1>6. EvCounts'
  BY <1>0, <1>4, CountsRest
<1>7. EvTasks'
  BY <1>0, TasksRest
<1>8. EvTypes'
  <2>1. probe' \in [at : 0..Len(Strategies(ProbePath)), said : SUBSET AllTechniques]
    BY <1>0, <1>1, <1>2 DEF EvTypes
  <2>2. attempts' \in [AllTechniques -> Nat] /\ inlineHits' \in [AllTechniques -> Nat]
    <3>1. attempts[t] + 1 \in Nat /\ inlineHits[t] + 1 \in Nat
      BY <1>2 DEF EvTypes
    <3> QED BY <1>0, <3>1 DEF EvTypes
  <2> QED BY <1>0, <2>1, <2>2 DEF EvTypes
<1>9. EvScore'
  <2> SUFFICES ASSUME NEW x \in AllTechniques
               PROVE  /\ inlineHits'[x] = Cardinality(EndedWith(x)) + Cardinality(GrantedWith(x))
                                         + (IF x \in probe'.said THEN 1 ELSE 0)
                      /\ inlineHits'[x] <= attempts'[x]
                      /\ x \in probe'.said => \E i \in 1..probe'.at : Strategies(ProbePath)[i] = x
    <3>1. \A x \in AllTechniques : EndedWith(x)' = EndedWith(x) /\ GrantedWith(x)' = GrantedWith(x)
      BY <1>0, <1>4 DEF EndedWith, GrantedWith
    <3> QED BY <3>1 DEF EvScore
  <2>1. /\ inlineHits[x] = Cardinality(EndedWith(x)) + Cardinality(GrantedWith(x))
                           + (IF x \in probe.said THEN 1 ELSE 0)
        /\ inlineHits[x] <= attempts[x] /\ inlineHits[x] \in Nat /\ attempts[x] \in Nat
        /\ x \in probe.said => \E i \in 1..probe.at : Strategies(ProbePath)[i] = x
    BY DEF EvScore, EvTypes
  <2>2. Cardinality(GrantedWith(x)) \in Nat /\ Cardinality(EndedWith(x)) \in Nat
    BY FiniteParts DEF GrantedWith, EndedWith
  <2>3. probe'.at = n /\ probe'.said = IF said THEN probe.said \cup {t} ELSE probe.said
    BY <1>0
  <2>4. n = probe.at + 1 /\ n \in Nat /\ t = Strategies(ProbePath)[n]
    BY <1>1 DEF n, t
  <2>5. x \in probe'.said => \E i \in 1..probe'.at : Strategies(ProbePath)[i] = x
    <3>1. CASE x = t
      BY <1>1, <2>3, <2>4, <3>1
    <3>2. CASE x # t
      <4>1. 1..probe.at \subseteq 1..n
        BY <1>1, <2>4
      <4> QED BY <2>1, <2>3, <3>2, <4>1
    <3> QED BY <3>1, <3>2
  <2>6. CASE said /\ x = t
    <3>1. inlineHits'[x] = inlineHits[x] + 1 /\ attempts'[x] = attempts[x] + 1
      BY <1>0, <1>2, <2>6 DEF EvTypes
    <3>2. x \notin probe.said /\ x \in probe'.said
      BY <1>3, <2>3, <2>6
    <3> QED BY <2>1, <2>2, <2>5, <3>1, <3>2
  <2>7. CASE ~(said /\ x = t)
    <3>1. /\ inlineHits'[x] = inlineHits[x]
          /\ attempts'[x] = attempts[x] \/ attempts'[x] = attempts[x] + 1
      BY <1>0, <1>2, <2>7 DEF EvTypes
    <3>2. x \in probe'.said <=> x \in probe.said
      BY <2>3, <2>7
    <3>3. inlineHits'[x] <= attempts'[x]
      BY <2>1, <3>1
    <3> QED BY <2>1, <2>2, <2>5, <3>1, <3>2, <3>3
  <2> QED BY <2>6, <2>7
<1> QED BY <1>5, <1>6, <1>7, <1>8, <1>9

LEMMA EvasionInvStep == EvasionInv /\ [EvasionNext]_evasionVars => EvasionInv'
<1> SUFFICES ASSUME EvasionInv, [EvasionNext]_evasionVars PROVE EvasionInv'
  OBVIOUS
<1>1. ASSUME NEW w \in Workers, Worker(w) PROVE EvasionInv'
  BY <1>1, BlockedStep, ChooseStep, LoadStep, StoreStep, AttemptStep, FinishStep DEF Worker
<1>2. ASSUME NEW j \in Jobs, TaskStep(j) \/ TaskCancelled(j) PROVE EvasionInv'
  BY <1>2, TaskStepStep, CancelStep
<1>3. CASE ProbeWAF
  BY <1>3, ProbeStep
<1>4. CASE UNCHANGED evasionVars
  <2> USE <1>4 DEF evasionVars
  <2>1. Working' = Working /\ Held' = Held /\ \A w : Inline(w)' = Inline(w) /\ Technique(w)' = Technique(w)
    BY DEF Working, Held, Inline, Technique
  <2>2. EvTypes' /\ EvWorkers' /\ EvMarks'
    BY <2>1 DEF EvasionInv, EvTypes, EvWorkers, EvMarks
  <2>3. EvCounts' /\ EvTasks'
    BY <2>1, CountsRest, TasksRest DEF EvasionInv
  <2>4. EvScore'
    <3>1. \A t \in AllTechniques : GrantedWith(t)' = GrantedWith(t)
      BY <2>1 DEF GrantedWith
    <3> QED BY <3>1, ScoreRest DEF EvasionInv
  <2> QED BY <2>2, <2>3, <2>4 DEF EvasionInv
<1> QED BY <1>1, <1>2, <1>3, <1>4 DEF EvasionNext

LEMMA EvasionInvImpliesSound == EvasionInv => EvasionSound
<1> SUFFICES ASSUME EvasionInv PROVE EvasionSound
  OBVIOUS
<1> USE DEF EvasionInv
<1>1. EvasionTypeOK
  <2>1. /\ Cardinality(Held \cup KeptBlocked) = Cardinality(Held) + Cardinality(KeptBlocked)
        /\ Cardinality(Held \cup KeptBlocked) \in 0..Cardinality(Jobs)
    <3>1. Held \cap KeptBlocked = {} /\ Held \subseteq Jobs /\ KeptBlocked \subseteq Jobs
      BY DEF Held, KeptBlocked
    <3>2. /\ Cardinality(Held \cup KeptBlocked) =
                Cardinality(Held) + Cardinality(KeptBlocked) - Cardinality(Held \cap KeptBlocked)
          /\ Cardinality(Held) \in Nat /\ Cardinality(KeptBlocked) \in Nat
      BY <3>1, FiniteParts, FS_Union
    <3>3. Cardinality(Held \cap KeptBlocked) = 0
      BY <3>1, FS_EmptySet
    <3>4. Held \cup KeptBlocked \in SUBSET Jobs
      BY <3>1
    <3> QED BY <3>2, <3>3, <3>4, FiniteParts
  <2>2. /\ Cardinality(Held) \in 0..Cardinality(Jobs) /\ Cardinality(Running) \in 0..Cardinality(Jobs)
        /\ Cardinality(KeptGranted) \in 0..Cardinality(Jobs)
    BY FiniteParts DEF Held, Running, KeptGranted
  <2>3. count403 \in 0..Cardinality(Jobs) /\ count200 \in 0..Cardinality(Jobs)
        /\ active \in 0..(2 * Cardinality(Jobs)) /\ Cardinality(Running) <= BypassSlots
    BY <2>1, <2>2, FiniteParts DEF EvCounts
  <2>4. \A p \in Paths : Range(attempted[p]) \subseteq AllTechniques
    <3> SUFFICES ASSUME NEW p \in Paths PROVE Range(attempted[p]) \subseteq AllTechniques
      OBVIOUS
    <3>1. attempted[p] \in Seq(AllTechniques)
      BY DEF EvTypes
    <3> QED BY <3>1 DEF Range
  <2> QED BY <2>3, <2>4 DEF EvasionTypeOK, EvTypes
<1>2. EvasionOnce
  BY DEF EvasionOnce, EvMarks
<1>3. EvasionCounters
  BY DEF EvasionCounters, EvCounts, Working, KeptBlocked, KeptGranted
<1>4. EvasionScore
  BY DEF EvasionScore, EvScore, EndedWith, GrantedWith
<1>5. EvasionFirstHit
  BY DEF EvasionFirstHit, EvTasks, Refused
<1>6. EvasionActive
  BY DEF EvasionActive, EvCounts, Working
<1> QED BY <1>1, <1>2, <1>3, <1>4, <1>5, <1>6 DEF EvasionSound

THEOREM EvasionInvariant == EvasionSafety => []EvasionInv
  BY EvasionInvInit, EvasionInvStep, PTL DEF EvasionSafety

(* A technique is tried once on a path, counters and scores follow the answers
   that are kept, a task publishes its first hit, Wait's count comes back.    *)
THEOREM EvasionIsSound == EvasionSafety => []EvasionSound
  BY EvasionInvariant, EvasionInvImpliesSound, PTL
-----------------------------------------------------------------------------
(* The search for hidden parameters.                                         *)

DiscoverySafety == DiscoveryInit /\ [][ProbeHiddenParams]_discoveryVars

Covers(slices, k) == \E w \in DOMAIN slices : k \in slices[w].from..slices[w].to
Apart(slices) == \A v, w \in DOMAIN slices : v < w => slices[v].to < slices[w].from

(* What the halvings still to come may be charged to.                        *)
Pending(slices) ==
    {p \in page.known \X (1..Halvings[ChunkSize]) :
        \E w \in DOMAIN slices : p[1] \in Slice(slices[w]) /\ p[2] <= Halvings[Size(slices[w])]}

Budget == 1 + Cardinality(Controls) + ChunkCount(Len(paramCandidates))
            + 2 * (Halvings[ChunkSize] * Cardinality(page.known))

(* A control name is no candidate.                                           *)
ControlsForeign ==
    /\ \A c \in toControl : ~Candidate(c)
    /\ \A a \in controls : \E c \in Controls : ~Candidate(c) /\ a = PageAnswer({c}, c)

SearchStages ==
    /\ phase \in {"control", "probe"} \/ paramHits # <<>> => baseline = BaselineAnswer
    /\ phase \in {"baseline", "control"} => paramHits = <<>>
    /\ phase # "probe" => work = <<>>

(* A hit was sent alone, with that answer.                                   *)
HitsProven ==
    \A i \in DOMAIN paramHits : PageAnswer({paramHits[i]}, paramHits[i]).status # 404
        /\ PageAnswer({paramHits[i]}, paramHits[i]) # baseline
        /\ PageAnswer({paramHits[i]}, paramHits[i]) \notin controls
HitsTaken ==
    \A i \in DOMAIN paramHits : \E k \in DOMAIN paramCandidates :
        paramCandidates[k] = paramHits[i] /\ ~Covers(work, k)

(* What the page knows is found or still in a slice.                         *)
NothingLost ==
    /\ phase \in {"probe", "done"} /\ fails = 0 /\ page.picky = {}
    /\ \A n \in page.missing : ~Candidate(n)
    => \A k \in DOMAIN paramCandidates : paramCandidates[k] \in page.known =>
            IsHit(paramCandidates[k]) \/ Covers(work, k)

InBudget ==
    /\ phase = "baseline" => requests = 0
    /\ phase = "control" => requests + Cardinality(toControl) <= 1 + Cardinality(Controls)
    /\ phase \in {"probe", "done"} /\ ~page.catchAll /\ method = "GET" =>
            requests + Len(work) + 2 * Cardinality(Pending(work)) <= Budget

DiscoveryInv ==
    /\ DiscoveryTypeOK /\ Apart(work) /\ ControlsForeign /\ SearchStages /\ HitsProven /\ HitsTaken
    /\ ParamsOnce /\ NothingLost /\ InBudget

-----------------------------------------------------------------------------
LEMMA CandidateList ==
  ASSUME wordlist \in Wordlists, hints \in HintSets
  PROVE  /\ paramCandidates \in Seq(Names)
         /\ \A i, j \in DOMAIN paramCandidates : paramCandidates[i] = paramCandidates[j] => i = j
<1>1. CASE wordlist = {}
  <2>1. paramCandidates = <<>>
    BY <1>1 DEF paramCandidates
  <2> QED BY <2>1
<1>2. CASE wordlist # {}
  <2>1. paramCandidates = uniqueStrings[wordlist \cup hints]
    BY <1>2 DEF paramCandidates
  <2>2. /\ uniqueStrings[wordlist \cup hints] \in Seq(wordlist \cup hints)
        /\ \A i, j \in DOMAIN uniqueStrings[wordlist \cup hints] :
              uniqueStrings[wordlist \cup hints][i] = uniqueStrings[wordlist \cup hints][j] => i = j
        /\ wordlist \cup hints \subseteq Names
    BY DiscoveryAssumption
  <2> DEFINE list == uniqueStrings[wordlist \cup hints]
  <2>3. \A i \in 1..Len(list) : list[i] \in Names
    BY <2>2
  <2>4. list \in Seq(Names)
    BY <2>2, <2>3
  <2> QED BY <2>1, <2>2, <2>4
<1> QED BY <1>1, <1>2

LEMMA Quotient ==
  \A x \in Nat, d \in Nat \ {0} :
      /\ x \div d \in Nat
      /\ (x \div d) * d <= x /\ x < (x \div d) * d + d
  OBVIOUS

LEMMA Multiples ==
  \A i, j \in Nat, d \in Nat : i < j => i * d + d <= j * d
<1> TAKE i \in Nat, j \in Nat, d \in Nat
<1> HAVE i < j
<1>1. j * d = (i + 1) * d + (j - i - 1) * d
  OBVIOUS
<1>2. (j - i - 1) * d >= 0
  OBVIOUS
<1> QED BY <1>1, <1>2

LEMMA Listed ==
  ASSUME NEW S, NEW m \in Nat, NEW s \in [1..m -> S]
  PROVE  s \in Seq(S) /\ DOMAIN s = 1..m /\ Len(s) = m
  OBVIOUS

LEMMA ChunksCover ==
  ASSUME wordlist \in Wordlists, hints \in HintSets
  PROVE  LET slices == Chunks(Len(paramCandidates)) IN
         /\ ChunkCount(Len(paramCandidates)) \in Nat /\ Len(slices) = ChunkCount(Len(paramCandidates))
         /\ WellSliced(slices) /\ Apart(slices)
         /\ \A k \in DOMAIN paramCandidates : Covers(slices, k)
<1> DEFINE len == Len(paramCandidates)
           n == ChunkCount(len)
           slices == Chunks(len)
           start(i) == (i - 1) * ChunkSize
<1>1. len \in Nat /\ ChunkSize \in Nat \ {0} /\ DOMAIN paramCandidates = 1..len
  BY CandidateList, DiscoveryAssumption
<1>2. n \in Nat /\ n * ChunkSize <= len + ChunkSize - 1 /\ len + ChunkSize - 1 < n * ChunkSize + ChunkSize
  BY <1>1, Quotient DEF ChunkCount
<1>3. \A i \in Nat \ {0} : start(i) \in Nat /\ i * ChunkSize = start(i) + ChunkSize
  <2> TAKE i \in Nat \ {0}
  <2>1. i - 1 \in Nat /\ i = (i - 1) + 1
    OBVIOUS
  <2>2. (i - 1) * ChunkSize \in Nat
    BY <2>1, <1>1
  <2>3. i * ChunkSize = (i - 1) * ChunkSize + ChunkSize
    BY <1>1
  <2> QED BY <2>2, <2>3
<1>4. \A i, j \in Nat \ {0} : i < j => start(i) + ChunkSize <= start(j)
  <2> TAKE i \in Nat \ {0}, j \in Nat \ {0}
  <2>1. i - 1 \in Nat /\ j - 1 \in Nat /\ (i < j => i - 1 < j - 1)
    OBVIOUS
  <2> QED BY <2>1, <1>1, Multiples
<1>5. n + 1 \in Nat \ {0} /\ start(n + 1) <= len + ChunkSize - 1 /\ len < start(n + 1) + 1
  <2>1. (n + 1) - 1 = n /\ n * ChunkSize \in Nat
    BY <1>1, <1>2
  <2>2. start(n + 1) = n * ChunkSize
    BY <2>1
  <2> HIDE DEF n, start
  <2> QED BY <2>1, <2>2, <1>1, <1>2
<1>6. /\ slices = [i \in 1..n |-> slices[i]]
      /\ \A i \in 1..n :
            slices[i] = [from |-> start(i) + 1,
                         to |-> IF start(i) + ChunkSize < len THEN start(i) + ChunkSize ELSE len]
  BY <1>2, <1>3 DEF Chunks
<1> HIDE DEF n, start, slices
<1>7. ASSUME NEW i \in 1..n
      PROVE  /\ start(i) \in Nat /\ start(i) + 1 <= len
             /\ slices[i] \in [from : 1..len, to : 1..len] /\ Size(slices[i]) \in 1..ChunkSize
  <2>1. start(i) \in Nat /\ start(i) + ChunkSize <= start(n + 1) /\ start(n + 1) \in Nat
    BY <1>2, <1>3, <1>4, <1>5
  <2>2. start(i) + 1 <= len
    BY <2>1, <1>1, <1>5
  <2> QED BY <2>1, <2>2, <1>1, <1>6 DEF Size
<1>8. slices \in Seq([from : 1..len, to : 1..len]) /\ DOMAIN slices = 1..n /\ Len(slices) = n
  <2>1. slices \in [1..n -> [from : 1..len, to : 1..len]]
    BY <1>6, <1>7
  <2>2. n \in Nat
    BY <1>2
  <2> HIDE DEF len
  <2> QED BY <2>1, <2>2, Listed
<1>9. WellSliced(slices)
  BY <1>7, <1>8 DEF WellSliced
<1>10. Apart(slices)
  <2> SUFFICES ASSUME NEW v \in 1..n, NEW w \in 1..n, v < w
               PROVE  slices[v].to < slices[w].from
    BY <1>8 DEF Apart
  <2>1. start(v) + ChunkSize <= start(w)
    BY <1>2, <1>4
  <2> QED BY <2>1, <1>1, <1>6, <1>7, SMTT(30)
<1>11. ASSUME NEW k \in DOMAIN paramCandidates
       PROVE  Covers(slices, k)
  <2> DEFINE i == (k - 1) \div ChunkSize + 1
  <2>1. k \in 1..len /\ k - 1 \in Nat
    BY <1>1
  <2>2. /\ (k - 1) \div ChunkSize \in Nat
        /\ ((k - 1) \div ChunkSize) * ChunkSize <= k - 1
        /\ k - 1 < ((k - 1) \div ChunkSize) * ChunkSize + ChunkSize
    BY <1>1, <2>1, Quotient
  <2>3. i \in Nat \ {0} /\ i - 1 = (k - 1) \div ChunkSize
    BY <2>2
  <2>4. start(i) <= k - 1 /\ k - 1 < start(i) + ChunkSize
    BY <2>2, <2>3 DEF start
  <2> HIDE DEF i
  <2>5. i \in 1..n
    <3>1. n \in Nat /\ i \in Nat \ {0} /\ n + 1 \in Nat \ {0}
      BY <2>3, <1>2
    <3>2. start(i) \in Nat /\ start(n + 1) \in Nat
      BY <3>1, <1>3
    <3>3. n + 1 < i => start(n + 1) + ChunkSize <= start(i)
      BY <3>1, <1>4
    <3>4. ~(n + 1 < i)
      BY <3>2, <3>3, <2>1, <2>4, <1>1, <1>5
    <3>5. n + 1 # i
      BY <3>2, <2>1, <2>4, <1>1, <1>5
    <3> QED BY <3>1, <3>4, <3>5
  <2>6. start(i) \in Nat /\ slices[i].from = start(i) + 1
        /\ slices[i].to = IF start(i) + ChunkSize < len THEN start(i) + ChunkSize ELSE len
    BY <2>5, <1>6, <1>7
  <2>7. k \in slices[i].from..slices[i].to
    BY <2>1, <2>4, <2>6, <1>1
  <2> QED BY <2>5, <2>7, <1>8 DEF Covers
<1> QED BY <1>2, <1>8, <1>9, <1>10, <1>11 DEF n, slices

LEMMA UpTo == \A m \in Nat : IsFiniteSet(1..m) /\ Cardinality(1..m) = m
<1> TAKE m \in Nat
<1>1. 1 \in Int /\ m \in Int
  OBVIOUS
<1>2. IsFiniteSet(1..m) /\ Cardinality(1..m) = IF 1 > m THEN 0 ELSE m - 1 + 1
  BY <1>1, FS_Interval
<1> QED BY <1>2

LEMMA PendingFinite ==
  ASSUME DiscoveryTypeOK, NEW slices
  PROVE  IsFiniteSet(Pending(slices))
<1>1. IsFiniteSet(page.known) /\ Halvings[ChunkSize] \in Nat
  BY DiscoveryAssumption DEF DiscoveryTypeOK
<1>2. IsFiniteSet(1..Halvings[ChunkSize])
  BY <1>1, UpTo
<1>3. IsFiniteSet(page.known \X (1..Halvings[ChunkSize]))
  BY <1>1, <1>2, FS_Product
<1>4. Pending(slices) \subseteq page.known \X (1..Halvings[ChunkSize])
  BY DEF Pending
<1> QED BY <1>3, <1>4, FS_Subset

(* The first slice leaves the stack.                                         *)
LEMMA TailSlices ==
  ASSUME DiscoveryTypeOK, Apart(work), work # <<>>
  PROVE  /\ WellSliced(Tail(work)) /\ Apart(Tail(work)) /\ Len(Tail(work)) = Len(work) - 1
         /\ \A k : Covers(work, k) <=> Covers(Tail(work), k) \/ k \in Head(work).from..Head(work).to
         /\ \A k \in Head(work).from..Head(work).to : ~Covers(Tail(work), k)
         /\ Pending(Tail(work)) \subseteq Pending(work)
<1> DEFINE R == [from : 1..Len(paramCandidates), to : 1..Len(paramCandidates)]
           rest == Tail(work)
<1>1. work \in Seq(R) /\ Len(work) \in Nat \ {0} /\ Head(work) = work[1]
  BY DEF DiscoveryTypeOK, WellSliced
<1>2. rest \in Seq(R) /\ Len(rest) = Len(work) - 1
  BY <1>1
<1>3. \A i \in DOMAIN rest : i + 1 \in DOMAIN work /\ i + 1 > 1 /\ rest[i] = work[i + 1]
  BY <1>1
<1>4. \A i \in DOMAIN work : i # 1 => i - 1 \in DOMAIN rest /\ rest[i - 1] = work[i]
  BY <1>1
<1>5. \A i \in DOMAIN work : i \in Nat /\ work[i] \in R /\ Size(work[i]) \in 1..ChunkSize
  <2>1. \A i \in DOMAIN work : Size(work[i]) \in 1..ChunkSize
    BY DEF DiscoveryTypeOK, WellSliced
  <2> HIDE DEF R
  <2>2. \A i \in DOMAIN work : i \in Nat /\ work[i] \in R
    BY <1>1
  <2> QED BY <2>1, <2>2
<1>6. \A i \in DOMAIN rest : i \in Nat
  BY <1>2
<1>7. 1 \in DOMAIN work
  BY <1>1
<1> HIDE DEF rest, R
<1>8. WellSliced(rest)
  BY <1>2, <1>3, <1>5 DEF WellSliced, R
<1>9. Apart(rest)
  <2> SUFFICES ASSUME NEW v \in DOMAIN rest, NEW w \in DOMAIN rest, v < w
               PROVE  rest[v].to < rest[w].from
    BY DEF Apart
  <2>1. v + 1 < w + 1
    BY <1>6
  <2> QED BY <2>1, <1>3 DEF Apart
<1>10. \A k : Covers(work, k) <=> Covers(rest, k) \/ k \in work[1].from..work[1].to
  BY <1>3, <1>4, <1>7 DEF Covers
<1>11. ASSUME NEW k \in work[1].from..work[1].to
       PROVE  ~Covers(rest, k)
  <2> SUFFICES ASSUME NEW i \in DOMAIN rest, k \in rest[i].from..rest[i].to
               PROVE  FALSE
    BY DEF Covers
  <2>1. 1 < i + 1 /\ i + 1 \in DOMAIN work /\ rest[i] = work[i + 1]
    BY <1>3, <1>6
  <2>2. work[1].to < work[i + 1].from
    BY <2>1, <1>7 DEF Apart
  <2>3. work[1] \in R /\ work[i + 1] \in R
    BY <2>1, <1>5, <1>7
  <2> QED BY <2>1, <2>2, <2>3 DEF R
<1>12. Pending(rest) \subseteq Pending(work)
  BY <1>3 DEF Pending
<1> QED BY <1>1, <1>2, <1>8, <1>9, <1>10, <1>11, <1>12 DEF rest

(* It comes back in two halves.                                              *)
LEMMA TwoHalves ==
  ASSUME NEW g \in [from : 1..Len(paramCandidates), to : 1..Len(paramCandidates)],
         Len(paramCandidates) \in Nat, Size(g) \in 2..ChunkSize, ChunkSize \in Nat
  PROVE  LET l == Halves(g)[1]
             r == Halves(g)[2] IN
         /\ Halves(g) = <<l, r>>
         /\ l \in [from : 1..Len(paramCandidates), to : 1..Len(paramCandidates)]
         /\ r \in [from : 1..Len(paramCandidates), to : 1..Len(paramCandidates)]
         /\ Size(l) = Size(g) \div 2 /\ Size(r) = Size(g) - Size(g) \div 2
         /\ Size(l) \in 1..Size(r) /\ Size(r) \in 1..ChunkSize
         /\ l.from = g.from /\ l.to + 1 = r.from /\ r.to = g.to
         /\ \A k : k \in g.from..g.to <=> k \in l.from..l.to \/ k \in r.from..r.to
<1> DEFINE half == Size(g) \div 2
           mid == g.from + half
           l == Halves(g)[1]
           r == Halves(g)[2]
<1>1. g.from \in Nat /\ g.to \in Nat /\ Size(g) \in Nat /\ Size(g) = g.to - g.from + 1
  BY DEF Size
<1>2. half \in Nat /\ half >= 1 /\ Size(g) - half >= half /\ half < Size(g)
  BY <1>1
<1>3. /\ l = [from |-> g.from, to |-> mid - 1] /\ r = [from |-> mid, to |-> g.to]
      /\ Halves(g) = <<l, r>>
  BY DEF Halves
<1>4. /\ l.from = g.from /\ l.to = mid - 1 /\ r.from = mid /\ r.to = g.to
  BY <1>3
<1> HIDE DEF l, r, half
<1>5. Size(l) = half /\ Size(r) = Size(g) - half
  BY <1>1, <1>2, <1>4 DEF Size
<1>6. /\ l \in [from : 1..Len(paramCandidates), to : 1..Len(paramCandidates)]
      /\ r \in [from : 1..Len(paramCandidates), to : 1..Len(paramCandidates)]
  BY <1>1, <1>2, <1>3
<1>7. Size(l) \in 1..Size(r) /\ Size(r) \in 1..ChunkSize /\ l.to + 1 = r.from
  BY <1>1, <1>2, <1>4, <1>5
<1>8. \A k : k \in g.from..g.to <=> k \in l.from..l.to \/ k \in r.from..r.to
  BY <1>1, <1>2, <1>4
<1> QED BY <1>3, <1>4, <1>5, <1>6, <1>7, <1>8 DEF half, l, r

LEMMA HalvedSlices ==
  ASSUME DiscoveryTypeOK, Apart(work), work # <<>>, Size(Head(work)) # 1
  PROVE  LET halved == Halves(Head(work)) \o Tail(work) IN
         /\ WellSliced(halved) /\ Apart(halved) /\ Len(halved) = Len(work) + 1
         /\ \A k : Covers(halved, k) <=> Covers(work, k)
         /\ Slice(Head(work)) \cap page.known # {} =>
                Cardinality(Pending(halved)) + 1 <= Cardinality(Pending(work))
<1> DEFINE R == [from : 1..Len(paramCandidates), to : 1..Len(paramCandidates)]
           g == Head(work)
           rest == Tail(work)
           l == Halves(g)[1]
           r == Halves(g)[2]
           halved == Halves(g) \o rest
<1>1. /\ work \in Seq(R) /\ Len(work) \in Nat \ {0} /\ g = work[1] /\ 1 \in DOMAIN work
      /\ g \in R /\ rest \in Seq(R) /\ Len(rest) \in Nat
  <2>1. work \in Seq(R)
    BY DEF DiscoveryTypeOK, WellSliced
  <2> HIDE DEF R
  <2> QED BY <2>1
<1>2. /\ WellSliced(rest) /\ Apart(rest) /\ Len(rest) = Len(work) - 1
      /\ \A k : Covers(work, k) <=> Covers(rest, k) \/ k \in g.from..g.to
      /\ \A k \in g.from..g.to : ~Covers(rest, k)
      /\ Pending(rest) \subseteq Pending(work)
  BY TailSlices
<1>3. /\ Len(paramCandidates) \in Nat /\ ChunkSize \in Nat
      /\ Size(g) \in 2..ChunkSize
  BY <1>1, CandidateList, DiscoveryAssumption DEF DiscoveryTypeOK, WellSliced
<1>4. /\ Halves(g) = <<l, r>> /\ l \in R /\ r \in R
      /\ Size(l) = Size(g) \div 2 /\ Size(r) = Size(g) - Size(g) \div 2
      /\ Size(l) \in 1..Size(r) /\ Size(r) \in 1..ChunkSize
      /\ l.from = g.from /\ l.to + 1 = r.from /\ r.to = g.to
      /\ \A k : k \in g.from..g.to <=> k \in l.from..l.to \/ k \in r.from..r.to
  BY <1>1, <1>3, TwoHalves
<1> HIDE DEF R, g, rest, l, r
<1>5. halved \in Seq(R) /\ Len(halved) = Len(rest) + 2 /\ halved[1] = l /\ halved[2] = r
  BY <1>1, <1>4
<1>6. \A i \in 1..Len(rest) : halved[i + 2] = rest[i]
  BY <1>1, <1>4
<1>7. \A i \in DOMAIN halved :
         /\ i \in Nat
         /\ \/ i = 1 \/ i = 2
            \/ i > 2 /\ i - 2 \in 1..Len(rest) /\ halved[i] = rest[i - 2]
  <2>1. DOMAIN halved = 1..(Len(rest) + 2)
    BY <1>5
  <2> HIDE DEF halved
  <2> TAKE i \in DOMAIN halved
  <2>2. CASE i > 2
    <3>1. PICK j \in 1..Len(rest) : i = j + 2
      <4>1. i - 2 \in 1..Len(rest) /\ i = (i - 2) + 2
        BY <2>1, <2>2, <1>1
      <4> QED BY <4>1
    <3>2. halved[i] = rest[j] /\ i - 2 = j
      BY <3>1, <1>6
    <3> QED BY <3>1, <3>2, <2>1, <2>2
  <2>3. Len(rest) \in Nat
    BY <1>1
  <2>4. i \in Nat /\ (i = 1 \/ i = 2 \/ i > 2)
    BY <2>1, <2>3
  <2> QED BY <2>2, <2>4
<1>8. DOMAIN rest = 1..Len(rest) /\ 1 \in DOMAIN halved /\ 2 \in DOMAIN halved /\ DOMAIN halved = 1..(Len(rest) + 2)
  BY <1>1, <1>5
<1> HIDE DEF halved
<1>9. WellSliced(halved)
  <2>1. \A i \in DOMAIN rest : Size(rest[i]) \in 1..ChunkSize
    BY <1>2 DEF WellSliced
  <2>2. Size(l) \in 1..ChunkSize /\ Size(r) \in 1..ChunkSize
    BY <1>3, <1>4
  <2>3. \A i \in DOMAIN halved : Size(halved[i]) \in 1..ChunkSize
    BY <2>1, <2>2, <1>5, <1>7, <1>8
  <2> QED BY <2>3, <1>5 DEF WellSliced, R
<1>10. \A i \in 1..Len(rest) : rest[i] \in R /\ r.to < rest[i].from
  <2> TAKE i \in 1..Len(rest)
  <2>1. rest[i] \in R
    BY <1>1
  <2>2. work[i + 1] = rest[i] /\ 1 < i + 1 /\ i + 1 \in DOMAIN work
    BY <1>1 DEF rest
  <2>3. work[1].to < work[i + 1].from
    BY <2>2, <1>1 DEF Apart
  <2> QED BY <2>1, <2>2, <2>3, <1>1, <1>4
<1>11. l.to < r.from /\ l.to < r.to
  <2>1. l.to \in Nat /\ r.from \in Nat /\ r.to \in Nat
    BY <1>3, <1>4 DEF R
  <2>2. r.to - r.from + 1 >= 1
    BY <1>3, <1>4 DEF Size
  <2> QED BY <2>1, <2>2, <1>4
<1>12. Apart(halved)
  <2> SUFFICES ASSUME NEW v \in DOMAIN halved, NEW w \in DOMAIN halved, v < w
               PROVE  halved[v].to < halved[w].from
    BY DEF Apart
  <2>1. CASE v = 1 /\ w = 2
    BY <2>1, <1>5, <1>11
  <2>2. CASE v < 3 /\ w > 2
    <3>1. w - 2 \in 1..Len(rest) /\ halved[w] = rest[w - 2]
      BY <2>2, <1>7
    <3>2. halved[v] = l \/ halved[v] = r
      BY <2>2, <1>5, <1>7
    <3>3. rest[w - 2] \in R /\ r.to < rest[w - 2].from
      BY <3>1, <1>10
    <3>4. l.to \in Nat /\ r.to \in Nat /\ rest[w - 2].from \in Nat
      BY <3>3, <1>3, <1>4, SMTT(30) DEF R
    <3> QED BY <3>1, <3>2, <3>3, <3>4, <1>11
  <2>3. CASE v > 2 /\ w > 2
    <3>1. /\ v - 2 \in DOMAIN rest /\ halved[v] = rest[v - 2]
          /\ w - 2 \in DOMAIN rest /\ halved[w] = rest[w - 2]
      BY <2>3, <1>7, <1>8
    <3>2. v - 2 < w - 2
      BY <1>7
    <3> QED BY <3>1, <3>2, <1>2 DEF Apart
  <2> QED BY <2>1, <2>2, <2>3, <1>7
<1>13. \A i \in DOMAIN rest : i + 2 \in DOMAIN halved /\ halved[i + 2] = rest[i]
  BY <1>1, <1>6, <1>8
<1>14. \A k : Covers(halved, k) <=> Covers(rest, k) \/ k \in l.from..l.to \/ k \in r.from..r.to
  <2> TAKE k
  <2>1. Covers(halved, k) => Covers(rest, k) \/ k \in l.from..l.to \/ k \in r.from..r.to
    BY <1>5, <1>7, <1>8 DEF Covers
  <2>2. k \in l.from..l.to \/ k \in r.from..r.to => Covers(halved, k)
    BY <1>5, <1>8 DEF Covers
  <2>3. Covers(rest, k) => Covers(halved, k)
    BY <1>13 DEF Covers
  <2> QED BY <2>1, <2>2, <2>3
<1>15. ASSUME Slice(g) \cap page.known # {}
       PROVE  Cardinality(Pending(halved)) + 1 <= Cardinality(Pending(work))
  <2> DEFINE H == Halvings
  <2>1. PICK k \in g.from..g.to : paramCandidates[k] \in page.known
    BY <1>15 DEF Slice
  <2>2. /\ H \in [1..ChunkSize -> Nat] /\ IsFiniteSet(page.known)
        /\ \A s, t \in 1..ChunkSize : s <= t => H[s] <= H[t]
        /\ H[Size(g) - Size(g) \div 2] < H[Size(g)]
    BY <1>3, DiscoveryAssumption DEF DiscoveryTypeOK
  <2>3. /\ H[Size(l)] <= H[Size(r)] /\ H[Size(r)] < H[Size(g)]
        /\ H[Size(l)] \in Nat /\ H[Size(r)] \in Nat /\ H[Size(g)] \in Nat /\ H[ChunkSize] \in Nat
        /\ H[Size(g)] <= H[ChunkSize] /\ H[Size(g)] >= 1
    BY <2>2, <1>3, <1>4, SMTT(30)
  <2> HIDE DEF H
  <2> DEFINE mine == <<paramCandidates[k], H[Size(g)]>>
  <2>4. mine \in Pending(work)
    <3>1. mine \in page.known \X (1..H[ChunkSize]) /\ mine[1] = paramCandidates[k] /\ mine[2] = H[Size(g)]
      BY <2>1, <2>3
    <3>2. mine[1] \in Slice(work[1]) /\ mine[2] <= H[Size(work[1])]
      BY <3>1, <2>1, <2>3, <1>1 DEF Slice
    <3> HIDE DEF mine
    <3> QED BY <3>1, <3>2, <1>1 DEF Pending, H
  <2>5. Slice(l) \subseteq Slice(g) /\ Slice(r) \subseteq Slice(g)
    BY <1>4 DEF Slice
  <2>6. ASSUME NEW p \in Pending(halved)
        PROVE  p \in Pending(work) /\ p # mine
    <3>1. PICK i \in DOMAIN halved : p[1] \in Slice(halved[i]) /\ p[2] <= H[Size(halved[i])]
      BY DEF Pending, H
    <3>2. p \in page.known \X (1..H[ChunkSize]) /\ p[2] \in Nat
      BY <2>3 DEF Pending, H
    <3>3. CASE i = 1 \/ i = 2
      <4>1. p[1] \in Slice(g) /\ p[2] < H[Size(g)]
        BY <3>1, <3>2, <3>3, <2>3, <2>5, <1>5
      <4>2. p \in Pending(work)
        BY <3>2, <4>1, <2>3, <1>1 DEF Pending, H
      <4> QED BY <4>1, <4>2, <2>3
    <3>4. CASE ~(i = 1 \/ i = 2)
      <4>1. i - 2 \in DOMAIN rest /\ halved[i] = rest[i - 2]
        BY <3>4, <1>7, <1>8
      <4>2. p \in Pending(rest)
        BY <3>1, <3>2, <4>1 DEF Pending, H
      <4>3. PICK m \in rest[i - 2].from..rest[i - 2].to : p[1] = paramCandidates[m]
        BY <3>1, <4>1 DEF Slice
      <4>4. Covers(rest, m) /\ m # k
        BY <4>1, <4>3, <2>1, <1>2 DEF Covers
      <4>5. m \in DOMAIN paramCandidates /\ k \in DOMAIN paramCandidates
        <5>1. rest[i - 2] \in R /\ g \in R
          BY <4>1, <1>1
        <5>2. DOMAIN paramCandidates = 1..Len(paramCandidates)
          BY CandidateList DEF DiscoveryTypeOK
        <5> QED BY <5>1, <5>2, <4>3, <2>1, <1>3 DEF R
      <4>6. paramCandidates[m] # paramCandidates[k]
        BY <4>4, <4>5, CandidateList DEF DiscoveryTypeOK
      <4> QED BY <4>2, <4>3, <4>6, <1>2
    <3> QED BY <3>3, <3>4
  <2>7. Pending(halved) \subseteq Pending(work) \ {mine}
    BY <2>6
  <2>8. IsFiniteSet(Pending(work))
    BY PendingFinite
  <2> HIDE DEF mine
  <2>9. /\ IsFiniteSet(Pending(work) \ {mine})
        /\ Cardinality(Pending(work) \ {mine}) = Cardinality(Pending(work)) - 1
        /\ Cardinality(Pending(work)) \in Nat
    BY <2>4, <2>8, FS_RemoveElement, FS_CardinalityType
  <2>10. Cardinality(Pending(halved)) <= Cardinality(Pending(work) \ {mine})
         /\ Cardinality(Pending(halved)) \in Nat
    BY <2>7, <2>9, FS_Subset, FS_CardinalityType
  <2> QED BY <2>9, <2>10
<1>16. \A k : Covers(halved, k) <=> Covers(work, k)
  BY <1>2, <1>4, <1>14
<1>17. Len(halved) = Len(work) + 1
  BY <1>1, <1>2, <1>5
<1> QED BY <1>9, <1>12, <1>15, <1>16, <1>17 DEF g, rest, halved

-----------------------------------------------------------------------------
LEMMA DiscoveryInitInv == DiscoveryInit => DiscoveryInv
<1> SUFFICES ASSUME DiscoveryInit PROVE DiscoveryInv
  OBVIOUS
<1> USE DEF DiscoveryInit
<1>1. DiscoveryTypeOK
  BY DiscoveryAssumption DEF DiscoveryTypeOK, WellSliced
<1>2. Apart(work) /\ ControlsForeign /\ SearchStages /\ HitsProven /\ HitsTaken /\ ParamsOnce
  BY DEF Apart, ControlsForeign, SearchStages, HitsProven, HitsTaken, ParamsOnce
<1>3. NothingLost /\ InBudget
  BY DEF NothingLost, InBudget
<1> QED BY <1>1, <1>2, <1>3 DEF DiscoveryInv

(* What the steps of the search leave alone.                                 *)
SamePage == UNCHANGED <<page, method, wordlist, hints>>
LEMMA SameSearch ==
  SamePage => /\ paramCandidates' = paramCandidates /\ BaselineAnswer' = BaselineAnswer
              /\ Budget' = Budget
              /\ \A n : Candidate(n)' <=> Candidate(n)
              /\ \A given, first : PageAnswer(given, first)' = PageAnswer(given, first)
<1> SUFFICES ASSUME SamePage
             PROVE  /\ paramCandidates' = paramCandidates /\ BaselineAnswer' = BaselineAnswer
                    /\ Budget' = Budget
                    /\ \A n : Candidate(n)' <=> Candidate(n)
                    /\ \A given, first : PageAnswer(given, first)' = PageAnswer(given, first)
  OBVIOUS
<1>1. paramCandidates' = paramCandidates
  BY DEF SamePage, paramCandidates
<1>2. \A n : Candidate(n)' <=> Candidate(n)
  BY <1>1 DEF Candidate
<1>3. Budget' = Budget
  BY <1>1 DEF SamePage, Budget, ChunkCount
<1>4. BaselineAnswer' = BaselineAnswer /\ \A given, first : PageAnswer(given, first)' = PageAnswer(given, first)
  BY DEF SamePage, BaselineAnswer, PageAnswer, NoQuery
<1> QED BY <1>1, <1>2, <1>3, <1>4

LEMMA SameSlices ==
  ASSUME SamePage, NEW slices, work' = slices
  PROVE  /\ WellSliced(work)' <=> WellSliced(slices)
         /\ Apart(work)' <=> Apart(slices)
         /\ \A k : Covers(work, k)' <=> Covers(slices, k)
         /\ Pending(work)' = Pending(slices)
<1>1. paramCandidates' = paramCandidates /\ page' = page
  BY SameSearch DEF SamePage
<1>2. WellSliced(work)' <=> WellSliced(slices)
  BY <1>1 DEF WellSliced, Size
<1>3. Apart(work)' <=> Apart(slices)
  BY DEF Apart
<1>4. \A k : Covers(work, k)' <=> Covers(slices, k)
  BY DEF Covers
<1>5. Pending(work)' = Pending(slices)
  BY <1>1 DEF Pending, Slice, Size
<1> QED BY <1>2, <1>3, <1>4, <1>5

LEMMA ForeignAfter ==
  ASSUME SamePage, \A c \in toControl' : ~Candidate(c),
         \A a \in controls' : \E c \in Controls : ~Candidate(c) /\ a = PageAnswer({c}, c)
  PROVE  ControlsForeign'
<1>1. \A c \in toControl' : ~Candidate(c)'
  BY SameSearch
<1>2. ASSUME NEW a \in controls'
      PROVE  \E c \in Controls : ~Candidate(c)' /\ a = PageAnswer({c}, c)'
  <2>1. PICK c \in Controls : ~Candidate(c) /\ a = PageAnswer({c}, c)
    OBVIOUS
  <2>2. ~Candidate(c)' /\ a = PageAnswer({c}, c)'
    BY <2>1, SameSearch
  <2> QED BY <2>2
<1>3. (\A c \in toControl : ~Candidate(c))'
  BY <1>1
<1>4. (\A a \in controls : \E c \in Controls : ~Candidate(c) /\ a = PageAnswer({c}, c))'
  BY <1>2
<1> QED BY <1>3, <1>4 DEF ControlsForeign

LEMMA BudgetParts ==
  ASSUME DiscoveryTypeOK
  PROVE  /\ Cardinality(Controls) \in Nat /\ ChunkCount(Len(paramCandidates)) \in Nat
         /\ Halvings[ChunkSize] \in Nat /\ Cardinality(page.known) \in Nat
         /\ Halvings[ChunkSize] * Cardinality(page.known) \in Nat
         /\ IsFiniteSet(page.known) /\ Len(paramCandidates) \in Nat
         /\ DOMAIN paramCandidates = 1..Len(paramCandidates)
<1>1. /\ Cardinality(Controls) \in Nat /\ ChunkCount(Len(paramCandidates)) \in Nat
      /\ Halvings[ChunkSize] \in Nat /\ Cardinality(page.known) \in Nat /\ IsFiniteSet(page.known)
  BY DiscoveryAssumption, ChunksCover, FS_CardinalityType DEF DiscoveryTypeOK
<1>2. Halvings[ChunkSize] * Cardinality(page.known) \in Nat
  BY <1>1
<1>3. Len(paramCandidates) \in Nat /\ DOMAIN paramCandidates = 1..Len(paramCandidates)
  BY CandidateList DEF DiscoveryTypeOK
<1> QED BY <1>1, <1>2, <1>3

LEMMA NothingPending ==
  Pending(<<>>) = {} /\ Cardinality({}) = 0
  BY FS_EmptySet DEF Pending

-----------------------------------------------------------------------------
LEMMA BaselineInv ==
  ASSUME DiscoveryInv, Baseline
  PROVE  DiscoveryInv'
<1> USE DEF Baseline
<1>1. SamePage /\ work' = work /\ paramHits' = paramHits /\ controls' = controls
  BY DEF SamePage
<1>2. work = <<>> /\ paramHits = <<>> /\ requests = 0
  BY DEF DiscoveryInv, SearchStages, InBudget
<1>3. DiscoveryTypeOK'
  <2>1. WellSliced(work)'
    BY <1>1, SameSlices DEF DiscoveryInv, DiscoveryTypeOK
  <2>2. toControl' \subseteq Controls /\ phase' \in {"control", "done"}
    BY DEF DiscoveryInv, DiscoveryTypeOK, chooseParamControlNames
  <2>3. fails' \in 0..MaxFails /\ requests' \in {0, 1}
    BY <1>2, DiscoveryAssumption DEF DiscoveryInv, DiscoveryTypeOK, Fails
  <2> QED BY <1>1, <2>1, <2>2, <2>3 DEF DiscoveryInv, DiscoveryTypeOK, SamePage
<1>4. Apart(work)' /\ HitsTaken' /\ ParamsOnce' /\ HitsProven'
  BY <1>1, <1>2 DEF Apart, HitsTaken, ParamsOnce, HitsProven
<1>5. ControlsForeign'
  <2>1. \A c \in toControl' : ~Candidate(c)
    BY DEF DiscoveryInv, ControlsForeign, chooseParamControlNames
  <2> QED BY <2>1, <1>1, ForeignAfter DEF DiscoveryInv, ControlsForeign
<1>6. SearchStages'
  BY <1>1, <1>2, SameSearch DEF SearchStages
<1>7. NothingLost'
  <2> SUFFICES ASSUME phase' = "done", fails' = 0
               PROVE  paramCandidates' = <<>>
    BY DEF NothingLost
  <2>1. paramCandidates = <<>>
    BY DEF DiscoveryInv, DiscoveryTypeOK, Fails
  <2> QED BY <2>1, <1>1, SameSearch
<1>8. InBudget'
  <2>1. Pending(work)' = {} /\ Len(work') = 0
    BY <1>1, <1>2, SameSlices, NothingPending
  <2>2. requests' <= 1 /\ requests' \in Nat
    BY <1>2
  <2>3. CASE phase' = "done"
    <3>1. Budget' >= 1 /\ Budget' \in Nat
      BY <1>1, SameSearch, BudgetParts, SMTT(30) DEF Budget, DiscoveryInv
    <3> QED BY <3>1, <2>1, <2>2, <2>3, NothingPending DEF InBudget
  <2>4. CASE phase' = "control"
    <3>1. toControl' \subseteq Controls /\ IsFiniteSet(Controls)
      BY <1>3, DiscoveryAssumption DEF DiscoveryTypeOK
    <3>2. Cardinality(toControl') <= Cardinality(Controls) /\ Cardinality(toControl') \in Nat
          /\ Cardinality(Controls) \in Nat
      BY <3>1, FS_Subset, FS_CardinalityType
    <3> QED BY <3>2, <2>2, <2>4 DEF InBudget
  <2> QED BY <2>3, <2>4
<1> QED BY <1>3, <1>4, <1>5, <1>6, <1>7, <1>8 DEF DiscoveryInv

LEMMA ControlInv ==
  ASSUME DiscoveryInv, NEW c \in toControl, ControlAnswer(c)
  PROVE  DiscoveryInv'
<1> USE DEF ControlAnswer
<1>1. SamePage /\ work' = work /\ paramHits' = paramHits /\ phase' = phase /\ baseline' = baseline
  BY DEF SamePage
<1>2. work = <<>> /\ paramHits = <<>> /\ phase = "control"
  BY DEF DiscoveryInv, SearchStages
<1>3. DiscoveryTypeOK'
  <2>1. WellSliced(work)'
    BY <1>1, SameSlices DEF DiscoveryInv, DiscoveryTypeOK
  <2>2. fails' \in 0..MaxFails /\ requests' \in Nat
    BY DiscoveryAssumption DEF DiscoveryInv, DiscoveryTypeOK, Fails
  <2> QED BY <1>1, <2>1, <2>2 DEF DiscoveryInv, DiscoveryTypeOK, SamePage
<1>4. Apart(work)' /\ HitsTaken' /\ ParamsOnce' /\ HitsProven' /\ NothingLost'
  BY <1>1, <1>2 DEF Apart, HitsTaken, ParamsOnce, HitsProven, NothingLost
<1>5. ControlsForeign'
  <2>1. c \in Controls /\ ~Candidate(c)
    BY DEF DiscoveryInv, ControlsForeign, DiscoveryTypeOK
  <2>2. \A a \in controls' : \E x \in Controls : ~Candidate(x) /\ a = PageAnswer({x}, x)
    BY <2>1 DEF DiscoveryInv, ControlsForeign
  <2>3. \A x \in toControl' : ~Candidate(x)
    BY DEF DiscoveryInv, ControlsForeign
  <2> QED BY <2>2, <2>3, <1>1, ForeignAfter
<1>6. SearchStages'
  BY <1>1, <1>2, SameSearch DEF DiscoveryInv, SearchStages
<1>7. InBudget'
  <2>1. IsFiniteSet(toControl)
    BY DiscoveryAssumption, FS_Subset DEF DiscoveryInv, DiscoveryTypeOK
  <2>2. Cardinality(toControl') = Cardinality(toControl) - 1 /\ Cardinality(toControl) \in Nat
    BY <2>1, FS_RemoveElement, FS_CardinalityType
  <2> QED BY <2>2, <1>1, <1>2, BudgetParts DEF DiscoveryInv, InBudget, DiscoveryTypeOK
<1> QED BY <1>3, <1>4, <1>5, <1>6, <1>7 DEF DiscoveryInv

LEMMA ChunksInv ==
  ASSUME DiscoveryInv, phase = "control", toControl = {}, phase' = "probe",
         work' = Chunks(Len(paramCandidates)),
         UNCHANGED <<page, method, wordlist, hints, baseline, controls, toControl, paramHits,
                     fails, requests>>
  PROVE  DiscoveryInv'
<1> DEFINE slices == Chunks(Len(paramCandidates))
<1>1. SamePage /\ work' = slices
  BY DEF SamePage
<1>2. /\ Len(slices) = ChunkCount(Len(paramCandidates)) /\ WellSliced(slices) /\ Apart(slices)
      /\ \A k \in DOMAIN paramCandidates : Covers(slices, k)
  BY ChunksCover DEF DiscoveryInv, DiscoveryTypeOK
<1> HIDE DEF slices
<1>3. /\ WellSliced(work)' /\ Apart(work)' /\ Pending(work)' = Pending(slices)
      /\ \A k : Covers(work, k)' <=> Covers(slices, k)
  BY <1>1, <1>2, SameSlices
<1>4. paramHits = <<>>
  BY DEF DiscoveryInv, SearchStages
<1>5. DiscoveryTypeOK'
  BY <1>3 DEF DiscoveryInv, DiscoveryTypeOK
<1>6. HitsTaken' /\ ParamsOnce' /\ HitsProven'
  BY <1>4 DEF HitsTaken, ParamsOnce, HitsProven
<1>7. ControlsForeign' /\ SearchStages'
  <2>1. SearchStages'
    BY <1>1, <1>4, SameSearch DEF DiscoveryInv, SearchStages
  <2> QED BY <2>1, <1>1, ForeignAfter DEF DiscoveryInv, ControlsForeign
<1>8. NothingLost'
  BY <1>1, <1>2, <1>3, SameSearch DEF NothingLost
<1>9. InBudget'
  <2> DEFINE H == Halvings[ChunkSize]
             N == Cardinality(page.known)
  <2>1. /\ Cardinality(Controls) \in Nat /\ ChunkCount(Len(paramCandidates)) \in Nat
        /\ H \in Nat /\ N \in Nat /\ H * N \in Nat /\ IsFiniteSet(page.known)
    BY BudgetParts DEF DiscoveryInv
  <2>2. IsFiniteSet(1..H) /\ Cardinality(1..H) = H
    BY <2>1, UpTo
  <2>3. IsFiniteSet(page.known \X (1..H)) /\ Cardinality(page.known \X (1..H)) = N * H
    BY <2>1, <2>2, FS_Product
  <2>4. Pending(slices) \subseteq page.known \X (1..H)
    BY DEF Pending
  <2>5. Cardinality(Pending(slices)) <= N * H /\ Cardinality(Pending(slices)) \in Nat
    BY <2>3, <2>4, FS_Subset, FS_CardinalityType
  <2>6. N * H = H * N
    BY <2>1
  <2>7. requests \in Nat /\ requests <= 1 + Cardinality(Controls)
    BY <2>1, NothingPending DEF DiscoveryInv, DiscoveryTypeOK, InBudget
  <2>8. Budget' = 1 + Cardinality(Controls) + ChunkCount(Len(paramCandidates)) + 2 * (H * N)
    BY <1>1, SameSearch DEF Budget
  <2> HIDE DEF H, N
  <2>9. requests' + Len(work') + 2 * Cardinality(Pending(work)') <= Budget'
    BY <2>1, <2>5, <2>6, <2>7, <2>8, <1>1, <1>2, <1>3
  <2> QED BY <2>9 DEF InBudget
<1> QED BY <1>3, <1>5, <1>6, <1>7, <1>8, <1>9 DEF DiscoveryInv

-----------------------------------------------------------------------------
(* The first slice of the stack.                                             *)
LEMMA HeadSlice ==
  ASSUME DiscoveryTypeOK, work # <<>>
  PROVE  /\ Head(work) \in [from : 1..Len(paramCandidates), to : 1..Len(paramCandidates)]
         /\ Size(Head(work)) \in 1..ChunkSize /\ Head(work) = work[1] /\ 1 \in DOMAIN work
         /\ \A k \in Head(work).from..Head(work).to : k \in DOMAIN paramCandidates
         /\ Len(work) \in Nat
<1> DEFINE R == [from : 1..Len(paramCandidates), to : 1..Len(paramCandidates)]
<1>1. work \in Seq(R) /\ \A i \in DOMAIN work : Size(work[i]) \in 1..ChunkSize
  BY DEF DiscoveryTypeOK, WellSliced
<1> HIDE DEF R
<1>2. Head(work) \in R /\ Head(work) = work[1] /\ 1 \in DOMAIN work /\ Len(work) \in Nat
  BY <1>1
<1>3. ASSUME NEW k \in Head(work).from..Head(work).to
      PROVE  k \in DOMAIN paramCandidates
  BY <1>2, BudgetParts DEF R
<1> QED BY <1>1, <1>2, <1>3 DEF R

(* A slice with a name that the page knows is not given up.                  *)
LEMMA KnownIsSeen ==
  ASSUME DiscoveryInv, phase = "probe", work # <<>>, page.picky = {},
         \A n \in page.missing : ~Candidate(n),
         NEW k \in Head(work).from..Head(work).to, paramCandidates[k] \in page.known
  PROVE  probeParamSubset(Head(work))
<1> DEFINE g == Head(work)
           n == paramCandidates[k]
           a == PageAnswer(Slice(g), paramCandidates[g.from])
<1>1. \A m \in Slice(g) : Candidate(m)
  BY HeadSlice DEF Slice, Candidate, DiscoveryInv
<1>2. n \in Slice(g) /\ Candidate(n)
  BY <1>1 DEF Slice
<1>3. a.status = 200 /\ n \in a.seen
  BY <1>1, <1>2 DEF PageAnswer
<1> HIDE DEF a, n
<1>4. baseline.seen = {}
  BY DEF DiscoveryInv, SearchStages, BaselineAnswer, NoQuery
<1>5. ASSUME a \in controls PROVE FALSE
  <2>1. PICK c \in Controls : ~Candidate(c) /\ a = PageAnswer({c}, c)
    BY <1>5 DEF DiscoveryInv, ControlsForeign
  <2>2. n = c
    BY <2>1, <1>3 DEF PageAnswer
  <2> QED BY <2>1, <2>2, <1>2
<1> QED BY <1>3, <1>4, <1>5 DEF a, probeParamSubset, responseDiffersFromBaseline,
           isUsefulParamProbeTransition, responseMatchesParamControls

(* A page that only minds what it knows answers like the baseline otherwise. *)
LEMMA SeenIsKnown ==
  ASSUME DiscoveryInv, phase = "probe", ~page.catchAll, method = "GET", NEW g,
         probeParamSubset(g)
  PROVE  Slice(g) \cap page.known # {}
<1> SUFFICES ASSUME Slice(g) \cap page.known = {} PROVE FALSE
  OBVIOUS
<1>1. baseline = NoQuery
  BY DEF DiscoveryInv, SearchStages, BaselineAnswer
<1>2. PageAnswer(Slice(g), paramCandidates[g.from]).status = 200
  BY DEF probeParamSubset, isUsefulParamProbeTransition, PageAnswer
<1>3. PageAnswer(Slice(g), paramCandidates[g.from]) = NoQuery
  BY <1>2 DEF PageAnswer, NoQuery
<1> QED BY <1>1, <1>3 DEF probeParamSubset, responseDiffersFromBaseline

(* What one probe leaves alone.                                              *)
Probing ==
  /\ phase = "probe" /\ work # <<>> /\ requests' = requests + 1
  /\ UNCHANGED <<page, method, wordlist, hints, phase, baseline, controls, toControl>>

LEMMA ProbeKeeps ==
  ASSUME DiscoveryInv, Probing
  PROVE  /\ SamePage /\ ControlsForeign' /\ baseline' = BaselineAnswer
         /\ phase' = "probe" /\ requests' \in Nat /\ SearchStages'
<1>1. SamePage
  BY DEF Probing, SamePage
<1>2. ControlsForeign'
  BY <1>1, ForeignAfter DEF DiscoveryInv, ControlsForeign, Probing
<1>3. baseline' = BaselineAnswer /\ BaselineAnswer' = BaselineAnswer
  BY <1>1, SameSearch DEF DiscoveryInv, SearchStages, Probing
<1>4. SearchStages'
  BY <1>3 DEF SearchStages, Probing
<1> QED BY <1>1, <1>2, <1>3, <1>4 DEF Probing, DiscoveryInv, DiscoveryTypeOK

LEMMA NoHitInv ==
  ASSUME DiscoveryInv, Probing, NoHitIn(Head(work))
  PROVE  DiscoveryInv'
<1> DEFINE g == Head(work)
           rest == Tail(work)
<1>1. SamePage /\ ControlsForeign' /\ SearchStages' /\ phase' = "probe" /\ requests' \in Nat
  BY ProbeKeeps
<1>2. work' = rest /\ paramHits' = paramHits
  BY DEF NoHitIn
<1>3. /\ WellSliced(rest) /\ Apart(rest) /\ Len(rest) = Len(work) - 1
      /\ \A k : Covers(work, k) <=> Covers(rest, k) \/ k \in g.from..g.to
      /\ Pending(rest) \subseteq Pending(work)
  BY TailSlices DEF DiscoveryInv, Probing
<1> HIDE DEF g, rest
<1>4. /\ WellSliced(work)' /\ Apart(work)' /\ Pending(work)' = Pending(rest)
      /\ \A k : Covers(work, k)' <=> Covers(rest, k)
  BY <1>1, <1>2, <1>3, SameSlices
<1>5. DiscoveryTypeOK'
  <2>1. fails' \in 0..MaxFails
    BY DiscoveryAssumption DEF DiscoveryInv, DiscoveryTypeOK, NoHitIn, Fails
  <2> QED BY <1>1, <1>2, <1>4, <2>1 DEF DiscoveryInv, DiscoveryTypeOK, Probing
<1>6. ParamsOnce' /\ HitsProven'
  <2>1. ParamsOnce'
    BY <1>2 DEF DiscoveryInv, ParamsOnce
  <2> QED BY <2>1, <1>2, <1>1, SameSearch DEF DiscoveryInv, HitsProven, Probing
<1>7. HitsTaken'
  BY <1>1, <1>2, <1>3, <1>4, SameSearch DEF DiscoveryInv, HitsTaken
<1>8. NothingLost'
  <2> SUFFICES ASSUME fails' = 0, page'.picky = {}, (\A n \in page.missing : ~Candidate(n))',
                      NEW k \in DOMAIN paramCandidates, paramCandidates[k] \in page.known
               PROVE  IsHit(paramCandidates[k])' \/ Covers(rest, k)
    BY <1>1, <1>4, SameSearch DEF NothingLost, SamePage
  <2>1. fails = 0 /\ ~probeParamSubset(g)
    BY DiscoveryAssumption DEF NoHitIn, Fails, DiscoveryInv, DiscoveryTypeOK, g
  <2>2. page.picky = {} /\ \A n \in page.missing : ~Candidate(n)
    BY <1>1, SameSearch DEF SamePage
  <2>3. IsHit(paramCandidates[k]) \/ Covers(work, k)
    BY <2>1, <2>2 DEF DiscoveryInv, NothingLost, Probing
  <2>4. k \notin g.from..g.to
    BY <2>1, <2>2, KnownIsSeen DEF Probing, g
  <2>5. IsHit(paramCandidates[k]) => IsHit(paramCandidates[k])'
    BY <1>1, <1>2, SameSearch DEF IsHit
  <2> QED BY <2>3, <2>4, <2>5, <1>3
<1>9. InBudget'
  <2>1. IsFiniteSet(Pending(work))
    BY PendingFinite DEF DiscoveryInv
  <2>2. Cardinality(Pending(rest)) <= Cardinality(Pending(work))
        /\ Cardinality(Pending(rest)) \in Nat /\ Cardinality(Pending(work)) \in Nat
    BY <2>1, <1>3, FS_Subset, FS_CardinalityType
  <2>3. Len(work) \in Nat /\ requests \in Nat
    BY HeadSlice DEF Probing, DiscoveryInv, DiscoveryTypeOK
  <2>4. Budget' = Budget /\ Budget \in Nat
    BY <1>1, SameSearch, BudgetParts DEF DiscoveryInv, Budget
  <2>5. ~page.catchAll /\ method = "GET" =>
          requests + Len(work) + 2 * Cardinality(Pending(work)) <= Budget
    BY DEF DiscoveryInv, InBudget, Probing
  <2>6. ~page'.catchAll /\ method' = "GET" =>
          requests' + Len(work') + 2 * Cardinality(Pending(work)') <= Budget'
    BY <2>2, <2>3, <2>4, <2>5, <1>1, <1>2, <1>3, <1>4 DEF Probing
  <2> QED BY <2>6, <1>1 DEF InBudget
<1> QED BY <1>1, <1>4, <1>5, <1>6, <1>7, <1>8, <1>9 DEF DiscoveryInv

LEMMA HitIsInv ==
  ASSUME DiscoveryInv, Probing, HitIs(Head(work))
  PROVE  DiscoveryInv'
<1> DEFINE g == Head(work)
           rest == Tail(work)
           n == paramCandidates[g.from]
<1>1. SamePage /\ ControlsForeign' /\ SearchStages' /\ phase' = "probe" /\ requests' \in Nat
  BY ProbeKeeps
<1>2. work' = rest /\ paramHits' = Append(paramHits, n) /\ fails' = fails
  BY DEF HitIs
<1>3. /\ WellSliced(rest) /\ Apart(rest) /\ Len(rest) = Len(work) - 1
      /\ \A k : Covers(work, k) <=> Covers(rest, k) \/ k \in g.from..g.to
      /\ \A k \in g.from..g.to : ~Covers(rest, k)
      /\ Pending(rest) \subseteq Pending(work)
  BY TailSlices DEF DiscoveryInv, Probing
<1>4. /\ g.from \in DOMAIN paramCandidates /\ g.to = g.from
      /\ g.from \in g.from..g.to /\ Slice(g) = {n} /\ n \in Names
      /\ \A k : k \in g.from..g.to => k = g.from
  <2>1. g.from \in 1..Len(paramCandidates) /\ g.to \in 1..Len(paramCandidates)
        /\ Len(paramCandidates) \in Nat /\ DOMAIN paramCandidates = 1..Len(paramCandidates)
    BY HeadSlice, BudgetParts DEF DiscoveryInv, Probing
  <2>2. g.to = g.from
    BY <2>1 DEF HitIs, Size
  <2>3. g.from..g.to = {g.from}
    BY <2>1, <2>2
  <2>4. n \in Names
    BY <2>1, CandidateList DEF DiscoveryInv, DiscoveryTypeOK
  <2> QED BY <2>1, <2>2, <2>3, <2>4 DEF Slice
<1>5. /\ PageAnswer({n}, n) # baseline /\ PageAnswer({n}, n).status # 404
      /\ PageAnswer({n}, n) \notin controls
  BY <1>4, ZenonT(30) DEF HitIs, probeParamSubset, responseDiffersFromBaseline,
              isUsefulParamProbeTransition, responseMatchesParamControls
<1> HIDE DEF g, rest, n
<1>6. /\ WellSliced(work)' /\ Apart(work)' /\ Pending(work)' = Pending(rest)
      /\ \A k : Covers(work, k)' <=> Covers(rest, k)
  BY <1>1, <1>2, <1>3, SameSlices
<1>7. /\ paramHits' \in Seq(Names) /\ Len(paramHits) \in Nat
      /\ DOMAIN paramHits = 1..Len(paramHits) /\ DOMAIN paramHits' = 1..(Len(paramHits) + 1)
      /\ paramHits'[Len(paramHits) + 1] = n
      /\ \A i \in DOMAIN paramHits : paramHits'[i] = paramHits[i]
  BY <1>2, <1>4 DEF DiscoveryInv, DiscoveryTypeOK
<1>8. \A i \in DOMAIN paramHits' : i = Len(paramHits) + 1 \/ i \in DOMAIN paramHits
  BY <1>7
<1>9. DiscoveryTypeOK'
  BY <1>1, <1>2, <1>6, <1>7 DEF DiscoveryInv, DiscoveryTypeOK, Probing
<1>10. \A i \in DOMAIN paramHits : paramHits[i] # n
  <2> TAKE i \in DOMAIN paramHits
  <2>1. PICK k \in DOMAIN paramCandidates : paramCandidates[k] = paramHits[i] /\ ~Covers(work, k)
    BY DEF DiscoveryInv, HitsTaken
  <2>2. k # g.from
    BY <2>1, <1>3, <1>4
  <2> QED BY <2>1, <2>2, <1>4, CandidateList DEF DiscoveryInv, DiscoveryTypeOK, n
<1>11. ParamsOnce'
  BY <1>7, <1>8, <1>10 DEF DiscoveryInv, ParamsOnce
<1>12. HitsProven'
  <2> SUFFICES ASSUME NEW i \in DOMAIN paramHits'
               PROVE  /\ PageAnswer({paramHits'[i]}, paramHits'[i]).status # 404
                      /\ PageAnswer({paramHits'[i]}, paramHits'[i]) # baseline
                      /\ PageAnswer({paramHits'[i]}, paramHits'[i]) \notin controls
    BY <1>1, SameSearch DEF HitsProven, Probing
  <2>1. CASE i = Len(paramHits) + 1
    <3>1. paramHits'[i] = n
      BY <2>1, <1>7
    <3> QED BY <3>1, <1>5
  <2>2. CASE i \in DOMAIN paramHits
    <3>1. paramHits'[i] = paramHits[i]
      BY <2>2, <1>7
    <3> QED BY <2>2, <3>1 DEF DiscoveryInv, HitsProven
  <2> QED BY <2>1, <2>2, <1>8
<1>13. HitsTaken'
  <2> SUFFICES ASSUME NEW i \in DOMAIN paramHits'
               PROVE  \E k \in DOMAIN paramCandidates :
                          paramCandidates[k] = paramHits'[i] /\ ~Covers(rest, k)
    BY <1>1, <1>6, SameSearch DEF HitsTaken
  <2>1. CASE i = Len(paramHits) + 1
    BY <2>1, <1>3, <1>4, <1>7 DEF n
  <2>2. CASE i \in DOMAIN paramHits
    BY <2>2, <1>3, <1>7 DEF DiscoveryInv, HitsTaken
  <2> QED BY <2>1, <2>2, <1>8
<1>14. NothingLost'
  <2> SUFFICES ASSUME fails' = 0, page'.picky = {}, (\A m \in page.missing : ~Candidate(m))',
                      NEW k \in DOMAIN paramCandidates, paramCandidates[k] \in page.known
               PROVE  IsHit(paramCandidates[k])' \/ Covers(rest, k)
    BY <1>1, <1>6, SameSearch DEF NothingLost, SamePage
  <2>1. page.picky = {} /\ \A m \in page.missing : ~Candidate(m)
    BY <1>1, SameSearch DEF SamePage
  <2>2. IsHit(paramCandidates[k]) \/ Covers(work, k)
    BY <1>2, <2>1 DEF DiscoveryInv, NothingLost, Probing
  <2>3. \A m : IsHit(m)' <=> \E i \in DOMAIN paramHits' : paramHits'[i] = m
    BY DEF IsHit
  <2>4. CASE k = g.from
    BY <2>3, <2>4, <1>1, <1>7, SameSearch DEF n
  <2>5. CASE IsHit(paramCandidates[k])
    <3>1. PICK i \in DOMAIN paramHits : paramHits[i] = paramCandidates[k]
      BY <2>5 DEF IsHit
    <3>2. i \in DOMAIN paramHits' /\ paramHits'[i] = paramCandidates[k]
      BY <3>1, <1>7
    <3> QED BY <3>2, <2>3, <1>1, SameSearch
  <2> QED BY <2>2, <2>4, <2>5, <1>3, <1>4
<1>15. InBudget'
  <2>1. Cardinality(Pending(rest)) <= Cardinality(Pending(work))
        /\ Cardinality(Pending(rest)) \in Nat /\ Cardinality(Pending(work)) \in Nat
    BY <1>3, PendingFinite, FS_Subset, FS_CardinalityType DEF DiscoveryInv
  <2>2. Len(work) \in Nat /\ requests \in Nat
    BY HeadSlice DEF Probing, DiscoveryInv, DiscoveryTypeOK
  <2>3. Budget' = Budget /\ Budget \in Nat
    BY <1>1, SameSearch, BudgetParts DEF DiscoveryInv, Budget
  <2>4. ~page.catchAll /\ method = "GET" =>
          requests + Len(work) + 2 * Cardinality(Pending(work)) <= Budget
    BY DEF DiscoveryInv, InBudget, Probing
  <2>5. ~page'.catchAll /\ method' = "GET" =>
          requests' + Len(work') + 2 * Cardinality(Pending(work)') <= Budget'
    BY <2>1, <2>2, <2>3, <2>4, <1>1, <1>2, <1>3, <1>6 DEF Probing
  <2> QED BY <2>5, <1>1 DEF InBudget
<1> QED BY <1>1, <1>6, <1>9, <1>11, <1>12, <1>13, <1>14, <1>15 DEF DiscoveryInv

LEMMA HitWithinInv ==
  ASSUME DiscoveryInv, Probing, HitWithin(Head(work))
  PROVE  DiscoveryInv'
<1> DEFINE g == Head(work)
           halved == Halves(g) \o Tail(work)
<1>1. SamePage /\ ControlsForeign' /\ SearchStages' /\ phase' = "probe" /\ requests' \in Nat
  BY ProbeKeeps
<1>2. work' = halved /\ paramHits' = paramHits /\ fails' = fails
  BY DEF HitWithin
<1>3. /\ WellSliced(halved) /\ Apart(halved) /\ Len(halved) = Len(work) + 1
      /\ \A k : Covers(halved, k) <=> Covers(work, k)
      /\ Slice(g) \cap page.known # {} =>
             Cardinality(Pending(halved)) + 1 <= Cardinality(Pending(work))
  BY HalvedSlices DEF DiscoveryInv, Probing, HitWithin
<1>4. ~page.catchAll /\ method = "GET" => Slice(g) \cap page.known # {}
  BY SeenIsKnown DEF HitWithin, Probing
<1> HIDE DEF g, halved
<1>5. /\ WellSliced(work)' /\ Apart(work)' /\ Pending(work)' = Pending(halved)
      /\ \A k : Covers(work, k)' <=> Covers(work, k)
  BY <1>1, <1>2, <1>3, SameSlices
<1>6. DiscoveryTypeOK'
  BY <1>1, <1>2, <1>5 DEF DiscoveryInv, DiscoveryTypeOK, Probing
<1>7. ParamsOnce' /\ HitsProven'
  <2>1. ParamsOnce'
    BY <1>2 DEF DiscoveryInv, ParamsOnce
  <2> QED BY <2>1, <1>2, <1>1, SameSearch DEF DiscoveryInv, HitsProven, Probing
<1>8. HitsTaken'
  BY <1>1, <1>2, <1>5, SameSearch DEF DiscoveryInv, HitsTaken
<1>9. NothingLost'
  <2> SUFFICES ASSUME fails' = 0, page'.picky = {}, (\A m \in page.missing : ~Candidate(m))',
                      NEW k \in DOMAIN paramCandidates, paramCandidates[k] \in page.known
               PROVE  IsHit(paramCandidates[k])' \/ Covers(work, k)
    BY <1>1, <1>5, SameSearch DEF NothingLost, SamePage
  <2>1. page.picky = {} /\ \A m \in page.missing : ~Candidate(m)
    BY <1>1, SameSearch DEF SamePage
  <2>2. IsHit(paramCandidates[k]) \/ Covers(work, k)
    BY <1>2, <2>1 DEF DiscoveryInv, NothingLost, Probing
  <2>3. IsHit(paramCandidates[k]) => IsHit(paramCandidates[k])'
    BY <1>1, <1>2, SameSearch DEF IsHit
  <2> QED BY <2>2, <2>3
<1>10. InBudget'
  <2>1. Cardinality(Pending(halved)) \in Nat /\ Cardinality(Pending(work)) \in Nat
    BY PendingFinite, FS_CardinalityType DEF DiscoveryInv
  <2>2. Len(work) \in Nat /\ requests \in Nat
    BY HeadSlice DEF Probing, DiscoveryInv, DiscoveryTypeOK
  <2>3. Budget' = Budget /\ Budget \in Nat
    BY <1>1, SameSearch, BudgetParts DEF DiscoveryInv, Budget
  <2>4. ~page.catchAll /\ method = "GET" =>
          requests + Len(work) + 2 * Cardinality(Pending(work)) <= Budget
    BY DEF DiscoveryInv, InBudget, Probing
  <2>5. ~page'.catchAll /\ method' = "GET" =>
          requests' + Len(work') + 2 * Cardinality(Pending(work)') <= Budget'
    BY <2>1, <2>2, <2>3, <2>4, <1>1, <1>2, <1>3, <1>4, <1>5 DEF Probing, SamePage
  <2> QED BY <2>5, <1>1 DEF InBudget
<1> QED BY <1>1, <1>5, <1>6, <1>7, <1>8, <1>9, <1>10 DEF DiscoveryInv

LEMMA DiscoveryDoneInv ==
  ASSUME DiscoveryInv, phase = "probe", work = <<>>, phase' = "done",
         UNCHANGED <<page, method, wordlist, hints, baseline, controls, toControl, work,
                     paramHits, fails, requests>>
  PROVE  DiscoveryInv'
<1>1. SamePage /\ work' = work
  BY DEF SamePage
<1>2. /\ WellSliced(work)' /\ Apart(work)' /\ Pending(work)' = Pending(work)
      /\ \A k : Covers(work, k)' <=> Covers(work, k)
  BY <1>1, SameSlices DEF DiscoveryInv, DiscoveryTypeOK
<1>3. DiscoveryTypeOK'
  BY <1>2 DEF DiscoveryInv, DiscoveryTypeOK
<1>4. ControlsForeign' /\ ParamsOnce'
  BY <1>1, ForeignAfter DEF DiscoveryInv, ControlsForeign, ParamsOnce
<1>5. SearchStages' /\ HitsProven'
  BY <1>1, SameSearch DEF DiscoveryInv, SearchStages, HitsProven
<1>6. HitsTaken'
  BY <1>1, <1>2, SameSearch DEF DiscoveryInv, HitsTaken
<1>7. NothingLost'
  <2>1. \A m : IsHit(m)' <=> IsHit(m)
    BY DEF IsHit
  <2> QED BY <2>1, <1>1, <1>2, SameSearch DEF DiscoveryInv, NothingLost
<1>8. InBudget'
  BY <1>1, <1>2, SameSearch DEF DiscoveryInv, InBudget
<1> QED BY <1>2, <1>3, <1>4, <1>5, <1>6, <1>7, <1>8 DEF DiscoveryInv

LEMMA DiscoveryStep ==
  DiscoveryInv /\ [ProbeHiddenParams]_discoveryVars => DiscoveryInv'
<1> SUFFICES ASSUME DiscoveryInv, [ProbeHiddenParams]_discoveryVars PROVE DiscoveryInv'
  OBVIOUS
<1>1. CASE Baseline
  BY <1>1, BaselineInv
<1>2. CASE paramNoiseControls
  <2>1. CASE \E c \in toControl : ControlAnswer(c)
    BY <2>1, ControlInv
  <2>2. CASE ~\E c \in toControl : ControlAnswer(c)
    BY <1>2, <2>2, ChunksInv DEF paramNoiseControls
  <2> QED BY <2>1, <2>2
<1>3. CASE discoverParamHits
  <2>1. CASE work = <<>>
    BY <1>3, <2>1, DiscoveryDoneInv DEF discoverParamHits
  <2>2. CASE work # <<>>
    <3>1. Probing /\ (NoHitIn(Head(work)) \/ HitIs(Head(work)) \/ HitWithin(Head(work)))
      BY <1>3, <2>2 DEF discoverParamHits, Probing
    <3> QED BY <3>1, NoHitInv, HitIsInv, HitWithinInv
  <2> QED BY <2>1, <2>2
<1>4. CASE UNCHANGED discoveryVars
  <2>1. SamePage /\ work' = work
    BY <1>4 DEF discoveryVars, SamePage
  <2>2. /\ WellSliced(work)' <=> WellSliced(work)
        /\ Apart(work)' <=> Apart(work)
        /\ Pending(work)' = Pending(work)
        /\ \A k : Covers(work, k)' <=> Covers(work, k)
    BY <2>1, SameSlices
  <2>3. DiscoveryTypeOK'
    BY <1>4, <2>2 DEF discoveryVars, DiscoveryInv, DiscoveryTypeOK
  <2>4. ControlsForeign' /\ ParamsOnce'
    BY <1>4, <2>1, ForeignAfter DEF discoveryVars, DiscoveryInv, ControlsForeign, ParamsOnce
  <2>5. SearchStages' /\ HitsProven' /\ HitsTaken'
    BY <1>4, <2>1, <2>2, SameSearch DEF discoveryVars, DiscoveryInv, SearchStages, HitsProven, HitsTaken
  <2>6. NothingLost'
    <3>1. \A m : IsHit(m)' <=> IsHit(m)
      BY <1>4 DEF discoveryVars, IsHit
    <3> QED BY <3>1, <1>4, <2>1, <2>2, SameSearch DEF discoveryVars, DiscoveryInv, NothingLost
  <2>7. InBudget'
    BY <1>4, <2>1, <2>2, SameSearch DEF discoveryVars, DiscoveryInv, InBudget
  <2>8. Apart(work)'
    BY <2>2 DEF DiscoveryInv
  <2> QED BY <2>3, <2>4, <2>5, <2>6, <2>7, <2>8 DEF DiscoveryInv
<1> QED BY <1>1, <1>2, <1>3, <1>4 DEF ProbeHiddenParams

LEMMA DiscoveryInvSound == DiscoveryInv => ParamsSound
<1> SUFFICES ASSUME DiscoveryInv PROVE ParamsSound
  OBVIOUS
<1>1. ParamsReal
  <2> SUFFICES ASSUME Unknown \in controls \/ (method = "GET" /\ ~page.catchAll),
                      NEW i \in DOMAIN paramHits
               PROVE  paramHits[i] \in page.known \ page.missing
    BY DEF ParamsReal, IsHit
  <2> DEFINE n == paramHits[i]
             a == PageAnswer({n}, n)
  <2>1. a.status # 404 /\ a # baseline /\ a \notin controls
    BY DEF DiscoveryInv, HitsProven
  <2>2. baseline = BaselineAnswer
    BY DEF DiscoveryInv, SearchStages
  <2>3. a # Unknown
    <3>1. method = "GET" /\ ~page.catchAll => Unknown = NoQuery /\ BaselineAnswer = NoQuery
      <4>1. page.catchAll \in BOOLEAN
        BY DiscoveryAssumption DEF DiscoveryInv, DiscoveryTypeOK
      <4>2. ~page.catchAll => page.catchAll = FALSE
        BY <4>1
      <4>3. Unknown = [status |-> 200, seen |-> {}, query |-> page.catchAll]
        BY DEF Unknown, NoQuery
      <4> QED BY <4>2, <4>3 DEF NoQuery, BaselineAnswer
    <3> QED BY <3>1, <2>1, <2>2
  <2>4. n \notin page.missing /\ a.status = 200
    BY <2>1 DEF PageAnswer
  <2>5. n \notin page.known => a = Unknown
    <3>1. page.catchAll \in BOOLEAN
      BY DiscoveryAssumption DEF DiscoveryInv, DiscoveryTypeOK
    <3>2. Unknown = [status |-> 200, seen |-> {}, query |-> page.catchAll]
      BY DEF Unknown, NoQuery
    <3>3. a = [status |-> a.status, seen |-> a.seen, query |-> a.query]
          /\ a.seen = ({n} \cap page.known) \ (page.picky \ {n})
          /\ a.query = (page.catchAll /\ {n} # {})
      BY DEF PageAnswer
    <3>4. a.query = page.catchAll
      BY <3>1, <3>3
    <3> HIDE DEF a
    <3> QED BY <2>4, <3>2, <3>3, <3>4
  <2> QED BY <2>3, <2>4, <2>5
<1>2. ParamsComplete
  <2> SUFFICES ASSUME phase = "done", fails = 0, page.picky = {},
                      \A m \in page.missing : ~Candidate(m),
                      NEW n \in page.known, Candidate(n)
               PROVE  IsHit(n)
    BY DEF ParamsComplete
  <2>1. PICK k \in DOMAIN paramCandidates : paramCandidates[k] = n
    BY DEF Candidate
  <2>2. ~Covers(work, k)
    BY DEF DiscoveryInv, SearchStages, Covers
  <2> QED BY <2>1, <2>2 DEF DiscoveryInv, NothingLost
<1>3. ParamsCheap
  <2> SUFFICES ASSUME ~page.catchAll, method = "GET"
               PROVE  requests <= Budget
    BY BudgetParts DEF ParamsCheap, Budget, DiscoveryInv
  <2>1. /\ Cardinality(Controls) \in Nat /\ ChunkCount(Len(paramCandidates)) \in Nat
        /\ Halvings[ChunkSize] * Cardinality(page.known) \in Nat /\ requests \in Nat
    BY BudgetParts DEF DiscoveryInv, DiscoveryTypeOK
  <2>2. Budget >= 1 + Cardinality(Controls) /\ Budget \in Nat
    BY <2>1 DEF Budget
  <2>3. CASE phase = "baseline"
    BY <2>2, <2>3 DEF DiscoveryInv, InBudget
  <2>4. CASE phase = "control"
    <3>1. Cardinality(toControl) \in Nat
      BY DiscoveryAssumption, FS_Subset, FS_CardinalityType DEF DiscoveryInv, DiscoveryTypeOK
    <3> QED BY <3>1, <2>1, <2>2, <2>4 DEF DiscoveryInv, InBudget
  <2>5. CASE phase \in {"probe", "done"}
    <3>1. Cardinality(Pending(work)) \in Nat /\ Len(work) \in Nat
      BY PendingFinite, FS_CardinalityType DEF DiscoveryInv, DiscoveryTypeOK, WellSliced
    <3> QED BY <3>1, <2>1, <2>2, <2>5 DEF DiscoveryInv, InBudget
  <2> QED BY <2>3, <2>4, <2>5 DEF DiscoveryInv, DiscoveryTypeOK
<1> QED BY <1>1, <1>2, <1>3 DEF ParamsSound, DiscoveryInv

(* The inductive invariant of the search on one page (paramfuzz.go).          *)
THEOREM DiscoveryInvariant == DiscoverySafety => []DiscoveryInv
<1> QED BY DiscoveryInitInv, DiscoveryStep, PTL DEF DiscoverySafety

(* What the search reports is so and is all there is, each name once, for a   *)
(* price that grows with the logarithm of a chunk only (discoverParamHits).   *)
THEOREM ParamsAreSound == DiscoverySafety => []ParamsSound
<1> QED BY DiscoveryInvariant, DiscoveryInvSound, PTL
-----------------------------------------------------------------------------
(* The replay under several roles.                                           *)

AuthSafety == AuthInit /\ [][AuthNext]_authVars

(* A slot is empty or holds the page of its own role, and what was judged is  *)
(* judged after all of them came.                                            *)
SlotsOwn ==
    /\ \E size \in Nat \ {0} : DOMAIN roles = 1..size
    /\ \A i \in DOMAIN roles : slots[i] \in {NoPage, path.page[roles[i].name]}
    /\ slots = [i \in DOMAIN roles |-> slots[i]]
    /\ seen # <<>> \/ report # <<>> => Joined

AuthInv == AuthTypeOK /\ SlotsOwn /\ AuthFindingTrue /\ AuthNothingHidden

LEMMA FirstLast ==
  ASSUME NEW size \in Nat, NEW S, S \subseteq 1..size, S # {}
  PROVE  FirstOf(S) \in S /\ LastOf(S) \in S
<1>1. \E i \in S : \A j \in S : i <= j
  <2>1. S \subseteq Nat
    OBVIOUS
  <2> QED BY <2>1, LeastIndex
<1>2. \E i \in S : \A j \in S : j <= i
  <2> DEFINE T == {size - i : i \in S}
  <2>1. T \subseteq Nat /\ T # {}
    <3>1. \A i \in S : size - i \in Nat
      OBVIOUS
    <3> QED BY <3>1
  <2>2. PICK x \in T : \A y \in T : x <= y
    BY <2>1, LeastIndex
  <2>3. PICK i \in S : x = size - i
    OBVIOUS
  <2>4. \A j \in S : size - i <= size - j
    BY <2>2, <2>3
  <2>5. \A j \in S : j <= i
    BY <2>4
  <2> QED BY <2>5
<1> QED BY <1>1, <1>2 DEF FirstOf, LastOf

LEMMA Picked ==
  ASSUME SlotsOwn, NEW on, on \subseteq DOMAIN roles, on # {}
  PROVE  /\ pickAuthRoleResponse(on, 1) \in on \cup {0}
         /\ pickAuthRoleResponse(on, 2) \in on
         /\ \A i \in on : \A level :
                roles[i].level = level /\ (\A k \in on : roles[k].level = level => k = i)
                => pickAuthRoleResponse(on, level) = i
<1>1. PICK size \in Nat : DOMAIN roles = 1..size
  BY DEF SlotsOwn
<1>2. \A S : S \subseteq on /\ S # {} => FirstOf(S) \in S /\ LastOf(S) \in S
  BY <1>1, FirstLast
<1>3. \A level : {i \in on : roles[i].level = level} \subseteq on
  OBVIOUS
<1>4. on \ {FirstOf(on)} \subseteq on
  OBVIOUS
<1>5. pickAuthRoleResponse(on, 1) \in on \cup {0}
  BY <1>2, <1>3, <1>4 DEF pickAuthRoleResponse
<1>6. pickAuthRoleResponse(on, 2) \in on
  BY <1>2, <1>3 DEF pickAuthRoleResponse
<1>7. ASSUME NEW i \in on, NEW level, roles[i].level = level,
             \A k \in on : roles[k].level = level => k = i
      PROVE  pickAuthRoleResponse(on, level) = i
  <2>1. {k \in on : roles[k].level = level} = {i}
    BY <1>7
  <2>2. FirstOf({i}) = i
    BY <1>2
  <2> QED BY <2>1, <2>2 DEF pickAuthRoleResponse
<1> QED BY <1>5, <1>6, <1>7

LEMMA JudgedTrue ==
  ASSUME SlotsOwn, NEW on, on \subseteq DOMAIN roles, on # {}
  PROVE  FindingTrue(evaluateAuthMatrixResponses(on))
<1> DEFINE user == pickAuthRoleResponse(on, 1)
           admin == pickAuthRoleResponse(on, 2)
           v == evaluateAuthMatrixResponses(on)
<1>1. user \in on \cup {0} /\ admin \in on
  BY Picked
<1>2. SUFFICES ASSUME v.finding # NoFinding PROVE FindingTrue(v)
  BY DEF FindingTrue
<1>3. user # 0 /\ slots[user] # NoPage /\ slots[admin] # NoPage
  BY <1>2 DEF evaluateAuthMatrixResponses, Nothing
<1>4. /\ user \in DOMAIN roles /\ admin \in DOMAIN roles
      /\ slots[user] = path.page[roles[user].name] /\ slots[admin] = path.page[roles[admin].name]
  BY <1>1, <1>3 DEF SlotsOwn
<1> HIDE DEF user, admin
<1>5. CASE slots[user].status = 403 /\ slots[admin].status = 200
  <2>1. v = [finding |-> [label |-> "escalation", user |-> roles[user].name,
                          admin |-> roles[admin].name], selected |-> roles[admin].name]
    BY <1>3, <1>5 DEF evaluateAuthMatrixResponses, user, admin
  <2> HIDE DEF v
  <2> QED BY <2>1, <1>3, <1>4, <1>5 DEF FindingTrue, RoleAnswered
<1>6. CASE ~(slots[user].status = 403 /\ slots[admin].status = 200)
  <2>1. /\ path.admin /\ slots[user] = slots[admin]
        /\ v = [finding |-> [label |-> "same", user |-> roles[user].name,
                             admin |-> roles[admin].name], selected |-> roles[admin].name]
    BY <1>2, <1>3, <1>6 DEF evaluateAuthMatrixResponses, user, admin, Nothing
  <2> HIDE DEF v
  <2> QED BY <2>1, <1>3, <1>4 DEF FindingTrue, RoleAnswered
<1> QED BY <1>5, <1>6

LEMMA NothingTrue == FindingTrue([Nothing EXCEPT !.selected = "error"])
  BY DEF FindingTrue, Nothing

LEMMA JudgedAll ==
  ASSUME SlotsOwn, NEW i \in Successes, NEW j \in Successes, OnlyOfLevel(i, 1), OnlyOfLevel(j, 2)
  PROVE  evaluateAuthMatrixResponses(Successes).finding # NoFinding <=>
            \/ slots[i].status = 403 /\ slots[j].status = 200
            \/ path.admin /\ slots[i] = slots[j]
<1>1. Successes \subseteq DOMAIN roles /\ Successes # {}
  BY DEF Successes
<1>2. pickAuthRoleResponse(Successes, 1) = i /\ pickAuthRoleResponse(Successes, 2) = j
  BY <1>1, Picked DEF OnlyOfLevel
<1>3. slots[i] # NoPage /\ slots[j] # NoPage
  BY DEF Successes
<1>4. i # 0
  BY <1>1 DEF SlotsOwn
<1> QED BY <1>2, <1>3, <1>4 DEF evaluateAuthMatrixResponses, Nothing, NoFinding

-----------------------------------------------------------------------------
LEMMA AuthInitInv == AuthInit => AuthInv
<1> SUFFICES ASSUME AuthInit PROVE AuthInv
  OBVIOUS
<1>1. PICK m \in Matrices : roles \in normalizeAuthRoles(m)
  BY DEF AuthInit
<1>2. roles \in [1..Cardinality(m) -> m] /\ Cardinality(m) \in Nat \ {0}
  <2>1. IsFiniteSet(m) /\ m # {}
    BY MatrixAssumption
  <2>2. Cardinality(m) \in Nat /\ Cardinality(m) # 0
    BY <2>1, FS_CardinalityType, FS_EmptySet
  <2> QED BY <2>2, <1>1 DEF normalizeAuthRoles
<1>3. AuthTypeOK
  BY DEF AuthInit, AuthTypeOK
<1>4. SlotsOwn
  BY <1>2 DEF AuthInit, SlotsOwn
<1>5. AuthFindingTrue /\ AuthNothingHidden
  BY DEF AuthInit, AuthFindingTrue, AuthNothingHidden
<1> QED BY <1>3, <1>4, <1>5 DEF AuthInv

LEMMA RoleAnswersInv ==
  ASSUME AuthInv, NEW i \in DOMAIN roles, RoleAnswers(i)
  PROVE  AuthInv'
<1> USE DEF RoleAnswers
<1>1. seen = <<>> /\ report = <<>>
  BY DEF AuthInv, SlotsOwn, Joined
<1>2. AuthFindingTrue' /\ AuthNothingHidden'
  BY <1>1 DEF AuthFindingTrue, AuthNothingHidden
<1>3. PICK p \in {path.page[roles[i].name], NoPage} : slots' = [slots EXCEPT ![i] = p]
  BY DEF Slot
<1>4. SlotsOwn'
  BY <1>1, <1>3 DEF AuthInv, SlotsOwn, NoPage
<1>5. AuthTypeOK'
  BY <1>1, <1>3 DEF AuthInv, AuthTypeOK
<1> QED BY <1>2, <1>4, <1>5 DEF AuthInv

LEMMA SameFindings ==
  ASSUME UNCHANGED <<path, roles, slots, arrived>>
  PROVE  /\ \A v : FindingTrue(v)' <=> FindingTrue(v)
         /\ Successes' = Successes /\ (Joined' <=> Joined)
         /\ \A i, level : OnlyOfLevel(i, level)' <=> OnlyOfLevel(i, level)
<1>1. Successes' = Successes /\ (Joined' <=> Joined)
  BY DEF Successes, Joined
<1>2. \A v : FindingTrue(v)' <=> FindingTrue(v)
  BY DEF FindingTrue, RoleAnswered
<1>3. \A i, level : OnlyOfLevel(i, level)' <=> OnlyOfLevel(i, level)
  BY <1>1 DEF OnlyOfLevel
<1> QED BY <1>1, <1>2, <1>3

LEMMA ExecuteInv ==
  ASSUME AuthInv, executeAuthMatrixRequests
  PROVE  AuthInv'
<1> USE DEF executeAuthMatrixRequests
<1>1. UNCHANGED <<path, roles, slots, arrived>> /\ report' = report /\ Joined
  OBVIOUS
<1>2. PICK v : /\ seen' = <<v>> /\ FindingTrue(v)
               /\ v = IF Successes = {} THEN [Nothing EXCEPT !.selected = "error"]
                      ELSE evaluateAuthMatrixResponses(Successes)
  <2>1. Successes \subseteq DOMAIN roles
    BY DEF Successes
  <2>2. CASE Successes = {}
    BY <2>2, NothingTrue
  <2>3. CASE Successes # {}
    BY <2>1, <2>3, JudgedTrue DEF AuthInv
  <2> QED BY <2>2, <2>3
<1>3. DOMAIN seen' = {1} /\ seen'[1] = v /\ Len(seen') = 1
  BY <1>2
<1>4. AuthTypeOK'
  BY <1>1, <1>3 DEF AuthInv, AuthTypeOK
<1>5. SlotsOwn'
  BY <1>1 DEF AuthInv, SlotsOwn, Joined
<1>6. AuthFindingTrue'
  <2>1. \A k \in DOMAIN report' : FindingTrue(report'[k])
    BY <1>1 DEF AuthInv, AuthFindingTrue
  <2>2. \A k \in DOMAIN seen' : FindingTrue(seen'[k])
    BY <1>2, <1>3
  <2> QED BY <2>1, <2>2, <1>1, SameFindings DEF AuthFindingTrue
<1>7. AuthNothingHidden'
  <2> SUFFICES ASSUME NEW i \in Successes, NEW j \in Successes,
                      OnlyOfLevel(i, 1), OnlyOfLevel(j, 2)
               PROVE  v.finding # NoFinding <=>
                        \/ slots[i].status = 403 /\ slots[j].status = 200
                        \/ path.admin /\ slots[i] = slots[j]
    BY <1>1, <1>3, SameFindings DEF AuthNothingHidden
  <2> QED BY <1>2, JudgedAll DEF AuthInv
<1> QED BY <1>4, <1>5, <1>6, <1>7 DEF AuthInv

LEMMA ReportInv ==
  ASSUME AuthInv, testAuthMatrixReport
  PROVE  AuthInv'
<1> USE DEF testAuthMatrixReport
<1>1. UNCHANGED <<path, roles, slots, arrived>> /\ seen' = seen /\ Joined
  OBVIOUS
<1>2. DOMAIN roles # {}
  BY DEF AuthInv, SlotsOwn
<1>3. PICK v : report' = <<v>> /\ FindingTrue(v)
  BY <1>2, JudgedTrue DEF AuthInv
<1>4. DOMAIN report' = {1} /\ report'[1] = v /\ Len(report') = 1
  BY <1>3
<1>5. AuthTypeOK'
  BY <1>1, <1>4 DEF AuthInv, AuthTypeOK
<1>6. SlotsOwn'
  BY <1>1 DEF AuthInv, SlotsOwn, Joined
<1>7. AuthFindingTrue'
  <2>1. \A k \in DOMAIN seen' : FindingTrue(seen'[k])
    BY <1>1 DEF AuthInv, AuthFindingTrue
  <2>2. \A k \in DOMAIN report' : FindingTrue(report'[k])
    BY <1>3, <1>4
  <2> QED BY <2>1, <2>2, <1>1, SameFindings DEF AuthFindingTrue
<1>8. AuthNothingHidden'
  BY <1>1, SameFindings DEF AuthInv, AuthNothingHidden
<1> QED BY <1>5, <1>6, <1>7, <1>8 DEF AuthInv

LEMMA AuthStep == AuthInv /\ [AuthNext]_authVars => AuthInv'
<1> SUFFICES ASSUME AuthInv, [AuthNext]_authVars PROVE AuthInv'
  OBVIOUS
<1>1. CASE AuthNext
  BY <1>1, RoleAnswersInv, ExecuteInv, ReportInv DEF AuthNext
<1>2. CASE UNCHANGED authVars
  <2>1. UNCHANGED <<path, roles, slots, arrived, seen, report>>
    BY <1>2 DEF authVars
  <2>2. AuthTypeOK' /\ SlotsOwn'
    BY <2>1 DEF AuthInv, AuthTypeOK, SlotsOwn, Joined
  <2>3. AuthFindingTrue' /\ AuthNothingHidden'
    BY <2>1, SameFindings DEF AuthInv, AuthFindingTrue, AuthNothingHidden
  <2> QED BY <2>2, <2>3 DEF AuthInv
<1> QED BY <1>1, <1>2

(* The inductive invariant of the replay (authmatrix.go).                     *)
THEOREM AuthInvariant == AuthSafety => []AuthInv
<1> QED BY AuthInitInv, AuthStep, PTL DEF AuthSafety

(* A finding is about pages that its two roles were given, and a failed role  *)
(* hides none (executeAuthMatrixRequests, evaluateAuthMatrixResponses).       *)
THEOREM MatrixIsSound == AuthSafety => []MatrixSound
<1>1. AuthInv => MatrixSound
  BY DEF AuthInv, MatrixSound
<1> QED BY <1>1, AuthInvariant, PTL

-----------------------------------------------------------------------------
(* The timing oracle.                                                         *)

TimingSafety == TimingInit /\ [][TimingNext]_timingVars

(* A verdict is about the samples that are still in hand.                     *)
TimingInv ==
    /\ TimingTypeOK /\ trim \in BOOLEAN /\ repeatN \in RepeatNs /\ target \in RepeatNs \cup {0}
    /\ target > 0 => baselineSamples # <<>>
    /\ oracleHit \in {"normal", "anomaly"} =>
          /\ baselineSamples # <<>> /\ samples # <<>>
          /\ oracleHit = "anomaly" <=> IsAnomaly(baselineSamples, Judged(samples))

LEMMA PartsCounted ==
  ASSUME NEW s \in Seq(Nat), NEW x
  PROVE  /\ DOMAIN s = 1..Len(s) /\ Len(s) \in Nat
         /\ \A i \in DOMAIN s : s[i] \in Nat
         /\ IsFiniteSet(DOMAIN s) /\ Cardinality(DOMAIN s) = Len(s)
         /\ \A S : S \subseteq DOMAIN s => IsFiniteSet(S) /\ Cardinality(S) \in 0..Len(s)
         /\ Cardinality(Below(s, x)) \in 0..Len(s) /\ Cardinality(UpToValue(s, x)) \in 0..Len(s)
<1>1. /\ DOMAIN s = 1..Len(s) /\ Len(s) \in Nat
      /\ \A i \in DOMAIN s : s[i] \in Nat
  OBVIOUS
<1>2. IsFiniteSet(1..Len(s)) /\ Cardinality(1..Len(s)) = Len(s)
  <2>1. /\ IsFiniteSet(1..Len(s))
        /\ Cardinality(1..Len(s)) = IF 1 > Len(s) THEN 0 ELSE Len(s) - 1 + 1
    BY <1>1, FS_Interval
  <2> QED BY <1>1, <2>1
<1>3. \A S : S \subseteq DOMAIN s => IsFiniteSet(S) /\ Cardinality(S) \in 0..Len(s)
  <2> TAKE S
  <2> HAVE S \subseteq DOMAIN s
  <2>1. IsFiniteSet(S) /\ Cardinality(S) <= Cardinality(1..Len(s))
    BY <1>1, <1>2, FS_Subset
  <2>2. Cardinality(S) \in Nat
    BY <2>1, FS_CardinalityType
  <2> QED BY <1>1, <1>2, <2>1, <2>2
<1>4. Below(s, x) \subseteq DOMAIN s /\ UpToValue(s, x) \subseteq DOMAIN s
  BY DEF Below, UpToValue
<1> QED BY <1>1, <1>2, <1>3, <1>4

LEMMA SmallerPart ==
  ASSUME NEW s \in Seq(Nat), NEW S, NEW T, S \subseteq T, T \subseteq DOMAIN s
  PROVE  /\ Cardinality(S) <= Cardinality(T)
         /\ S # T => Cardinality(S) < Cardinality(T)
<1>1. IsFiniteSet(T)
  BY PartsCounted
<1> QED BY <1>1, FS_Subset, FS_CardinalityType

(* The position with the fewest others above it.                              *)
LEMMA NthExists ==
  ASSUME NEW s \in Seq(Nat), NEW k \in 1..Len(s)
  PROVE  \E x \in {s[i] : i \in DOMAIN s} : IsNth(s, k, x)
<1> DEFINE Up(i) == UpToValue(s, s[i])
           Enough == {i \in DOMAIN s : k <= Cardinality(Up(i))}
<1>0. /\ DOMAIN s = 1..Len(s) /\ Len(s) \in Nat
      /\ \A i \in DOMAIN s : s[i] \in Nat
      /\ Cardinality(DOMAIN s) = Len(s)
      /\ \A x : Cardinality(Below(s, x)) \in 0..Len(s) /\ Cardinality(UpToValue(s, x)) \in 0..Len(s)
  BY PartsCounted
<1>1. \A i, j \in DOMAIN s : s[i] < s[j] => Cardinality(Up(i)) < Cardinality(Up(j))
  <2> TAKE i, j \in DOMAIN s
  <2> HAVE s[i] < s[j]
  <2>1. Up(i) \subseteq Up(j) /\ Up(j) \subseteq DOMAIN s /\ j \in Up(j) /\ j \notin Up(i)
    BY <1>0 DEF UpToValue
  <2> QED BY <2>1, SmallerPart
<1>2. Enough # {}
  <2> DEFINE Above == {Len(s) - Cardinality(Up(i)) : i \in DOMAIN s}
  <2>1. Above \subseteq Nat /\ Above # {}
    <3>1. \A i \in DOMAIN s : Len(s) - Cardinality(Up(i)) \in Nat
      BY <1>0
    <3>2. 1 \in DOMAIN s
      BY <1>0
    <3> QED BY <3>1, <3>2
  <2>2. PICK a \in Above : \A b \in Above : a <= b
    BY <2>1, LeastIndex
  <2>3. PICK m \in DOMAIN s : a = Len(s) - Cardinality(Up(m))
    OBVIOUS
  <2>4. \A j \in DOMAIN s : Len(s) - Cardinality(Up(m)) <= Len(s) - Cardinality(Up(j))
    BY <2>2, <2>3
  <2>5. \A j \in DOMAIN s : Cardinality(Up(j)) <= Cardinality(Up(m))
    <3> TAKE j \in DOMAIN s
    <3>1. Cardinality(Up(j)) \in Nat /\ Cardinality(Up(m)) \in Nat
      BY <1>0, SMTT(30)
    <3>2. \A u, v, l \in Nat : l - v <= l - u => u <= v
      OBVIOUS
    <3> HIDE DEF Up
    <3> QED BY <2>4, <3>1, <3>2, <1>0
  <2>6. \A j \in DOMAIN s : s[j] <= s[m]
    <3> TAKE j \in DOMAIN s
    <3>1. Cardinality(Up(j)) \in Nat /\ Cardinality(Up(m)) \in Nat
      BY <1>0, SMTT(30)
    <3>2. ~(s[m] < s[j])
      BY <1>1, <2>5, <3>1
    <3> QED BY <3>2, <1>0
  <2>7. Up(m) = DOMAIN s
    BY <2>6 DEF UpToValue
  <2> QED BY <1>0, <2>7
<1>3. {s[i] : i \in Enough} \subseteq Nat /\ {s[i] : i \in Enough} # {}
  BY <1>0, <1>2
<1>4. PICK x \in {s[i] : i \in Enough} : \A y \in {s[i] : i \in Enough} : x <= y
  BY <1>3, LeastIndex
<1>5. PICK i \in Enough : x = s[i]
  OBVIOUS
<1>6. \A j \in Enough : s[i] <= s[j]
  BY <1>4, <1>5
<1>7. Cardinality(Below(s, x)) < k
  <2>1. CASE Below(s, x) = {}
    BY <2>1, FS_EmptySet
  <2>2. CASE Below(s, x) # {}
    <3> DEFINE Above == {Len(s) - Cardinality(Up(j)) : j \in Below(s, x)}
    <3>1. Above \subseteq Nat /\ Above # {}
      <4>1. ASSUME NEW j \in Below(s, x)
            PROVE  Len(s) - Cardinality(Up(j)) \in Nat
        <5>1. Cardinality(UpToValue(s, s[j])) \in 0..Len(s)
          BY <1>0
        <5> QED BY <1>0, <5>1, SMTT(30)
      <4> QED BY <2>2, <4>1
    <3>2. PICK a \in Above : \A b \in Above : a <= b
      BY <3>1, LeastIndex
    <3>3. PICK m \in Below(s, x) : a = Len(s) - Cardinality(Up(m))
      OBVIOUS
    <3>4. \A j \in Below(s, x) : Len(s) - Cardinality(Up(m)) <= Len(s) - Cardinality(Up(j))
      BY <3>2, <3>3
    <3>5. m \in DOMAIN s /\ s[m] < s[i]
      BY <1>5 DEF Below
    <3>6. \A j \in Below(s, x) : s[j] <= s[m]
      <4> TAKE j \in Below(s, x)
      <4>1. /\ Cardinality(Up(j)) \in Nat /\ Cardinality(Up(m)) \in Nat
            /\ j \in DOMAIN s
        <5>1. /\ Cardinality(UpToValue(s, s[j])) \in 0..Len(s)
              /\ Cardinality(UpToValue(s, s[m])) \in 0..Len(s)
          BY <1>0
        <5>2. j \in DOMAIN s
          BY DEF Below
        <5> QED BY <1>0, <5>1, <5>2
      <4>2. s[m] < s[j] => Cardinality(Up(m)) < Cardinality(Up(j))
        BY <1>1, <3>5, <4>1
      <4>3. Len(s) - Cardinality(Up(m)) <= Len(s) - Cardinality(Up(j))
        BY <3>4
      <4>4. \A u, v, l \in Nat : l - v <= l - u => u <= v
        OBVIOUS
      <4> HIDE DEF Up
      <4>5. Cardinality(Up(j)) <= Cardinality(Up(m))
        BY <4>1, <4>3, <4>4, <1>0
      <4>6. ~(Cardinality(Up(m)) < Cardinality(Up(j)))
        BY <4>1, <4>5
      <4>7. ~(s[m] < s[j])
        BY <4>2, <4>6
      <4> QED BY <4>1, <4>7, <3>5, <1>0
    <3>7. Below(s, x) \subseteq Up(m) /\ Up(m) \subseteq DOMAIN s
      BY <3>6 DEF Below, UpToValue
    <3>8. Cardinality(Below(s, x)) <= Cardinality(Up(m))
      BY <3>7, SmallerPart
    <3>9. m \notin Enough
      BY <1>6, <3>5, <1>0, SMTT(30)
    <3>10. Cardinality(Up(m)) < k
      BY <3>5, <3>9, <1>0
    <3> QED BY <3>8, <3>10, <1>0, SMTT(30)
  <2> QED BY <2>1, <2>2
<1> QED BY <1>5, <1>7 DEF IsNth

LEMMA NthUnique ==
  ASSUME NEW s \in Seq(Nat), NEW j \in 1..Len(s), NEW k \in 1..Len(s), j <= k,
         NEW x \in Nat, NEW y \in Nat, IsNth(s, j, x), IsNth(s, k, y)
  PROVE  x <= y
<1>1. SUFFICES ASSUME y < x PROVE FALSE
  OBVIOUS
<1>2. \A i \in DOMAIN s : s[i] \in Nat
  BY PartsCounted
<1>3. UpToValue(s, y) \subseteq Below(s, x) /\ Below(s, x) \subseteq DOMAIN s
  BY <1>1, <1>2 DEF UpToValue, Below
<1>4. Cardinality(UpToValue(s, y)) <= Cardinality(Below(s, x))
  BY <1>3, SmallerPart
<1>5. Cardinality(UpToValue(s, y)) \in Nat /\ Cardinality(Below(s, x)) \in Nat
  BY PartsCounted
<1> QED BY <1>4, <1>5 DEF IsNth

LEMMA SortUpOK ==
  ASSUME NEW s \in Seq(Nat)
  PROVE  /\ SortUp(s) \in Seq(Nat) /\ Len(SortUp(s)) = Len(s)
         /\ \A k \in 1..Len(s) : IsNth(s, k, SortUp(s)[k]) /\ SortUp(s)[k] \in {s[i] : i \in DOMAIN s}
         /\ \A j, k \in 1..Len(s) : j <= k => SortUp(s)[j] <= SortUp(s)[k]
<1>0. DOMAIN s = 1..Len(s) /\ Len(s) \in Nat /\ \A i \in DOMAIN s : s[i] \in Nat
  BY PartsCounted
<1>1. \A k \in 1..Len(s) : IsNth(s, k, SortUp(s)[k]) /\ SortUp(s)[k] \in {s[i] : i \in DOMAIN s}
  <2> TAKE k \in 1..Len(s)
  <2>1. SortUp(s)[k] = CHOOSE x \in {s[i] : i \in DOMAIN s} : IsNth(s, k, x)
    BY <1>0 DEF SortUp
  <2>2. \E x \in {s[i] : i \in DOMAIN s} : IsNth(s, k, x)
    BY NthExists
  <2> QED BY <2>1, <2>2
<1>2. \A k \in 1..Len(s) : SortUp(s)[k] \in Nat
  BY <1>0, <1>1
<1>3. SortUp(s) = [k \in 1..Len(s) |-> SortUp(s)[k]]
  BY <1>0 DEF SortUp
<1>4. SortUp(s) \in [1..Len(s) -> Nat]
  BY <1>2, <1>3
<1>5. SortUp(s) \in Seq(Nat) /\ Len(SortUp(s)) = Len(s)
  BY <1>0, <1>4
<1>6. \A j, k \in 1..Len(s) : j <= k => SortUp(s)[j] <= SortUp(s)[k]
  BY <1>1, <1>2, NthUnique
<1> QED BY <1>1, <1>5, <1>6

LEMMA SortedStays ==
  ASSUME NEW w \in Seq(Nat), \A i, j \in 1..Len(w) : i <= j => w[i] <= w[j]
  PROVE  SortUp(w) = w
<1>0. DOMAIN w = 1..Len(w) /\ Len(w) \in Nat /\ \A i \in DOMAIN w : w[i] \in Nat
  BY PartsCounted
<1>1. ASSUME NEW k \in 1..Len(w)
      PROVE  SortUp(w)[k] = w[k]
  <2>1. Below(w, w[k]) \subseteq 1..(k - 1)
    BY <1>0, <1>1 DEF Below
  <2>2. 1..k \subseteq UpToValue(w, w[k]) /\ UpToValue(w, w[k]) \subseteq DOMAIN w
    BY <1>0, <1>1 DEF UpToValue
  <2>3. /\ IsFiniteSet(1..(k - 1)) /\ Cardinality(1..(k - 1)) = k - 1
        /\ IsFiniteSet(1..k) /\ Cardinality(1..k) = k
    <3>1. IsFiniteSet(1..(k - 1)) /\ Cardinality(1..(k - 1)) = IF 1 > k - 1 THEN 0 ELSE k - 1
      BY FS_Interval
    <3>2. IsFiniteSet(1..k) /\ Cardinality(1..k) = k
      BY FS_Interval
    <3> QED BY <3>1, <3>2
  <2>4. Cardinality(Below(w, w[k])) <= k - 1
    BY <2>1, <2>3, FS_Subset
  <2>5. k <= Cardinality(UpToValue(w, w[k]))
    BY <2>2, <2>3, SmallerPart
  <2>6. IsNth(w, k, w[k])
    <3>1. Cardinality(Below(w, w[k])) \in Nat
      BY PartsCounted
    <3> QED BY <2>4, <2>5, <3>1 DEF IsNth
  <2>7. IsNth(w, k, SortUp(w)[k]) /\ SortUp(w)[k] \in Nat
    BY <1>0, SortUpOK
  <2>8. SortUp(w)[k] <= w[k] /\ w[k] <= SortUp(w)[k]
    BY <1>0, <2>6, <2>7, NthUnique
  <2> QED BY <1>0, <2>7, <2>8
<1>2. SortUp(w) \in Seq(Nat) /\ Len(SortUp(w)) = Len(w)
  BY SortUpOK
<1> QED BY <1>1, <1>2, SeqEqual

LEMMA TrimmedOK ==
  ASSUME NEW s \in Seq(Nat), Len(s) >= 3
  PROVE  /\ trimDurations(s) \in Seq(Nat) /\ Len(trimDurations(s)) = Len(s) - 2
         /\ \A k \in 1..(Len(s) - 2) : trimDurations(s)[k] = SortUp(s)[k + 1]
         /\ SortUp(trimDurations(s)) = trimDurations(s)
<1>0. Len(s) \in Nat
  OBVIOUS
<1>1. /\ SortUp(s) \in Seq(Nat) /\ Len(SortUp(s)) = Len(s)
      /\ \A j, k \in 1..Len(s) : j <= k => SortUp(s)[j] <= SortUp(s)[k]
  BY SortUpOK
<1>2. trimDurations(s) = SubSeq(SortUp(s), 2, Len(s) - 1)
  BY <1>0 DEF trimDurations
<1>3. trimDurations(s) \in Seq(Nat) /\ Len(trimDurations(s)) = Len(s) - 2
  <2>1. trimDurations(s) \in Seq(Nat)
    <3>1. \A t \in Seq(Nat) : Len(t) = Len(s) => SubSeq(t, 2, Len(s) - 1) \in Seq(Nat)
      BY <1>0, SMTT(30)
    <3> QED BY <1>1, <1>2, <3>1
  <2>2. Len(trimDurations(s)) = Len(s) - 2
    BY <1>0, <1>1, <1>2, SubSeqProperties
  <2> QED BY <2>1, <2>2
<1>4. \A k \in 1..(Len(s) - 2) : trimDurations(s)[k] = SortUp(s)[k + 1]
  <2> TAKE k \in 1..(Len(s) - 2)
  <2> QED BY <1>0, <1>1, <1>2, SubSeqProperties
<1>5. ASSUME NEW i \in 1..Len(trimDurations(s)), NEW j \in 1..Len(trimDurations(s)), i <= j
      PROVE  trimDurations(s)[i] <= trimDurations(s)[j]
  <2>1. /\ trimDurations(s)[i] = SortUp(s)[i + 1] /\ trimDurations(s)[j] = SortUp(s)[j + 1]
        /\ i + 1 \in 1..Len(s) /\ j + 1 \in 1..Len(s) /\ i + 1 <= j + 1
    <3>1. i \in 1..(Len(s) - 2) /\ j \in 1..(Len(s) - 2)
      BY <1>3
    <3>2. trimDurations(s)[i] = SortUp(s)[i + 1] /\ trimDurations(s)[j] = SortUp(s)[j + 1]
      BY <1>4, <3>1
    <3>3. i + 1 \in 1..Len(s) /\ j + 1 \in 1..Len(s) /\ i + 1 <= j + 1
      BY <1>0, <1>5, <3>1
    <3> QED BY <3>2, <3>3
  <2> QED BY <1>1, <2>1
<1>6. SortUp(trimDurations(s)) = trimDurations(s)
  BY <1>3, <1>5, SortedStays
<1> QED BY <1>3, <1>4, <1>6

(* Trimming one sample at each end leaves the median where it was.            *)
LEMMA MedianOK ==
  ASSUME NEW s \in Seq(Nat), s # <<>>
  PROVE  /\ medianDuration(s) \in Nat
         /\ Len(s) \div 2 + 1 \in 1..Len(s)
         /\ medianDuration(s) <= SortUp(s)[Len(s) \div 2 + 1]
<1> DEFINE n == Len(s)
           w == SortUp(Work(s))
           mid == Len(w) \div 2
<1>0. n \in Nat \ {0} /\ n \div 2 + 1 \in 1..n
  OBVIOUS
<1>1. /\ SortUp(s) \in Seq(Nat) /\ Len(SortUp(s)) = n
      /\ \A j, k \in 1..n : j <= k => SortUp(s)[j] <= SortUp(s)[k]
  BY SortUpOK
<1>2. \A k \in 1..n : SortUp(s)[k] \in Nat
  BY <1>1
<1>3. CASE Work(s) = s
  <2>1. w = SortUp(s) /\ Len(w) = n /\ mid = n \div 2
    BY <1>1, <1>3
  <2>2. CASE n % 2 = 1
    <3>1. medianDuration(s) = SortUp(s)[n \div 2 + 1]
      BY <2>1, <2>2 DEF medianDuration
    <3> QED BY <1>0, <1>2, <3>1
  <2>3. CASE n % 2 # 1
    <3>1. medianDuration(s) = (SortUp(s)[n \div 2] + SortUp(s)[n \div 2 + 1]) \div 2
      BY <2>1, <2>3 DEF medianDuration
    <3>2. n \div 2 \in 1..n
      BY <1>0, <2>3
    <3>3. /\ SortUp(s)[n \div 2] <= SortUp(s)[n \div 2 + 1]
          /\ SortUp(s)[n \div 2] \in Nat /\ SortUp(s)[n \div 2 + 1] \in Nat
      BY <1>0, <1>1, <1>2, <3>2
    <3>4. \A a, b \in Nat : a <= b => (a + b) \div 2 \in Nat /\ (a + b) \div 2 <= b
      OBVIOUS
    <3> HIDE DEF n
    <3> QED BY <1>0, <3>1, <3>3, <3>4 DEF n
  <2> QED BY <2>2, <2>3
<1>4. CASE Work(s) # s
  <2>1. trim /\ n >= 3
    BY <1>0, <1>4 DEF Work, trimDurations
  <2>2. /\ w = trimDurations(s) /\ Len(w) = n - 2
        /\ \A k \in 1..(n - 2) : w[k] = SortUp(s)[k + 1]
    BY <2>1, TrimmedOK DEF Work
  <2>3. /\ mid = n \div 2 - 1 /\ n \div 2 \in 1..n /\ n \div 2 \in 1..(n - 1)
        /\ Len(w) % 2 = n % 2
    <3>1. \A a \in Nat : a >= 3 => /\ (a - 2) \div 2 = a \div 2 - 1
                                  /\ a \div 2 \in 1..a
                                  /\ a \div 2 \in 1..(a - 1)
                                  /\ (a - 2) % 2 = a % 2
      OBVIOUS
    <3> HIDE DEF n, w
    <3>2. n \in Nat /\ n >= 3 /\ Len(w) = n - 2
      BY <1>0, <2>1, <2>2
    <3> QED BY <3>1, <3>2
  <2>4. CASE n % 2 = 1
    <3>1. medianDuration(s) = w[mid + 1]
      BY <2>3, <2>4 DEF medianDuration
    <3>2. mid + 1 = n \div 2 /\ n \div 2 \in 1..(n - 2)
      BY <1>0, <2>1, <2>3, <2>4
    <3>3. medianDuration(s) = SortUp(s)[n \div 2 + 1]
      BY <2>2, <3>1, <3>2
    <3> QED BY <1>0, <1>2, <3>3
  <2>5. CASE n % 2 # 1
    <3>1. medianDuration(s) = (w[mid] + w[mid + 1]) \div 2
      BY <2>3, <2>5 DEF medianDuration
    <3>2. /\ mid + 1 = n \div 2 /\ n \div 2 \in 1..(n - 2)
          /\ mid \in 1..(n - 2) /\ mid = n \div 2 - 1
      BY <1>0, <2>1, <2>3, <2>5
    <3>3. w[mid] = SortUp(s)[n \div 2] /\ w[mid + 1] = SortUp(s)[n \div 2 + 1]
      <4>1. w[mid] = SortUp(s)[mid + 1] /\ w[mid + 1] = SortUp(s)[(mid + 1) + 1]
        BY <2>2, <3>2
      <4> QED BY <3>2, <4>1
    <3>4. /\ SortUp(s)[n \div 2] <= SortUp(s)[n \div 2 + 1]
          /\ SortUp(s)[n \div 2] \in Nat /\ SortUp(s)[n \div 2 + 1] \in Nat
      BY <1>0, <1>1, <1>2, <2>3
    <3>5. \A a, b \in Nat : a <= b => (a + b) \div 2 \in Nat /\ (a + b) \div 2 <= b
      OBVIOUS
    <3> HIDE DEF n, w, mid
    <3> QED BY <1>0, <3>1, <3>3, <3>4, <3>5 DEF n
  <2> QED BY <2>4, <2>5
<1> QED BY <1>0, <1>3, <1>4

(* A sample that is slower yet is an anomaly too.                             *)
LEMMA SlowerToo ==
  ASSUME trim \in BOOLEAN, NEW b \in Baselines, NEW x \in Nat, NEW y \in Nat, x <= y, IsAnomaly(b, x)
  PROVE  IsAnomaly(b, y)
<1> DEFINE m == medianDuration(b)
           n == Len(Work(b))
           rhs == 25 * Spread(Work(b))
<1>1. b \in Seq(Nat) /\ Len(b) >= 3 /\ b # <<>> /\ MinDelta \in Nat
  BY TimingAssumption
<1>2. m \in Nat
  BY <1>1, MedianOK
<1>3. n \in Nat /\ Spread(Work(b)) \in Int
  BY <1>1, TimingAssumption, TrimmedOK DEF Work
<1>4. /\ x - m > MinDelta
      /\ n < 2 \/ 4 * (x - m) * (x - m) * n * (n - 1) > rhs
  BY DEF IsAnomaly
<1>5. y - m > MinDelta
  BY <1>1, <1>2, <1>4
<1>6. CASE n < 2
  BY <1>5, <1>6 DEF IsAnomaly
<1>7. CASE ~(n < 2)
  <2>1. \A c, d, k \in Nat : c <= d => c * c <= d * d /\ (c <= d => k * c <= k * d)
    <3> TAKE c, d, k \in Nat
    <3> HAVE c <= d
    <3>1. c * c <= c * d /\ c * d <= d * d
      OBVIOUS
    <3>2. k * c <= k * d
      OBVIOUS
    <3> QED BY <3>1, <3>2
  <2>2. x - m \in Nat /\ y - m \in Nat /\ x - m <= y - m /\ n - 1 \in Nat
    <3>1. n - 1 \in Nat
      BY <1>3, <1>7
    <3> HIDE DEF n, m
    <3>2. x - m \in Nat /\ y - m \in Nat /\ x - m <= y - m
      BY <1>1, <1>2, <1>4, <1>5
    <3> QED BY <3>1, <3>2
  <2> DEFINE c == (x - m) * (x - m)
             d == (y - m) * (y - m)
             k == 4 * n * (n - 1)
  <2>3. c <= d /\ c \in Nat /\ d \in Nat /\ k \in Nat
    BY <1>3, <2>1, <2>2
  <2>4. k * c <= k * d
    BY <2>1, <2>3
  <2>5. \A a \in Int : 4 * a * a * n * (n - 1) = 4 * n * (n - 1) * (a * a)
    BY <1>3
  <2>6. 4 * (x - m) * (x - m) * n * (n - 1) = k * c /\ 4 * (y - m) * (y - m) * n * (n - 1) = k * d
    BY <2>2, <2>5, SMTT(30)
  <2>7. k * c > rhs
    BY <1>4, <1>7, <2>6, <1>3
  <2>8. k * c \in Int /\ k * d \in Int /\ rhs \in Int
    BY <1>3, <2>3
  <2>9. k * d > rhs
    <3> HIDE DEF k, c, d, rhs
    <3> QED BY <2>4, <2>7, <2>8
  <2> QED BY <1>5, <2>6, <2>9 DEF IsAnomaly
<1> QED BY <1>6, <1>7

(* At least half of the samples are not below the median.                     *)
LEMMA HalfAnomalies ==
  ASSUME trim \in BOOLEAN, NEW b \in Baselines, NEW s \in Seq(Nat), s # <<>>, IsAnomaly(b, Judged(s))
  PROVE  2 * Cardinality({i \in DOMAIN s : IsAnomaly(b, s[i])}) >= Len(s)
<1> DEFINE h == Len(s) \div 2 + 1
           q == SortUp(s)[h]
           A == {i \in DOMAIN s : IsAnomaly(b, s[i])}
<1>1. medianDuration(s) \in Nat /\ h \in 1..Len(s) /\ medianDuration(s) <= q
  BY MedianOK
<1>2. q \in Nat /\ IsNth(s, h, q)
  <2>1. SortUp(s) \in Seq(Nat) /\ Len(SortUp(s)) = Len(s) /\ IsNth(s, h, SortUp(s)[h])
    BY <1>1, SortUpOK
  <2> QED BY <1>1, <2>1
<1>3. /\ DOMAIN s = 1..Len(s) /\ Len(s) \in Nat
      /\ \A i \in DOMAIN s : s[i] \in Nat
      /\ IsFiniteSet(DOMAIN s) /\ Cardinality(DOMAIN s) = Len(s)
      /\ Cardinality(Below(s, q)) \in 0..Len(s)
  BY PartsCounted
<1>4. DOMAIN s \ Below(s, q) \subseteq A
  <2> SUFFICES ASSUME NEW i \in DOMAIN s, i \notin Below(s, q)
               PROVE  IsAnomaly(b, s[i])
    OBVIOUS
  <2>1. s[i] \in Nat /\ q <= s[i]
    BY <1>2, <1>3 DEF Below
  <2>2. medianDuration(s) <= s[i]
    BY <1>1, <1>2, <2>1
  <2> QED BY <1>1, <2>1, <2>2, SlowerToo DEF Judged
<1>5. Cardinality(DOMAIN s \ Below(s, q)) = Len(s) - Cardinality(Below(s, q))
  <2>1. Below(s, q) \subseteq DOMAIN s
    BY DEF Below
  <2>2. DOMAIN s \cap Below(s, q) = Below(s, q)
    BY <2>1
  <2>3. Cardinality(DOMAIN s \ Below(s, q)) = Cardinality(DOMAIN s) - Cardinality(DOMAIN s \cap Below(s, q))
    BY <1>3, FS_Difference
  <2> QED BY <1>3, <2>2, <2>3
<1>6. Cardinality(DOMAIN s \ Below(s, q)) <= Cardinality(A) /\ Cardinality(A) \in Nat
  <2>1. A \subseteq DOMAIN s
    OBVIOUS
  <2>2. Cardinality(DOMAIN s \ Below(s, q)) <= Cardinality(A)
    BY <1>4, <2>1, SmallerPart
  <2>3. Cardinality(A) \in Nat
    BY <1>3, <2>1, PartsCounted
  <2> QED BY <2>2, <2>3
<1>7. Cardinality(Below(s, q)) < h
  BY <1>2 DEF IsNth
<1>8. Len(s) - Len(s) \div 2 <= Cardinality(A)
  <2> HIDE DEF A, q
  <2> QED BY <1>1, <1>3, <1>5, <1>6, <1>7
<1>9. \A k \in Nat : 2 * (k - k \div 2) >= k
  OBVIOUS
<1> HIDE DEF A
<1>10. 2 * Cardinality(A) >= Len(s)
  <2>1. 2 * (Len(s) - Len(s) \div 2) >= Len(s)
    BY <1>3, <1>9
  <2> QED BY <1>3, <1>6, <1>8, <2>1
<1> QED BY <1>10 DEF A

(* Whatever takes the place of the slowest sample, the others keep theirs.    *)
LEMMA ReplacedOK ==
  ASSUME NEW s \in Seq(Nat), Len(s) >= 3, NEW x \in Nat, \A i \in DOMAIN s : x >= s[i]
  PROVE  /\ Replaced(s, x) \in Seq(Nat) /\ Len(Replaced(s, x)) = Len(s)
         /\ trimDurations(Replaced(s, x)) = trimDurations(s)
<1> DEFINE t == Replaced(s, x)
           n == Len(s)
           p == CHOOSE i \in DOMAIN s : \A j \in DOMAIN s : s[j] <= s[i]
<1>0. /\ DOMAIN s = 1..n /\ n \in Nat
      /\ \A i \in DOMAIN s : s[i] \in Nat
      /\ IsFiniteSet(DOMAIN s) /\ Cardinality(DOMAIN s) = n
      /\ \A y : Cardinality(UpToValue(s, y)) \in 0..n
  BY PartsCounted
<1>1. /\ SortUp(s) \in Seq(Nat) /\ Len(SortUp(s)) = n
      /\ \A k \in 1..n : IsNth(s, k, SortUp(s)[k]) /\ SortUp(s)[k] \in {s[i] : i \in DOMAIN s}
  BY SortUpOK
<1>2. p \in DOMAIN s /\ \A j \in DOMAIN s : s[j] <= s[p]
  <2>1. n \in 1..n
    BY <1>0
  <2>2. PICK m \in DOMAIN s : SortUp(s)[n] = s[m]
    BY <1>1, <2>1
  <2>3. n <= Cardinality(UpToValue(s, s[m]))
    BY <1>1, <2>1, <2>2 DEF IsNth
  <2>4. UpToValue(s, s[m]) \subseteq DOMAIN s
    BY DEF UpToValue
  <2>5. UpToValue(s, s[m]) = DOMAIN s
    <3>1. UpToValue(s, s[m]) # DOMAIN s => Cardinality(UpToValue(s, s[m])) < n
      BY <1>0, <2>4, SmallerPart
    <3>2. Cardinality(UpToValue(s, s[m])) \in 0..n
      BY <1>0
    <3> QED BY <1>0, <2>3, <3>1, <3>2
  <2>6. \A j \in DOMAIN s : s[j] <= s[m]
    BY <2>5 DEF UpToValue
  <2> QED BY <2>6
<1>3. t = [s EXCEPT ![p] = x]
  BY DEF Replaced
<1> HIDE DEF p
<1>4. /\ t \in Seq(Nat) /\ Len(t) = n /\ DOMAIN t = DOMAIN s
      /\ t[p] = x /\ \A j \in DOMAIN s \ {p} : t[j] = s[j]
  BY <1>0, <1>2, <1>3
<1> HIDE DEF t
<1>5. ASSUME NEW k \in 1..(n - 1)
      PROVE  SortUp(t)[k] = SortUp(s)[k]
  <2> DEFINE v == SortUp(s)[k]
             D == DOMAIN s \ {p}
  <2>1. k \in 1..n /\ k <= n - 1
    BY <1>0, <1>5
  <2>2. IsNth(s, k, v) /\ v \in Nat /\ v \in {s[i] : i \in DOMAIN s}
    BY <1>0, <1>1, <2>1
  <2>3. v <= s[p] /\ s[p] <= x /\ s[p] \in Nat
    BY <1>0, <1>2, <2>2
  <2> HIDE DEF v
  <2>4. Below(t, v) = Below(s, v)
    <3>1. \A i \in DOMAIN s : t[i] < v <=> s[i] < v
      <4> TAKE i \in DOMAIN s
      <4>1. CASE i = p
        BY <1>4, <2>2, <2>3, <4>1
      <4>2. CASE i # p
        BY <1>4, <4>2
      <4> QED BY <4>1, <4>2
    <3> QED BY <1>4, <3>1 DEF Below
  <2>5. k <= Cardinality(UpToValue(t, v))
    <3>1. CASE v < s[p]
      <4>1. \A i \in DOMAIN s : t[i] <= v <=> s[i] <= v
        <5> TAKE i \in DOMAIN s
        <5>1. CASE i = p
          BY <1>4, <2>2, <2>3, <3>1, <5>1
        <5>2. CASE i # p
          BY <1>4, <5>2
        <5> QED BY <5>1, <5>2
      <4>2. UpToValue(t, v) = UpToValue(s, v)
        BY <1>4, <4>1 DEF UpToValue
      <4> QED BY <2>2, <4>2 DEF IsNth
    <3>2. CASE v = s[p]
      <4>1. D \subseteq UpToValue(t, v) /\ UpToValue(t, v) \subseteq DOMAIN t
        BY <1>2, <1>4, <3>2 DEF UpToValue
      <4>2. Cardinality(D) = n - 1
        BY <1>0, <1>2, FS_RemoveElement
      <4>3. Cardinality(D) <= Cardinality(UpToValue(t, v))
        BY <1>4, <4>1, SmallerPart
      <4>4. Cardinality(UpToValue(t, v)) \in 0..n
        BY <1>4, PartsCounted
      <4> HIDE DEF D
      <4> QED BY <1>0, <2>1, <4>2, <4>3, <4>4
    <3> QED BY <2>2, <2>3, <3>1, <3>2, SMTT(30)
  <2>6. IsNth(t, k, v)
    BY <2>2, <2>4, <2>5 DEF IsNth
  <2>7. IsNth(t, k, SortUp(t)[k]) /\ SortUp(t)[k] \in Nat
    <3>1. SortUp(t) \in Seq(Nat) /\ Len(SortUp(t)) = n /\ IsNth(t, k, SortUp(t)[k])
      BY <1>4, <2>1, SortUpOK
    <3> QED BY <1>0, <2>1, <3>1, SMTT(30)
  <2>8. SortUp(t)[k] <= v /\ v <= SortUp(t)[k]
    <3>1. t \in Seq(Nat) /\ k \in 1..Len(t) /\ k <= k
      BY <1>0, <1>4, <2>1
    <3>2. SortUp(t)[k] <= v
      BY <2>2, <2>6, <2>7, <3>1, NthUnique
    <3>3. v <= SortUp(t)[k]
      BY <2>2, <2>6, <2>7, <3>1, NthUnique
    <3> QED BY <3>2, <3>3
  <2> QED BY <2>2, <2>7, <2>8 DEF v
<1>6. /\ trimDurations(s) \in Seq(Nat) /\ Len(trimDurations(s)) = n - 2
      /\ \A k \in 1..(n - 2) : trimDurations(s)[k] = SortUp(s)[k + 1]
  BY TrimmedOK
<1>7. /\ trimDurations(t) \in Seq(Nat) /\ Len(trimDurations(t)) = n - 2
      /\ \A k \in 1..(n - 2) : trimDurations(t)[k] = SortUp(t)[k + 1]
  BY <1>4, TrimmedOK
<1>8. \A k \in 1..(n - 2) : trimDurations(t)[k] = trimDurations(s)[k]
  <2> TAKE k \in 1..(n - 2)
  <2>1. k + 1 \in 1..(n - 1)
    BY <1>0
  <2> QED BY <1>5, <1>6, <1>7, <2>1
<1>9. trimDurations(t) = trimDurations(s)
  BY <1>6, <1>7, <1>8, SeqEqual
<1> QED BY <1>4, <1>9 DEF t

-----------------------------------------------------------------------------
LEMMA TimingInitInv ==
  ASSUME TimingInit
  PROVE  TimingInv
<1>1. samples \in Seq(Durations) /\ Len(samples) = 0
  BY DEF TimingInit
<1> QED BY <1>1, TimingAssumption DEF TimingInit, TimingInv, TimingTypeOK

LEMMA TimingStep ==
  ASSUME TimingInv, [TimingNext]_timingVars
  PROVE  TimingInv'
<1>0. /\ TimingTypeOK /\ trim \in BOOLEAN /\ repeatN \in RepeatNs /\ target \in RepeatNs \cup {0}
      /\ target > 0 => baselineSamples # <<>>
      /\ RepeatNs \subseteq Nat \ {0}
      /\ \A b \in Baselines : b # <<>>
  <2>1. \A b \in Baselines : b # <<>>
    <3> TAKE b \in Baselines
    <3>1. Len(b) >= 3
      BY TimingAssumption
    <3> QED BY <3>1
  <2> QED BY <2>1, TimingAssumption DEF TimingInv
<1>1. CASE CalibrateTimingOracle
  <2>1. oracleHit \notin {"normal", "anomaly"}
    BY <1>1 DEF CalibrateTimingOracle, TimingInv
  <2> QED BY <1>0, <1>1, <2>1 DEF CalibrateTimingOracle, TimingInv, TimingTypeOK
<1>2. CASE SetRepeat
  BY <1>0, <1>2 DEF SetRepeat, TimingInv, TimingTypeOK, IsAnomaly, Judged, medianDuration, Work
<1>3. CASE executeTimingOracleRequests
  <2>1. samples' \in Seq(Durations) /\ Len(samples') = 0
    BY <1>3 DEF executeTimingOracleRequests
  <2> QED BY <1>0, <1>3, <2>1 DEF executeTimingOracleRequests, TimingInv, TimingTypeOK
<1>4. CASE TakeSample
  <2>1. CASE oracleHit' = "failed" /\ samples' = <<>>
    <3>1. samples' \in Seq(Durations) /\ Len(samples') = 0
      BY <2>1
    <3> QED BY <1>0, <1>4, <2>1, <3>1 DEF TakeSample, TimingInv, TimingTypeOK
  <2>2. ASSUME NEW d \in Durations, samples' = Append(samples, d),
               oracleHit' = IF Len(samples') < target THEN "none"
                            ELSE IF IsAnomaly(baselineSamples, Judged(samples'))
                                 THEN "anomaly" ELSE "normal"
        PROVE  TimingInv'
    <3>1. samples' \in Seq(Durations) /\ Len(samples') = Len(samples) + 1 /\ samples' # <<>>
      BY <1>0, <2>2 DEF TimingTypeOK
    <3>2. Len(samples) < target /\ Len(samples) \in Nat /\ target \in Nat
      BY <1>0, <1>4 DEF TakeSample, TimingTypeOK
    <3>3. Len(samples') <= target /\ target' = target /\ baselineSamples' = baselineSamples /\ trim' = trim
      BY <1>4, <3>1, <3>2 DEF TakeSample
    <3>4. TimingTypeOK'
      BY <1>0, <2>2, <3>1, <3>3 DEF TimingTypeOK
    <3>5. IsAnomaly(baselineSamples, Judged(samples))' <=> IsAnomaly(baselineSamples, Judged(samples'))
      BY <3>3 DEF IsAnomaly, Judged, medianDuration, Work
    <3>6. (oracleHit \in {"normal", "anomaly"} =>
             /\ baselineSamples # <<>> /\ samples # <<>>
             /\ oracleHit = "anomaly" <=> IsAnomaly(baselineSamples, Judged(samples)))'
      BY <1>0, <1>4, <2>2, <3>1, <3>2, <3>3, <3>5 DEF TakeSample
    <3> QED BY <1>0, <1>4, <3>3, <3>4, <3>6 DEF TakeSample, TimingInv
  <2> QED BY <1>4, <2>1, <2>2 DEF TakeSample
<1>5. CASE NextRequest
  <2>1. samples' \in Seq(Durations) /\ Len(samples') = 0
    BY <1>5 DEF NextRequest
  <2> QED BY <1>0, <1>5, <2>1 DEF NextRequest, TimingInv, TimingTypeOK
<1>6. CASE UNCHANGED timingVars
  BY <1>0, <1>6 DEF timingVars, TimingInv, TimingTypeOK, IsAnomaly, Judged, medianDuration, Work
<1> QED BY <1>1, <1>2, <1>3, <1>4, <1>5, <1>6 DEF TimingNext

LEMMA TimingInvImpliesSound ==
  ASSUME TimingInv
  PROVE  TimingSound
<1>0. /\ TimingTypeOK /\ trim \in BOOLEAN
      /\ Durations \subseteq Nat
      /\ \A b \in Baselines : b \in Seq(Nat) /\ Len(b) >= 3
  BY TimingAssumption DEF TimingInv
<1>1. samples \in Seq(Nat)
  <2>1. samples \in Seq(Durations)
    BY <1>0 DEF TimingTypeOK
  <2>2. samples \in [1..Len(samples) -> Durations] /\ Len(samples) \in Nat
    BY <2>1
  <2>3. samples \in [1..Len(samples) -> Nat]
    BY <1>0, <2>2
  <2> QED BY <2>2, <2>3
<1>2. oracleHit \in {"normal", "anomaly"} =>
         /\ baselineSamples \in Baselines /\ samples # <<>>
         /\ oracleHit = "anomaly" <=> IsAnomaly(baselineSamples, Judged(samples))
  BY <1>0 DEF TimingInv, TimingTypeOK
<1>3. TimingNeedsHalf
  <2> SUFFICES ASSUME oracleHit = "anomaly"
               PROVE  2 * Cardinality({i \in DOMAIN samples : IsAnomaly(baselineSamples, samples[i])})
                        >= Len(samples)
    BY DEF TimingNeedsHalf
  <2> QED BY <1>0, <1>1, <1>2, HalfAnomalies
<1>4. TimingOutlierHarmless
  <2> SUFFICES ASSUME trim, oracleHit \in {"normal", "anomaly"}, NEW x \in Durations,
                      \A i \in DOMAIN baselineSamples : x >= baselineSamples[i]
               PROVE  IsAnomaly(Replaced(baselineSamples, x), Judged(samples)) = (oracleHit = "anomaly")
    BY DEF TimingOutlierHarmless
  <2> DEFINE other == Replaced(baselineSamples, x)
  <2>1. trimDurations(other) = trimDurations(baselineSamples)
    BY <1>0, <1>2, ReplacedOK
  <2>2. Work(other) = Work(baselineSamples)
    BY <2>1 DEF Work
  <2>3. medianDuration(other) = medianDuration(baselineSamples)
    BY <2>2 DEF medianDuration
  <2> HIDE DEF other
  <2>4. IsAnomaly(other, Judged(samples)) = IsAnomaly(baselineSamples, Judged(samples))
    BY <2>2, <2>3 DEF IsAnomaly
  <2>5. IsAnomaly(baselineSamples, Judged(samples)) \in BOOLEAN
    BY DEF IsAnomaly
  <2> QED BY <1>2, <2>4, <2>5 DEF other
<1> QED BY <1>0, <1>3, <1>4 DEF TimingSound

(* The verdict about a request is about the samples in hand, at every moment  *)
(* of executeTimingOracleRequests and the worker's judgement.                 *)
THEOREM TimingInvariant == TimingSafety => []TimingInv
<1>1. TimingInit => TimingInv
  BY TimingInitInv
<1>2. TimingInv /\ [TimingNext]_timingVars => TimingInv'
  BY TimingStep
<1> QED BY <1>1, <1>2, PTL DEF TimingSafety

(* For any calibration and any number of repetitions, a request is called     *)
(* slow only when half of its answers were, and with trimming the slowest     *)
(* sample of the calibration decides nothing (IsAnomaly, trimDurations).      *)
THEOREM TimingIsSound == TimingSafety => []TimingSound
<1>1. TimingInv => TimingSound
  BY TimingInvImpliesSound
<1> QED BY <1>1, TimingInvariant, PTL

(* The three searches together, each for any values of its constants.         *)
THEOREM FindingsAreTrue == DiscoverySafety /\ AuthSafety /\ TimingSafety => []FindingsTrue
<1>1. ParamsSound /\ MatrixSound /\ TimingSound => FindingsTrue
  BY DEF FindingsTrue
<1> QED BY <1>1, ParamsAreSound, MatrixIsSound, TimingIsSound, PTL
=============================================================================

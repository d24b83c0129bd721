---------------------------- MODULE ParamDiscovery ----------------------------
(* How one page is searched for hidden parameters (pkg/engine/paramfuzz.go):  *)
(* a baseline, control requests with names that surely do not exist, then     *)
(* probes with chunks of the candidates that are halved while the answer      *)
(* differs.  The recursion is a stack of the slices still to be probed.       *)
EXTENDS Integers, Sequences, FiniteSets

CONSTANTS
    Names,          \* parameter names
    Wordlists,      \* word lists, sets of names
    HintSets,       \* names suggested by the page
    uniqueStrings,  \* the sorted list of a set of names
    Controls,       \* paramControlNames
    ParamPages,     \* pages, see below
    ChunkSize,      \* paramChunkSize
    MaxFails,       \* bound on the requests without an answer
    Halvings        \* how often a slice of that size can be halved

ASSUME DiscoveryAssumption ==
    /\ Wordlists \subseteq SUBSET Names /\ HintSets \subseteq SUBSET Names
    /\ \A w \in Wordlists, h \in HintSets :
          LET list == uniqueStrings[w \cup h] IN
          /\ list \in Seq(w \cup h) /\ {list[i] : i \in DOMAIN list} = w \cup h
          /\ \A i, j \in DOMAIN list : list[i] = list[j] => i = j
    /\ \A p \in ParamPages :
          IsFiniteSet(p.known) /\ p.picky \subseteq p.known /\ p.catchAll \in BOOLEAN
    /\ IsFiniteSet(Controls) /\ ChunkSize \in Nat \ {0} /\ MaxFails \in Nat
    /\ Halvings \in [1..ChunkSize -> Nat]
    /\ \A s, t \in 1..ChunkSize : s <= t => Halvings[s] <= Halvings[t]
    /\ \A s \in 2..ChunkSize : Halvings[s - s \div 2] < Halvings[s]

(* A page knows the params that change its answer, those of them it reacts to *)
(* only when they come first in the query (the value depends on the place),   *)
(* those it answers with 404, and whether any query at all changes it.        *)
VARIABLES page, method, wordlist, hints, phase, baseline, controls, toControl, work, paramHits,
          fails, requests

discoveryVars == <<page, method, wordlist, hints, phase, baseline, controls, toControl, work,
                   paramHits, fails, requests>>

NoQuery == [status |-> 200, seen |-> {}, query |-> FALSE]
PageAnswer(given, first) ==
    [status |-> IF given \cap page.missing # {} THEN 404 ELSE 200,
     seen |-> (given \cap page.known) \ (page.picky \ {first}),
     query |-> page.catchAll /\ given # {}]
(* The baseline is asked for with the method of the task; every probe is GET. *)
BaselineAnswer == IF method = "GET" THEN NoQuery ELSE [NoQuery EXCEPT !.status = 405]

(* paramCandidates: hints only beside a word list; sorted, without repeats.   *)
paramCandidates == IF wordlist = {} THEN <<>> ELSE uniqueStrings[wordlist \cup hints]
Candidate(n) == \E i \in DOMAIN paramCandidates : paramCandidates[i] = n
chooseParamControlNames == {c \in Controls : ~Candidate(c)}

(* candidates[from:to], both ends included and counted from 1.                *)
Slice(g) == {paramCandidates[i] : i \in g.from..g.to}
Size(g) == g.to - g.from + 1

(* discoverParamHits: chunks first.                                           *)
ChunkCount(len) == (len + ChunkSize - 1) \div ChunkSize
Chunks(len) ==
    [i \in 1..ChunkCount(len) |->
        [from |-> (i - 1) * ChunkSize + 1,
         to |-> IF i * ChunkSize < len THEN i * ChunkSize ELSE len]]

(* Mutant: the last name of a longer slice is forgotten.                      *)
HalvesShort(g) ==
    LET mid == g.from + Size(g) \div 2
    IN  <<[g EXCEPT !.to = mid - 1], [from |-> mid, to |-> IF g.to > mid THEN g.to - 1 ELSE mid]>>

Halves(g) ==
    LET mid == g.from + Size(g) \div 2
    IN  <<[g EXCEPT !.to = mid - 1], [g EXCEPT !.from = mid]>>

DiscoveryInit ==
    /\ page \in ParamPages /\ method \in {"GET", "POST"}
    /\ wordlist \in Wordlists /\ hints \in HintSets
    /\ phase = "baseline" /\ baseline = NoQuery
    /\ controls = {} /\ toControl = {} /\ work = <<>> /\ paramHits = <<>>
    /\ fails = 0 /\ requests = 0

(* A request that gets no answer.                                             *)
Fails == fails < MaxFails /\ fails' = fails + 1

(* A task made from a result brings its baseline, for another one is asked.   *)
Baseline ==
    /\ phase = "baseline"
    /\ \/ /\ UNCHANGED fails /\ requests' \in {requests, requests + 1}
          /\ baseline' = BaselineAnswer
          /\ phase' = IF paramCandidates = <<>> THEN "done" ELSE "control"
          /\ toControl' = IF paramCandidates = <<>> THEN {} ELSE chooseParamControlNames
       \/ Fails /\ requests' = requests + 1 /\ phase' = "done" /\ UNCHANGED <<baseline, toControl>>
    /\ UNCHANGED <<page, method, wordlist, hints, controls, work, paramHits>>

(* paramNoiseControls: one request per control name; a failed one is skipped. *)
ControlAnswer(c) ==
    /\ phase = "control" /\ c \in toControl /\ toControl' = toControl \ {c}
    /\ \/ controls' = controls \cup {PageAnswer({c}, c)} /\ UNCHANGED fails
       \/ Fails /\ UNCHANGED controls
    /\ requests' = requests + 1
    /\ UNCHANGED <<page, method, wordlist, hints, phase, baseline, work, paramHits>>
paramNoiseControls ==
    \/ \E c \in toControl : ControlAnswer(c)
    \/ /\ phase = "control" /\ toControl = {}
       /\ phase' = "probe" /\ work' = Chunks(Len(paramCandidates))
       /\ UNCHANGED <<page, method, wordlist, hints, baseline, controls, toControl, paramHits,
                      fails, requests>>

(* probeParamSubset: different from the baseline, found, and unlike every     *)
(* control.                                                                   *)
responseDiffersFromBaseline(a) == a # baseline
isUsefulParamProbeTransition(a) == a.status # 404
responseMatchesParamControls(a) == a \in controls
probeParamSubset(g) ==
    LET a == PageAnswer(Slice(g), paramCandidates[g.from]) IN
        /\ responseDiffersFromBaseline(a) /\ isUsefulParamProbeTransition(a)
        /\ ~responseMatchesParamControls(a)

(* What becomes of the first slice left: nothing differs or no answer comes,  *)
(* it is one name and a hit, or it is halved.                                 *)
NoHitIn(g) ==
    /\ \/ ~probeParamSubset(g) /\ UNCHANGED fails
       \/ Fails
    /\ work' = Tail(work) /\ UNCHANGED paramHits
HitIs(g) ==
    /\ probeParamSubset(g) /\ Size(g) = 1
    /\ work' = Tail(work) /\ paramHits' = Append(paramHits, paramCandidates[g.from])
    /\ UNCHANGED fails
HitWithin(g) ==
    /\ probeParamSubset(g) /\ Size(g) # 1
    /\ work' = Halves(g) \o Tail(work) /\ UNCHANGED <<paramHits, fails>>

discoverParamHits ==
    /\ phase = "probe"
    /\ \/ /\ work = <<>> /\ phase' = "done" /\ UNCHANGED <<work, paramHits, fails, requests>>
       \/ /\ work # <<>> /\ requests' = requests + 1 /\ UNCHANGED phase
          /\ NoHitIn(Head(work)) \/ HitIs(Head(work)) \/ HitWithin(Head(work))
    /\ UNCHANGED <<page, method, wordlist, hints, baseline, controls, toControl>>

ProbeHiddenParams == Baseline \/ paramNoiseControls \/ discoverParamHits
-----------------------------------------------------------------------------
WellSliced(slices) ==
    /\ slices \in Seq([from : 1..Len(paramCandidates), to : 1..Len(paramCandidates)])
    /\ \A i \in DOMAIN slices : Size(slices[i]) \in 1..ChunkSize
DiscoveryTypeOK ==
    /\ page \in ParamPages /\ method \in {"GET", "POST"}
    /\ wordlist \in Wordlists /\ hints \in HintSets
    /\ phase \in {"baseline", "control", "probe", "done"}
    /\ toControl \subseteq Controls /\ paramHits \in Seq(Names)
    /\ fails \in 0..MaxFails /\ requests \in Nat
    /\ WellSliced(work)

IsHit(n) == \E i \in DOMAIN paramHits : paramHits[i] = n

(* What is reported changes the page by itself: no name is reported for the   *)
(* company it was sent in, nor because the page differs from the baseline for *)
(* another reason -- the method, or that there is a query at all -- provided  *)
(* one control was answered that the page does not know.                      *)
Unknown == [NoQuery EXCEPT !.query = page.catchAll]
ParamsReal ==
    Unknown \in controls \/ (method = "GET" /\ ~page.catchAll) =>
        \A n \in Names : IsHit(n) => n \in page.known \ page.missing

(* Nothing is reported twice.                                                 *)
ParamsOnce == \A i, j \in DOMAIN paramHits : paramHits[i] = paramHits[j] => i = j

(* Without a lost request every candidate is found that the page knows,       *)
(* whatever slice it is in and wherever the halves are cut; a candidate that  *)
(* is answered with 404, or that counts only in the first place, may hide     *)
(* itself and the others of its slice.                                        *)
ParamsComplete ==
    /\ phase = "done" /\ fails = 0 /\ page.picky = {}
    /\ \A n \in page.missing : ~Candidate(n)
    => \A n \in page.known : Candidate(n) => IsHit(n)

(* The halving pays: a chunk costs one request, and each name the page knows  *)
(* at most two per halving above it.                                          *)
ParamsCheap ==
    ~page.catchAll /\ method = "GET" =>
        requests <= 1 + Cardinality(Controls) + ChunkCount(Len(paramCandidates))
                    + 2 * Halvings[ChunkSize] * Cardinality(page.known)

(* What the search reports is so and is all there is, each name once and for  *)
(* a price.                                                                   *)
ParamsSound == DiscoveryTypeOK /\ ParamsReal /\ ParamsOnce /\ ParamsComplete /\ ParamsCheap
=============================================================================

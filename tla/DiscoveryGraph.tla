--------------------------- MODULE DiscoveryGraph ----------------------------
(* The discovery graph of pkg/engine/discovery_graph.go and the two loops    *)
(* that feed it: SubmitHarvestPath, which adds a node and submits its jobs,  *)
(* and processFeedbackLoop, which scores a node by its response and submits  *)
(* follow-ups.  Every graph method runs under the graph's lock and is one    *)
(* step; the submissions come after it, one at a time, and meet the gate of  *)
(* a restart, the excluded paths and the filter of seen requests, which the  *)
(* jobs of the wordlist, the spider, mutations and branches fill as well.    *)
EXTENDS Integers, Sequences, FiniteSets, SequencesExt

CONSTANTS
    Workers,     \* goroutines that harvest and report
    Paths,       \* canonical paths
    Sensitive, Static, \* paths with a sensitive word, with a static suffix
    Guarded, Templated, Mutations, \* paths with /admin and the like, an {id}, "mutation"
    SourceTypes, \* source types of the harvesters that register a source
    Responses,   \* evidence of a response: [status, interesting, variant]
    Excluded,    \* paths an exclusion pattern matches
    Methods,     \* methods of the other submitters' jobs, NoMethod among them
    MaxEvents,   \* Config.MaxEvents
    MaxNodes,    \* bound: nodes of an instance
    MaxResponses, \* bound: responses reported
    MaxRestarts  \* bound: restarts of the scan

NoPath == "none"      \* the empty path of a source
NoMethod == "none"    \* the empty method: of a feedback job, of a plain wordlist job

ASSUME GraphAssumption == NoPath \notin Paths /\ MaxEvents \in Nat \ {0} /\ MaxRestarts \in Nat

MaxDerivedJobsPerNode == 5
MaxFeedbackActionsPerNode == 3
None == 0        \* the empty node ID

VARIABLES
    nodes,       \* Nodes: the ID is the position
    bySignature, \* BySignature: <<parent, path, source type>> -> ID
    byPath,      \* ByPath: path -> IDs
    history,     \* ActionHistory
    events,      \* Events
    toSubmit,    \* jobs a worker has built and not yet submitted
    submitted,   \* keys in the filter of Submit
    answered,    \* jobs the queue accepted, of every submitter and run
    letGo,       \* follow-ups of the feedback loop that Submit returned from, and why
    runID, restarting, scanCancelled, \* RunID, the admission gate, Shutdown's cancel
    reported     \* responses reported so far

scanVars == <<runID, restarting, scanCancelled>>
graphVars == <<nodes, bySignature, byPath, history, events, toSubmit, submitted, answered,
               letGo, scanVars, reported>>

Clamp(x, lo, hi) == IF x < lo THEN lo ELSE IF x > hi THEN hi ELSE x

GetEvidenceQuality(src) ==
    CASE src = "openapi" -> 95 [] src = "javascript" -> 70 [] src = "wordlist" -> 20 [] OTHER -> 10

(* Harvest evidence carries no confidence, so only the quality counts.       *)
CalculatePriority(path, src) ==
    Clamp((IF src \in {"javascript", "openapi", "graphql", "sourcemap"} THEN 30 ELSE 0)
          + GetEvidenceQuality(src) \div 2
          + (IF path \in Sensitive THEN 50 ELSE 0)
          - (IF path \in Static THEN 50 ELSE 0), 0, 100)

(* AddEvent, once for each of count equal events; the newest are kept.       *)
AddEvents(log, kind, id, count) ==
    LET grown == log \o [i \in 1..count |-> <<kind, id>>]
    IN  IF Len(grown) > MaxEvents THEN SubSeq(grown, Len(grown) - MaxEvents + 1, Len(grown))
        ELSE grown

AddEvent(log, kind, id) == AddEvents(log, kind, id, 1)

NewNode(kind, path, src, parent) ==
    [kind |-> kind, path |-> path, src |-> src, parent |-> parent, children |-> {},
     confidence |-> 0, risk |-> 0, priority |-> CalculatePriority(path, src),
     derived |-> 0, feedback |-> 0, hash |-> <<>>]

generateSignature(parent, path, src) == <<parent, path, src>>

GraphInit ==
    /\ nodes = <<>> /\ bySignature = <<>> /\ byPath = [p \in Paths |-> <<>>]
    /\ history = {} /\ events = <<>>
    /\ toSubmit = [w \in Workers |-> <<>>] /\ submitted = {} /\ answered = {} /\ letGo = {}
    /\ runID = 0 /\ restarting = FALSE /\ scanCancelled = FALSE /\ reported = 0

(* The types of the follow-ups EvaluateNode wants for a node.                *)
Wanted(n) ==
    (IF n.src = "openapi" /\ n.path \in Templated THEN {"paramfuzz"} ELSE {})
    \union (IF n.src = "javascript" /\ n.path \in Guarded THEN {"validation"} ELSE {})
    \union (IF n.src = "graphql" /\ n.path \in Mutations THEN {"validation"} ELSE {})

EvaluateNode(n, id) ==
    IF n.derived >= MaxDerivedJobsPerNode THEN {}
    ELSE {t \in Wanted(n) : <<id, t>> \notin history}

Job(type, path, method, id, run) ==
    [type |-> type, path |-> path, method |-> method, node |-> id, run |-> run]

AddSourceNode(src) ==
    /\ generateSignature(None, NoPath, src) \notin DOMAIN bySignature
    /\ Len(nodes) < MaxNodes
    /\ LET id == Len(nodes) + 1
           sig == generateSignature(None, NoPath, src)
       IN  /\ nodes' = Append(nodes, NewNode("source", NoPath, src, None))
           /\ bySignature' = [s \in DOMAIN bySignature \union {sig} |->
                                 IF s = sig THEN id ELSE bySignature[s]]
           /\ events' = AddEvent(events, "node_added", id)
    /\ UNCHANGED <<byPath, history, toSubmit, submitted, answered, letGo, scanVars, reported>>

(* Jobs of SubmitHarvestPath: the discovery itself, then its follow-ups.     *)
HarvestJobs(id, path, types, run) ==
    <<Job("discovery", path, "GET", id, run)>>
    \o SetToSeq({Job(t, path, "GET", id, run) : t \in types})

LinkChild(ns, parent, id) ==
    IF parent \in DOMAIN ns THEN [ns EXCEPT ![parent].children = @ \union {id}] ELSE ns

AddPathNode(w, parent, path, src, run) ==
    LET sig == generateSignature(parent, path, src)
        known == sig \in DOMAIN bySignature
        id == IF known THEN bySignature[sig] ELSE Len(nodes) + 1
        node == IF known THEN nodes[id] ELSE NewNode("path", path, src, parent)
        types == EvaluateNode(node, id)
        scored == [node EXCEPT !.derived = @ + Cardinality(types)]
    IN  /\ known \/ Len(nodes) < MaxNodes
        /\ nodes' = IF known THEN [nodes EXCEPT ![id] = scored]
                    ELSE LinkChild(Append(nodes, scored), parent, id)
        /\ bySignature' = [s \in DOMAIN bySignature \union {sig} |->
                              IF s = sig THEN id ELSE bySignature[s]]
        /\ byPath' = IF known THEN byPath ELSE [byPath EXCEPT ![path] = Append(@, id)]
        /\ history' = history \union {<<id, t>> : t \in types}
        /\ events' = AddEvents(IF known THEN events ELSE AddEvent(events, "node_added", id),
                               "action_created", id, Cardinality(types))
        /\ toSubmit' = [toSubmit EXCEPT ![w] = HarvestJobs(id, path, types, run)]
        /\ UNCHANGED <<submitted, answered, letGo, scanVars, reported>>

(* The run whose filter and workers are still there: a restart moves RunID   *)
(* first and renews them when the workers are done.                          *)
FilterRun == IF restarting THEN runID - 1 ELSE runID

(* SubmitHarvestPath, called by HarvestEndpoints with the source node of the *)
(* document as parent and the run it began in, and by a worker with the node *)
(* and the run of the job whose response it reads (none for another job).    *)
SubmitHarvestPath(w) ==
    /\ toSubmit[w] = <<>>
    /\ \E path \in Paths \ Excluded :
          \/ \E id \in DOMAIN nodes, run \in 0..runID :
                /\ nodes[id].kind = "source"
                /\ AddPathNode(w, id, path, nodes[id].src, run)
          \/ \E job \in answered :
                /\ job.run = FilterRun
                /\ AddPathNode(w, job.node, path, "response", job.run)

FilterKeyPerNode(job) == <<job.node, job.method, job.path>>

FilterKey(job) == <<job.method, job.path>>

(* The exits of Submit in their order: the gate and the run, the excluded    *)
(* paths, the filter, the scan's context.                                    *)
Outcome(job) ==
    IF restarting \/ job.run # runID THEN "run"
    ELSE IF job.path \in Excluded THEN "excluded"
    ELSE IF FilterKey(job) \in submitted THEN "seen"
    ELSE IF scanCancelled THEN "cancelled" ELSE "queued"

(* Submit: the filter takes the key before the context is looked at.         *)
SubmitJob(job) ==
    /\ submitted' = IF Outcome(job) \in {"cancelled", "queued"}
                    THEN submitted \union {FilterKey(job)} ELSE submitted
    /\ answered' = IF Outcome(job) = "queued" THEN answered \union {job} ELSE answered
    /\ letGo' = IF Outcome(job) # "queued" /\ job.node # None /\ job.method = NoMethod
                THEN letGo \union {<<job, Outcome(job)>>} ELSE letGo

Submit(w) ==
    /\ toSubmit[w] # <<>>
    /\ SubmitJob(Head(toSubmit[w]))
    /\ toSubmit' = [toSubmit EXCEPT ![w] = Tail(@)]
    /\ UNCHANGED <<nodes, bySignature, byPath, history, events, scanVars, reported>>

(* A job of the wordlist, the spider, a mutation or a branch, which has no   *)
(* node, meets the same filter.                                              *)
SubmitOther ==
    /\ \E path \in Paths, method \in Methods : SubmitJob(Job("other", path, method, None, runID))
    /\ UNCHANGED <<nodes, bySignature, byPath, history, events, toSubmit, scanVars, reported>>

(* ChangeWordlist closes the gate and moves the run, waits for the workers   *)
(* (no feedback job is left in their hands), then renews the filter and      *)
(* opens the gate.  The graph and its history stay as they are.              *)
RestartBegins ==
    /\ ~restarting /\ ~scanCancelled /\ runID < MaxRestarts
    /\ restarting' = TRUE /\ runID' = runID + 1
    /\ UNCHANGED <<nodes, bySignature, byPath, history, events, toSubmit, submitted, answered,
                   letGo, scanCancelled, reported>>

RestartEnds ==
    /\ restarting
    /\ \A w \in Workers : \A i \in DOMAIN toSubmit[w] : toSubmit[w][i].method # NoMethod
    /\ restarting' = FALSE /\ submitted' = {}
    /\ UNCHANGED <<nodes, bySignature, byPath, history, events, toSubmit, answered, letGo,
                   runID, scanCancelled, reported>>

(* Shutdown cancels the context of the scan.                                 *)
ShutdownCancelsScan ==
    /\ ~restarting /\ ~scanCancelled /\ scanCancelled' = TRUE
    /\ UNCHANGED <<nodes, bySignature, byPath, history, events, toSubmit, submitted, answered,
                   letGo, runID, restarting, reported>>

(* The scores a response moves, clamped as UpdateEvidence does.              *)
Score(n, resp) ==
    LET s == resp.status
        conf == CASE s \in {404, 410} -> -20 [] s \in {401, 403} -> 20 [] s = 200 -> 10
                  [] s = 0 -> -5 [] OTHER -> 0
        risk == CASE s \in {401, 403} -> 40 [] s = 500 -> 10
                  [] s = 200 /\ resp.interesting -> 30 [] OTHER -> 0
        prio == CASE s \in {401, 403} -> 40 [] s = 200 -> 20 [] OTHER -> 0
    IN  [n EXCEPT !.confidence = Clamp(@ + conf, 0, 100), !.risk = Clamp(@ + risk, 0, 100),
                  !.priority = @ + prio]

WantsFeedback(n, id, resp) ==
    /\ n.feedback < MaxFeedbackActionsPerNode
    /\ resp.status \in {401, 403}
    /\ <<id, "validation_feedback">> \notin history

FeedbackJob(id) == Job("validation", nodes[id].path, NoMethod, id, runID)

(* processFeedbackLoop for the result of an answered job: UpdateEvidence,    *)
(* then the feedback jobs, which carry no method and the run of the moment.  *)
UpdateEvidence(w, id, resp) ==
    /\ toSubmit[w] = <<>> /\ reported < MaxResponses
    /\ nodes[id].hash # <<resp>>
    /\ LET more == WantsFeedback(nodes[id], id, resp)
           observed == AddEvent(events, "response_observed", id)
           scored == [Score(nodes[id], resp) EXCEPT !.hash = <<resp>>,
                                                    !.feedback = @ + IF more THEN 1 ELSE 0]
       IN  /\ nodes' = [nodes EXCEPT ![id] = scored]
           /\ history' = IF more THEN history \union {<<id, "validation_feedback">>} ELSE history
           /\ events' = IF more THEN AddEvent(observed, "action_created", id) ELSE observed
           /\ toSubmit' = [toSubmit EXCEPT
                  ![w] = IF more THEN <<FeedbackJob(id)>> ELSE <<>>]
    /\ reported' = reported + 1
    /\ UNCHANGED <<bySignature, byPath, submitted, answered, letGo, scanVars>>

processFeedbackLoop(w) ==
    \E job \in answered, resp \in Responses :
        job.node # None /\ job.run = FilterRun /\ UpdateEvidence(w, job.node, resp)

GraphNext ==
    \/ \E src \in SourceTypes : AddSourceNode(src)
    \/ \E w \in Workers : SubmitHarvestPath(w) \/ Submit(w) \/ processFeedbackLoop(w)
    \/ SubmitOther \/ RestartBegins \/ RestartEnds \/ ShutdownCancelsScan

GraphTypeOK ==
    /\ \A id \in DOMAIN nodes :
          /\ nodes[id].src \in SourceTypes \union {"response"}
          /\ nodes[id].parent \in {None} \union DOMAIN nodes
          /\ nodes[id].derived <= MaxDerivedJobsPerNode
          /\ nodes[id].feedback <= MaxFeedbackActionsPerNode
    /\ Len(events) <= MaxEvents /\ runID \in 0..MaxRestarts /\ (restarting => runID > 0)

(* ValidateGraph never fails: after any interleaving of harvests and         *)
(* feedback the scores stay in their ranges, every edge has both of its ends *)
(* and is recorded at both of them, and a node is younger than its parent,   *)
(* so that DetectCycles finds no node among its own ancestors.               *)
GraphValid ==
    LET Edges == UNION {{<<id, c>> : c \in nodes[id].children} : id \in DOMAIN nodes}
    IN  /\ \A id \in DOMAIN nodes :
              /\ nodes[id].confidence \in 0..100 /\ nodes[id].risk \in 0..100
              /\ nodes[id].priority >= 0
        /\ \A e \in Edges : e[2] \in DOMAIN nodes /\ nodes[e[2]].parent = e[1]
        /\ \A id \in DOMAIN nodes :
              nodes[id].parent # None => <<nodes[id].parent, id>> \in Edges
        /\ \A e \in Edges : e[1] < e[2]

(* BySignature and ByPath describe the nodes exactly: a rediscovery finds    *)
(* the node of the first discovery, and no two nodes share a signature.      *)
GraphIndexed ==
    /\ \A id \in DOMAIN nodes :
          LET sig == <<nodes[id].parent, nodes[id].path, nodes[id].src>>
          IN  sig \in DOMAIN bySignature /\ bySignature[sig] = id
    /\ \A p \in Paths : Range(byPath[p]) = {id \in DOMAIN nodes : nodes[id].path = p}
                        /\ IsInjective(byPath[p])

(* The filter lets one request through for a method and path in a run, and   *)
(* swallows no request that nobody made: a key in it is that of a job the    *)
(* queue accepted in this run, unless the scan was cancelled, for Submit     *)
(* marks the key before it looks at the context.                             *)
GraphFilterKeeps ==
    /\ \A a, b \in answered :
          a.run = b.run /\ a.method = b.method /\ a.path = b.path => a = b
    /\ \A key \in submitted :
          scanCancelled \/ \E job \in answered : FilterKey(job) = key /\ job.run = FilterRun

(* Of all the nodes one path has (one per parent and source) a run expands   *)
(* at most one, because its filter admits one request of it: links that      *)
(* point at each other do not make the graph grow without end.  Two nodes of *)
(* a path are expanded by the answers of two runs.                           *)
GraphExpandsOnce ==
    \A i, j \in DOMAIN nodes :
        nodes[i].kind = "path" /\ nodes[i].path = nodes[j].path /\ i # j
        /\ nodes[i].children # {} /\ nodes[j].children # {}
        => \E a, b \in answered : a.node = i /\ b.node = j /\ a.run # b.run

(* A follow-up that the feedback loop recorded as created is on its way, is  *)
(* accepted by the queue, or was let go by Submit: as one whose path was     *)
(* asked for without a method in the same run already, by any submitter,     *)
(* because a restart came between, or because the scan was cancelled; never  *)
(* because its path is excluded.  It is recorded once, so what Submit let go *)
(* is not tried again.                                                       *)
GraphFeedbackReaches ==
    /\ \A h \in history : h[2] = "validation_feedback" =>
          \/ \E w \in Workers : \E i \in DOMAIN toSubmit[w] :
                toSubmit[w][i].node = h[1] /\ toSubmit[w][i].method = NoMethod
          \/ \E job \in answered : job.node = h[1] /\ job.method = NoMethod
          \/ \E d \in letGo : d[1].node = h[1]
    /\ \A d \in letGo :
          \/ /\ d[2] = "seen"
             /\ scanCancelled \/ \E job \in answered :
                                FilterKey(job) = FilterKey(d[1]) /\ job.run = d[1].run
          \/ d[2] = "run" /\ runID > 0
          \/ d[2] = "cancelled" /\ scanCancelled

(* What ValidateGraph, the lookups of a rediscovery and the two loops rely   *)
(* on.                                                                       *)
GraphSound ==
    /\ GraphTypeOK /\ GraphValid /\ GraphIndexed
    /\ GraphFilterKeeps /\ GraphExpandsOnce /\ GraphFeedbackReaches
=============================================================================

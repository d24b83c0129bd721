# A verification project for DirFuzz

DirFuzz is a concurrent web-content discovery tool. One scan runs a wordlist
scanner, a pool of workers that pop jobs from one bounded priority queue,
recursive branches and auxiliary tasks that submit more jobs, a reader of
results, and calls that pause, restart, stop or await the whole. Around the
engine stand a raw HTTP client, the filters that judge answers, several
programs (command line, terminal screen, swarm controller, monitor, MCP server)
and files that outlive a run. This project models those parts in TLA+, checks
them with TLC on small instances and proves with TLAPS, for every value of the
constants, the safety of most of them.

File references are relative to the repository root (`src/` here).

## Inventory

| Component | State it keeps | Operations | Hard behaviour | What makes it correct |
|---|---|---|---|---|
| Job order and heap (`pkg/engine/queue.go` 59-156) | array heap of jobs | Less, Swap, Push, Pop, Drain | Less is not one order for dated and undated jobs | nothing is lost; Pop hands out a job nobody outranks |
| Job queue (`queue.go` 158-332) | heap, `closed`, two one-token channels | Push, Pop, Drain, Close, Len | one token for many sleepers; cancellation and close race with wake-ups | capacity; no lost wake-up; blocked calls return; it is a blocking priority queue |
| Scanner (`engine.go` StartWordlistScanner, KickoffScanner) | line number, context, RunID | open, one line, end, error | runs on after cancellation until it looks | every word submitted once; counted in `scannerWg` |
| Submit (`worker.go` 1056-1110) | `restarting`, `submissionWg`, Bloom filter | gate, filter, reserve, push | four unlocked sections; context loaded after admission | nothing admitted is lost or counted twice |
| Worker (`worker.go` 97-1050) | its job, its context | pop, RunID check, pause, request, filters, links, publish, mutate, recurse, done | many early returns; some end the goroutine | each job counted off exactly once |
| Branches and auxiliary tasks (`recursive_tracker.go`, `harvest.go`, `bypass403.go`) | semaphore, two WaitGroups | admit, probe, scan, leave | started while Wait is already waiting; deferred calls in an order | they keep the scan alive until they end |
| Wait, ChangeWordlist, Shutdown (`engine.go` 1109-1270, 1930-2010) | `RunID`, `scannerCtx`, `restarting`, channels | staged waits, drains and resets | three callers await the same counters at once | quiescent reset; no send on a closed channel; they return |
| Worker pool resize (`engine.go` 1532-1645) | `workerControls`, counts | Start, SetWorkerCount, autoThrottleCheck | reuse of the id of a worker that is still ending | as many live workers as configured |
| Config snapshot (`engine_config.go`) | config under a lock, immutable snapshot | mutate, rebuild | two rebuilds may store out of order | no edit is lost to the debounce timer |
| Request path (`engine_request.go`, `antibot.go`) | attempt, hop, solver state per host, HTTP/2 semaphore | send, retry, redirect, solve, refresh | callers share one solver; the semaphore is swapped under them | no unsafe request is repeated blindly; credentials stay at their origin; every request ends |
| Proxy rotation (`engine.go` 1028-1094) | fail counts, cooldowns | GetNextProxy, ReportProxyStatus | shift overflow; reports in any order | a failed proxy rests as long as the shift fits; a working one gets its turn |
| HTTP client (`pkg/httpclient/client.go`, `pool.go`) | idle connections, buffers | dial, take, write, read, park, watch | stale connections; a watcher that closes what it guards | nobody reads another request's answer; parked connections are good |
| Answer framing (`client.go` 820-1300) | bytes read, header, framing | read, find header, find body end, unchunk, decode | cuts between reads; ambiguous lengths; bytes beyond the end; codings | a complete answer is the server's content |
| Hidden-parameter pool (`paramfuzz.go` 1-330, 600-1060) | task channel, seen set, WaitGroup | enqueue, worker, close | send versus close; two-key rollback | every accepted task counted off; hits published once |
| Hidden-parameter search (`paramfuzz.go` 330-600) | baseline, controls, candidates | probe, halve | names that react only together, failing requests | what is reported exists; bounded requests |
| Discovery graph (`discovery_graph.go`, `engine_discovery_feedback.go`) | nodes, signatures, paths | observe, harvest, feedback, submit | workers add and merge at once; one filter for all who submit | acyclic, indexed, a path expanded once in a run |
| Resume files (`engine_resume.go`) | line counter, Bloom dump | periodic save, dump, load | a crash between or inside the writes | no line is skipped after a resume |
| Result pipeline (`worker.go`, `cmd/dirfuzz/scan.go`) | Results, log and screen channels | send, fan out, quit | readers that stop; full channels | what reaches Results reaches the file; the program ends |
| Filters and clusters (`worker.go` 640-930, `simhash.go`, `engine_calibrate.go`, `engine_eagle.go`) | cluster table, counters, signatures | calibrate, record, filter, compare | shared tables, counts used after the lock | only crowds, baselines and mirrors are hidden |
| WAF evasion and 403 bypass (`waf_evasion.go`, `bypass403.go`) | marks, scores, slots | fingerprint, retry, task | load-copy-store marks; tasks that end early | counters and scores follow what is kept; the slots come back |
| Auth matrix (`authmatrix.go`) | slots of the roles | replay, judge, report | concurrent answers, failed roles | a finding compares two roles' own pages |
| Timing oracle (`timing_oracle.go`) | calibration, repeats | calibrate, measure | outliers, few samples | one slow answer decides nothing |
| Scope gate (`pkg/scope/validator.go`) | lookup tables | load, compile, allow | files rewritten while they are read | no call outside every scope that was on disk |
| MCP server (`cmd/mcp/main.go`) | registry, limiter, audit | register, run, cancel, collect | calls reach into each other's scans | limit, own results, an end for each |
| Swarm (`cmd/dirfuzz/swarm.go`) | chunks, answers, errors | cut, dispatch, collect, close | a select with several ready cases | no line given twice; success means complete |
| Monitor (`cmd/monitor/main.go`) | state file, current engine | cycle, write, compare, signal | crashes and signals between steps, a copy that fails, one baseline for several methods | a change is told once; what is not told is within the tolerance or was lost with a crash or failure |
| Terminal interface (`pkg/tui`) | list, marks, tabs, log ring, views | messages and keys | parallel indexes, late answers, caches | everything shown agrees with everything kept |
| Event bus (`events.go`) | subscribers, ring buffer | publish, subscribe | no production caller | not modelled |

The interactions: scanner, branches, tasks and workers call Submit; Submit and
workers share the job queue; a worker's request goes through rotation, retry
loop and client, its answer through framing, filters and bypasses; what is left
is sent on Results, which the CLI, the TUI, the monitor or the MCP server read;
hits feed the graph and the parameter pool, which submit again. ChangeWordlist
and Shutdown cancel the context that every goroutine polls, and then wait on
counters that those goroutines decrement; configuration reaches the goroutines
through the snapshot. Proxies, connections, graph, clusters and files meet the
rest of the engine through single calls, which is why they have modules of
their own.

`PROJECT.json` lists every component, those left out too, and the hazards,
each at the line where it bites.

## Modules

| Module | Models | Extends / instantiates |
|---|---|---|
| `JobOrder` | `jobQueueLess` and the job ranks | |
| `PriorityHeap` | `container/heap` as queue.go uses it: Push, Pop and Drain with the loops that sift up and down, one iteration a step | `JobOrder` |
| `JobQueueContract` | what the `JobQueue` interface promises: a bounded, closable, blocking priority queue | `JobOrder` |
| `JobQueue` | `PriorityJobQueue`: locked sections, one-token channels, cancellation | `JobOrder`; `Contract == INSTANCE JobQueueContract` |
| `JobQueueProofs` | theorems about `JobQueue` and `PriorityHeap` | these two, `TLAPS` |
| `ScanLifecycle` | scanner, Submit, workers, branches, tasks, Wait, ChangeWordlist, Shutdown | the queue by its contract |
| `ScanLifecycleProofs` | theorems about `ScanLifecycle` | `ScanLifecycle`, `TLAPS` |
| `ConfigSnapshot` | the locked config, its immutable snapshot, immediate and debounced rebuilds | |
| `WorkerPool` | Start, SetWorkerCount, autoThrottleCheck, entry and exit of workers | `ConfigSnapshot` |
| `WorkerPoolProofs` | theorems about `WorkerPool` | `WorkerPool`, `TLAPS` |
| `ProxyPool` | turns, cooldowns, back-off with the width of its shift | |
| `RequestPath` | attempts, redirects, the shared anti-bot solver, HTTP/2 streams | |
| `HttpClient` | connections, pool, context watcher, replay of stale connections | |
| `RequestProofs` | theorems about `HttpClient`, `RequestPath`, `ProxyPool` | these three, `TLAPS` |
| `HttpFraming` | one answer byte by byte: header, body, chunks, codings | |
| `ParamPool` | the parameter tasks with their channel, keys and counts; Wait and Shutdown towards them | |
| `ParamDiscovery` | the search on one page | |
| `DiscoveryGraph` | nodes, indexes, harvest and feedback loops | |
| `Resume` | scanner, saves, dump, crash, restart | |
| `ResultPipeline` | Results and logs, the fan-out, the screen, the file | |
| `EnginePartsProofs` | theorems about `ParamPool`, `Resume`, `ResultPipeline`, `DiscoveryGraph` | these four, `TLAPS` |
| `Verdict` | filters, clusters, calibration, signatures, drift | |
| `WafEvasion` | inline retries, bypass tasks, ProbeWAF | |
| `AuthMatrix` | replay under roles and the verdict | |
| `TimingOracle` | calibration, median, threshold, repeats | |
| `Findings` | what the three searches claim, together | `ParamDiscovery`, `AuthMatrix`, `TimingOracle` |
| `ScopeGate` | loading, compiling and asking the scope | |
| `McpGate` | limiter, recovery and audit round each tool | |
| `McpScans` | the registry and the life of a scan or expansion | |
| `Swarm` | chunker, nodes, closer, controller | |
| `Monitor` | cycle, state file, comparison, signal handler | |
| `ServiceProofs` | theorems about `McpScans`, `Monitor`, `ScopeGate`, `McpGate` and `Swarm` | these five, `TLAPS` |
| `TuiList`, `TuiRepeater`, `TuiLogs`, `TuiScreen` | result list, repeater, log panel, keys and commands | |
| `VerdictProofs` | theorems about `Verdict`, `WafEvasion` and `Findings` with its three parts | `Verdict`, `WafEvasion`, `Findings`, `TLAPS` |
| `TuiProofs` | theorems about `TuiRepeater`, `TuiScreen`, `TuiLogs` and `TuiList` | these four, `TLAPS` |
| `MCJobQueue`, `MCScanLifecycle`, `MCWorkerPool` | instances for TLC | the module of that name |
| `MCRequests` | `HttpClient`, `RequestPath`, `ProxyPool` | these three |
| `MCEngineParts` | `ParamPool`, `DiscoveryGraph`, `Resume`, `ResultPipeline`, `PriorityHeap`, `McpGate` | these six |
| `MCPrograms` | `Swarm`, `Monitor`, `McpScans`, `ScopeGate` | these four |
| `MCVerdicts` | `HttpFraming`, `Verdict`, `WafEvasion`, `Findings`, the four `Tui` modules | the same, `HttpFraming` by `INSTANCE` |

`MCRequests`, `MCEngineParts`, `MCPrograms` and `MCVerdicts` put components side by side that share no state: the
variable `part` picks the one that moves in a behaviour, the others keep one of
their initial states. A run therefore explores each component completely, and
its properties speak of one component under `part = "..."`, where they are not
about a component that is proved: those are stated by the component itself
(`HeapSound`, `ExchangesSound`, `ProxiesRotate`, `GraphSound`, `EvasionSound`, `ListSound` and so on), so
that the run and the theorem check the same definition, and hold while the
component rests as well. The
component modules keep the properties as separate named definitions, and
conjoin those of one component to the property a run checks.

### JobQueue

One locked section of `Push`, `Pop`, `Drain` or `Close` is one action, and the
`select` between two attempts is the state `"wait"` of the caller. `h` is the
set of jobs in the heap, `notEmpty` and `notFull` say whether the channel holds
its token. Closing a channel makes every receive succeed, which is how
`PopWake` and `PushWake` treat `closed`. `Pop` may choose any job that no
other job in the heap outranks; `PriorityHeap` shows that the array heap
chooses such a job. `q.mu` is held from the first iteration of a sifting loop to
the last, so one step of `JobQueue` stands for a whole Push or Pop of the heap.

The contract has no tokens and no retry loop: a Push is pending until there is
room, the queue closes or its context is cancelled. `ImplementsContract` says
that the protocol with tokens, fairness included, is one implementation of it.

### ScanLifecycle

A context is named by the RunID it was made for, `cancelled` holds the
cancelled ones, 0 is the cancelled sentinel that a restart installs. `sub[t]`
is the Submit call goroutine `t` is in, `wk[w]`, `scan` and `tk[b]` are where
a worker, the scanner, and a branch or task are, `cw`, `sd` and `wt` where
ChangeWordlist, Shutdown and Wait are. A step is the code between two points
at which another goroutine could see a difference. HTTP responses, filters and
heuristics are nondeterministic outcomes: an error, a filtered response, a hit
with any set of child paths. `tested` is a history variable, the jobs whose
request was made. Paths are sequences of words, so recursion really builds
longer paths and the Bloom filter really sees duplicates (it has no false
positives here).

The queue is used by its contract: a Push that finds room ignores its context,
one that found it full waits for room, cancellation or close.

### ConfigSnapshot and WorkerPool

A call of the engine is the sequence of its steps that other goroutines can
see: `todo[t]` holds what goroutine `t` has yet to do, and the actions consume
it. `UpdateConfig` is an edit under the lock, a copy under the read lock and a
store of the copy under no lock; a setter is an edit and an arming of the
debounce timer, whose function runs in a goroutine of `Rebuilders`.
`SetWorkerCount` is an edit, a rebuild, and the resize under `workerLock`.

A worker goroutine is named by its control (its cancel function), which is never
used again; its id is, once the pool grows after a shrink. `workerControls` maps
ids to controls. `Grow`, `Shrink` and `Leave` are the three places that change the map
or cancel through it. `QuitJob` is the worker that ends by itself in the middle
of a job, because the context of the *scan* was cancelled; the history variable
`lost` has the ids that are without a worker for that reason. The queue is a
number of jobs, since only whether there is one decides what `Pop` does with a
cancelled context.

### HttpClient, HttpFraming, RequestPath and ProxyPool

Three layers, each using the one below as a set of outcomes. In `HttpClient` a
server sends tokens that carry the request they answer, so that reading another
request's bytes is visible as a token of the wrong request. `reqPc` is the
place in SendRawRequestWithContextPolicy, `watch` the connection that its
context watcher guards, `doomed` a connection whose watcher has fired but not
yet closed; the watcher must be stopped (and awaited) before `putIdle`.
`HttpFraming` is the inside of one read: `got` is the number of bytes read so
far and grows by any amount, `headerEnd`, `framing` and `bodyComplete` are what
parseRawResponse concludes from them. Bytes that a server sends beyond its
answer (`surplus`) are part of what a read may bring. In `RequestPath` a send is one step with
any outcome; what the repeated sends, hops, solver waits and semaphore tokens
do with each other is the module. `ProxyPool` computes the cooldown with a
shift of `Width` bits, the code's 64 scaled down with base and cap.

### ParamPool and ParamDiscovery

A task of `ParamPool` is a target with its hints; `seen` holds the reservation
keys, `pending` the WaitGroup's counter, `todo[t]` the tasks a goroutine has
still to enqueue. The rollback of a task that does not fit is the code's
order: reserve, count, try to send, take back. `panicked` is the send on the
closed channel. `ParamDiscovery` is the recursive search as a stack of slices
of the candidate list, each given by its ends; a page has parameters that change
its answer, some only when they come first, others that it answers with 404, or
any query may change it. The sorted list of a set of names (`uniqueStrings`) and
how often a slice of a size can be halved (`Halvings`) are given as functions.

### DiscoveryGraph, Resume, ResultPipeline

A graph method runs under the graph's lock and is one action; the jobs it
returns are submitted one by one afterwards. `Outcome` has the exits of Submit in
their order: the gate and the run, excluded paths, the filter, the cancelled
context. The filter is the one all submitters share (`SubmitOther` is a job of the
wordlist, the spider, a mutation or a branch), a restart renews it and leaves the
graph as it is, and `letGo` remembers which feedback jobs Submit returned from
without queueing them, and why. A source has no path and a feedback job no method; the model names
both (`NoPath`, `NoMethod`). `AddEvents` is `AddEvent` once for each of the
follow-ups of one call. `Resume` writes a file as truncation and content, so a crash can
tear it; `offered` and `inHand` remember which lines Submit has had, which is
what a resume must not skip. `ResultPipeline` has the readers of Results in the
two modes (`tuiMode`), the blocking sends of workers and the non-blocking ones of
auxiliary tasks.

### Verdict, WafEvasion, AuthMatrix, TimingOracle

A body is a number and similarity is closeness of numbers; a site answers
paths, unknown paths and unknown children. `CalibrateSoft404` is one action per
probe, each of which may fail, and the workers take paths only when the last is
over, as in `Start`. The counters, the cluster table and
the signatures are shared by the workers, every locked section is an action,
and the order of the filters is that of the worker. An answer says whether it was
fetched with HEAD, is whole, and was picked by the timing oracle (`slow`): these
pass the mirror test, the clusters or all filters by. `notices` are the messages
of the auto-filter, offered to Results without waiting. `WafEvasion` names
techniques and gives each an answer per path. `AuthMatrix` fills one slot per
role in any order; the answers it compares are named by their positions.
`TimingOracle` counts in integers and compares squares where
the code takes the square root of a variance; the sorted samples are the order
statistics (`IsNth`).

### ScopeGate, McpGate, McpScans, Swarm, Monitor

`ScopeGate` reads the files of the directory one by one while `Disk` rewrites
them; `onDisk` collects every set of assets the directory held during the
check. `McpGate` separates the time stamp from the limiter's lock; of
`sort.Search` it knows only what that promises when the stamps are not in order:
a place where the predicate begins to hold. `McpScans`
has the handler, the engine, the watchers and the cancel tool as actors round
the registry. `Swarm` has the chunker, the nodes, the closer and the
controller, whose select takes any ready case. `Monitor` has main loop, signal
handler, disk, site and crashes. Its file has a row for each method on a path,
its baseline one row for each path, the last that was read (`Read`; none, when
the file cannot be opened or is not read that far). A row is compared with the
tolerance of the code (`SizeChanged`) by what `Served` says of status and size;
body hashes are always empty there, because the monitor never sets SaveRaw.
Three histories remember the changes told (`told`), those told again
(`repeated`), and the rows that are accounted for (`accounted`): in a message,
in a baseline, within the tolerance of the row they were compared with, or lost
with a crash, a failed copy or a refused message.

### Terminal interface

bubbletea calls Update with one message at a time, so a message is an action;
goroutines answer with messages. `TuiList` keeps the code's parallel structures
(lines, hits, two indexes, the marked keys, the side file), `TuiRepeater` the
tabs, the input fields that mirror the active one, and the requests in flight,
`TuiLogs` the ring as start and size over an array and the cached panel,
`TuiScreen` the views with everything a key can reach.

## Runs

| Run | Shows | Bounds |
|---|---|---|
| `queue_safety` | `QueueSound`, `NoLostWakeup` | 2 producers, 2 consumers, 4 jobs, 2 slots: two sleepers of each kind, a token that stands for two jobs |
| `queue_live` | `BurstIsServed`, `CallersReleased`, `ImplementsContract` with its liveness | 1 producer, 2 consumers, 3 jobs, 2 slots |
| `lifecycle_scan` | `WaitMeansDone`, `PathAccounted`, `ScanCompletes` | 2 workers, 2 words, one level of recursion, 1 slot; deadlock is checked |
| `lifecycle_restart` | `Accounting`, `GenerationsApart`, and `RestartCompletes` with nobody reading Results | 1 worker, 2 words, 1 task, one restart, link spidering and recursion |
| `lifecycle_stop` | `NoSendOnClosed` | 1 worker, 2 words, 1 task, Shutdown at any moment, pause, all features |
| `worker_pool` | `PoolSound`, `EditsPublished`, `PoolConverges` | ids 0 and 1, 3 controls, 2 jobs, 3 edits by one user and the throttle: one shrink and one growth, so that an id is used again while its first worker is still busy |
| `requests` | `ExchangesSound`, `RequestsSound`, `ProxiesRotate`, `RequestCredentials`, `RequestReturns` | a repeatable and an unsafe request, 2 connections of which 1 is parked, answers with a length, after an interim one and without end; 1 retry, 2 redirects between 2 origins, 1 stream, 1 refresh; 3 proxies, 2 users, shifts of 8 bits with 5 failures |
| `engine_parts` | `ParamPoolSound`, `GraphSound`, `ResumeSound`, `PipeSound`, `HeapSound`, `GateSound`, `EngineEnds` | 2 targets and 2 parameters, a channel of 1, 2 fuzzers; 2 graph workers, 2 paths of which one is excluded, jobs with and without a method, 3 nodes, 2 responses, one restart and one Shutdown; 2 lines, 3 starts of the program; 2 results, 1 side result, 2 logs, channels of 1; 8 jobs of all ranks in a heap of 6; 3 calls against a limit of 2, a window of 2 ticks |
| `programs` | `SwarmSound`, `MonitorSound`, `ScansSound`, `ScopeSound`, `ProgramsEnd` | 2 nodes, 6 lines in chunks of 2; 1 path of the monitor with 2 methods, versions that differ in status, by less than the tolerance or not at all, BASELINE_RUN after a crash only, 1 crash or 1 signal, 2 write retries; 2 scans under a limit of 1, a cancel call, an expansion; 2 scope files, 7 contents, 22 targets, one rewrite |
| `verdicts` | `FramingSound`, `VerdictsSound`, `EvasionSound`, `FindingsTrue`, `ListSound`, `RepeaterSound`, `LogsSound`, `ScreenSound` | some 110 answers cut anywhere; 5 sites with 5 paths and 2 workers, an older scan of any of the sites for two of them and of the same one for a third, tables of 3; 2 jobs on one path, 3 task techniques, 1 slot; 9 names, 2 of them controls, in chunks of 5; 4 role matrices; 3 durations; a list of 2 lines for 3 results, 2 tabs with 2 requests, a ring of 2, 3 remembered commands |

One generation change is enough to mix two generations, which is what the
restart properties are about; queue and Results have one slot so that full and
empty both happen at once; in the scan run two workers interleave, in the
restart and stop runs the worker interleaves with the scanner, a branch, a task
and the call under test, which is what these properties are about (two workers
there, or a pause in the restart run, whose workers leave as those that were
publishing do, are beyond a run of minutes); one recursion level makes branches appear after Wait has passed its first wait. In
the later runs the same holds of each part: two of whatever competes, one slot
or a limit of one or two where something can be full, and one more element than
fits, so that eviction, trimming, wrapping, refusal and reuse happen. The heap
of six has three levels, both children and a last parent with one child. The
product of 8 bits overflows with the fourth failure in a row as the 64 bits do
with the sixtieth; five failures are allowed.

`CHECK_DEADLOCK FALSE` is used where the system may legitimately stop (a scan
that finished and nobody shuts down, a component whose bounded inputs are used
up) or where the run is about a hang that the property states.

`QueueSound` is the type invariant of the queue, a job in hand exactly during
its Push included, and `CapacityRespected`. What the conjoined properties of
the runs of several components say, part by part:

- `ExchangesSound`: a parked connection is open, parked once and guarded by no
  watcher; a request never returns the bytes of another's answer; no unsafe request is
  written a second time because a pooled connection was stale.
- `RequestsSound`: the retry loop repeats no unsafe request that may have
  arrived; one solver serves all who wait for a host, and each sees its outcome.
- `RequestCredentials`, an action property: credentials go at the first hop to
  another origin and never come back. `RequestReturns`: every request ends.
- `ProxiesRotate`: an available proxy has its turn within one round, and a
  blocked one rests, between twice the base and the cap, until `2^fails * 15`
  leaves the int; from then on it does not rest at all.
- `ParamPoolSound`: the WaitGroup counts exactly the tasks under way, Wait
  returns after the hits of every queued task are published, once each.
- `GraphSound`: a node is younger than its parent, so that parents form no cycle,
  indexes lead to their nodes, a run expands a path once, the filter lets one
  request of a method and path through and swallows none that nobody made unless the scan was
  cancelled, and a feedback job reaches the queue or is let go because its path was
  asked for without a method before, a restart came between, or the scan was cancelled.
- `ResumeSound`: no line is left out that no scan handed to Submit, crash or
  not; after graceful stops only, none is queued twice.
- `PipeSound`: what entered Results is in the file when the program returns,
  each result once; what is counted as dropped is bounded.
- `HeapSound`: the array holds exactly the jobs pushed and not taken, each once;
  nobody outranks the job a Pop takes, although `Less` is no order; and where no
  rank mixes dated and undated jobs, so that it is one, the job taken is the
  first of its rank too.
- `GateSound`: no window of calls in order holds more than the limit, and each
  call that is over has one line of audit, with its outcome.
- `ScopeSound`: the compiled tables answer as the assets mean, with assets that
  were on disk during the call, and refuse everything when a file is malformed.
- `EngineEnds`, `ProgramsEnd`: Shutdown gets past the pool, the fan-out and
  the screen end; executeSwarm returns with no goroutine left, the monitor
  exits after a signal, a cancelled or expired scan answers. Each of the three
  is promised unless a Shutdown of its engine hangs, as the run `shutdown_hangs`
  shows it may: then the worker's call and the scan's handler, with its slot, never end, and the
  monitor's handler keeps `engineMu`.
- `SwarmSound`: no line is in two chunks; success means every line that no
  failure explains. `MonitorSound`: a change of what a path answers to a method is
  told at most once, and every row of the file was told, came with a baseline, is about to
  be told, moved within the tolerance, or lost its message to a crash, a failed copy or a
  refusal. `ScansSound`: running scans stay below the
  limit, slots come back, answer, file and record of a scan agree.
- `FramingSound`: a complete answer was read to its end and is the server's content,
  with whatever came in the same read behind a body of given length; a regular answer is
  complete, with or without bytes behind it; the end of the headers is found where it is,
  but for headers of bare line feeds before a body with CRLF CRLF; ambiguous framing is
  refused and unknown codings are marked.
- `VerdictsSound`: the cluster table is sorted, a body is hidden as soft 404
  for a crowd or a baseline only, the auto-filter offers one notice that it starts
  (a full Results loses it for good), mirrors are recognised where HEAD is not the
  method, alerts compare with the newest older line of the same method.
- `EvasionSound`: one technique once per path, counters and scores follow the
  answers kept, a task publishes its first success, slots and counts return.
- `FindingsTrue`: `ParamsSound` (reported parameters change the page by
  themselves, once each, and without a lost request all are found; a chunk costs
  one request and a known name at most two per halving), `MatrixSound` (a
  finding is about the pages the two roles it names were given, and one user's and
  one admin's answer are compared whoever else failed) and `TimingSound` (a
  request is called slow only when half of its answers are, and with
  trimming the slowest sample of the calibration decides nothing).
- `ListSound`, `RepeaterSound`, `LogsSound`, `ScreenSound`: cursor, marks, indexes and side
  file agree with the lines; a tab sends exactly while its request runs, a
  closed tab's request is cancelled, a late answer reaches its own tab only;
  no key reaches a hidden line or an index out of its list, no view is without
  a way back, the panel shows the newest entries, settings reach the workers.

### Disagreements with the repository's own words

Each of these runs checks one property and TLC finds it violated.

- `shutdown_hangs`: Shutdown "requests a graceful stop and closes the
  result/log channels", but workers that end in the pause loop or while
  publishing leave queued jobs counted in `activeJobs`, on which Shutdown waits.
- `full_queue`: when every worker is in Submit's Push and the queue is full,
  nobody pops.

The other deviations below are visible in the models. Where a module states the
stronger expectation as a definition it is named here; no run checks it,
because the code does not keep it.

- A restart after Shutdown closed `replayCh` never ends its drain loop
  (`RestartCompletes`, with a Shutdown in progress).
- A worker whose control a shrink cancelled takes the next job if there is one
  (`ShrinkStops`): `Pop` looks at the context only when the queue is empty.
- A debounced rebuild that copied the config before an `UpdateConfig` may
  store its copy after it (`SnapshotSettles`).
- After sixty failures in a row the product in the proxies' back-off is negative
  or zero, passes the cap, and the proxy does not rest (`ProxyRests` says so).
- Shutdown may close the parameter channel while a worker re-queues known
  targets (`NoSendOnClosedTasks`); `ParamShutdownReturns` excuses that panic.
- runTUI's comment says that the file never misses a result; one of an
  auxiliary task is dropped before the fan-out when Results is full
  (`FileGetsEveryResult`). The MCP server ignores errors of writing its results
  file (`cmd/mcp/main.go:1056`).
- A chunk whose data ends like a last chunk stops the reading of a chunked body
  early (`BodyIsConsumed`); the answer counts as complete, so a kept connection
  may be parked with the rest of it on the way. `ExchangesSound` is stated for
  servers that send no such chunk (`HttpAssumption`).
- Bytes beyond an answer: behind a body of given length those of the same read
  are kept in the body (`client.go:1232`, `1268` compare with `>=` and nothing is cut
  off) and the connection may be parked, as it is behind a last chunk; an answer without body
  is incomplete with them, but complete when they arrive in a later read.
- Headers ended by bare line feeds are taken for longer when the same read
  also brings CRLF CRLF of the body (`client.go:1133`); such an answer is cut short or
  waits for bytes that do not come.
- With several methods in METHOD the monitor compares a row with the one row its path
  has in the baseline (`main.go:321`), whichever method that was: methods that
  answer differently are reported as a change in every cycle although nothing
  changes. `MonitorReportsOnce` therefore counts the changes within one method.
- The monitor moves its baseline with every cycle, so that a size that drifts in steps within
  the tolerance is never told (`main.go:528`); the code has no content hash to
  tell it by, since no answer is kept (`main.go:357`).
- A feedback job has no method (`worker.go:76`): where the wordlist or the spider
  has submitted the same path without one, the filter swallows it, and it is not
  built again; after a Shutdown the filter may hold a path that was never
  requested (`worker.go:1079`, before the context at `1085`).
- Calls that overtake each other between their time stamp and the limiter's lock
  may exceed the limit of a window (`GateWindowAlways`).
- dirfuzz_expand's engines do not count against the limit of concurrent scans
  (`McpEngineLimit`, docs/MCP_README.md:403); a scan whose `max_duration`
  expires answers "scan failed" without its results; a cancel between register
  and attachCancel is told that nothing runs; tools that take a `scan_id` find
  no engine once the scan is over.
- With a public and an admin answer only, the auth matrix compares the admin's
  answer with itself.
- Two workers on one path may forget each other's mark of a tried technique
  (`waf_evasion.go:194`); ProbeWAF calls a 404 or 500 a bypass
  (`waf_evasion.go:361`).
- A failed request of the parameter search loses its group without a word
  (`paramfuzz.go:447`), a parameter answered with 404 hides its group
  (`paramfuzz.go:657`), and a POST task compares GET probes with a POST baseline.
- A restart clears the seeded baselines with the cluster table (`engine.go:1205`),
  and a full table may evict one.
- In the terminal screen an edit during a running request pairs its history
  entry with the new text, closing the last tab does not mark the tabs as
  changed, and marking in the detail view marks the line under the moved cursor.
- Append-mode history should merge "repeated findings by endpoint identity ... instead
  of duplicating every rediscovery" (`channellog.md:227`), but a line of the auto-filter
  that arrives in a full list drops the oldest line and leaves `logIndexByKey` as it
  is (`tui.go:4804`; `trimOldestLogEntry`, which moves the index, is not called). The
  next sighting of a finding is written over its neighbour's line, and the finding
  stands there twice (`ListNoDuplicates`).
- A finding whose line was pushed out by lines without findings while its hit
  was kept is a new one when it is seen again: the hits hold it twice
  (`ListMergesByIdentity` says what the indexes mean then).

## Fairness

`JobQueue!Spec` gives strong fairness to each caller's wake-up step, because
the Go runtime serves the waiters of a channel in arrival order: a receiver is
not overtaken for ever by others when tokens keep coming. Locked sections have
weak fairness: nothing disables them but the caller's own progress. Contexts
are cancelled and jobs pushed at will, with no fairness.

`ScanLifecycle` gives weak fairness to each goroutine: one that can continue
without interruption does. `SpecWithReader` adds the reader of Results, which
runPlain and the TUI always run; `lifecycle_restart` does without it.
Nothing makes the user act, except that runPlain calls Shutdown after Wait.

`WorkerPool!Spec` has weak fairness for each worker, for the next step of each
call in flight and for the armed timer. Users, the throttle, its reset and the
supply of jobs have none.

The combined runs have weak fairness for each goroutine of the component that
moves, for the same reason: the callers of `RequestPath` (deadlines and timers
are steps of theirs), the reporters, fuzzers and the waiting caller of `ParamPool`,
the reader, the stopper and the senders of `ResultPipeline`, chunk reader and
sender, nodes, closer and controller of `Swarm`, main loop and signal handler of
`Monitor`, handlers and watchers of `McpScans` and the closing of an engine
that was shut down. That an engine's Shutdown returns is not assumed: the node's
call, the monitor's handler and the scan's engine may hang in it instead (`InvokeHangs`,
the handler's state `"hung"`, `ShutdownHangs`), and the properties say what
holds otherwise. Users, signals, servers, crashes, timeouts and other programs
have none. The run `verdicts` has no liveness.

## Proofs

`JobQueueProofs` proves, for any producers, consumers, jobs and capacity
(`QueueAssumption`: callers are of one kind, `MaxLen` is a natural):

- `QueueInvariant`: `Safety => []IInv`;
- `QueueIsSound`, `QueueNoLostWakeup`: `QueueSound` and `NoLostWakeup`, which the
  run `queue_safety` checks, from `QueueTypeOK` and `QueueCapacity` (`NoLostWakeup` is
  `NoLostNotEmpty` and `NoLostNotFull`);
- `QueueRefinesContract`: `Safety => Contract!Safety`.

`IInv` is the conjunction of `TypeOK`, `OneJobPerPush`, `UnboundedNeverFull`,
`CapacityRespected`, `NoLostNotEmpty` and `NoLostNotFull`. The capacity needs
`OneJobPerPush`: a Push adds at most the one job it carries. `NoLostNotFull`
needs the capacity, since Pop signals below `maxLen` only, and
`UnboundedNeverFull`: without a bound no producer ever sleeps, so the
missing signal of an unbounded queue does not matter. The refinement needs all
of it to show that a woken caller's retry is invisible.

For the heap under the queue it proves, for any set of jobs with numeric fields
(`HeapAssumption`) and any bound on its length:

- `HeapIsSound`: `HeapSound`, which the run `engine_parts` checks, from
  `HeapInvariant`: `HeapSafety => []HeapInv`.

`Less` is not transitive where dated and undated jobs of one rank meet, so
`HeapOrder` does not speak of `Less`: it speaks of each relation in `Respected` that
sifting by `Less` keeps in order, which are `Outranks` in any case and `Less` where
it is an order (`RespectedOrder` is all that the proofs need of them). Between
calls every job is in order with its parent; while a loop runs the job it
moves may not be, and then its children are in order with its parent instead,
which is what the next swap needs. During a Pop the job on its way out waits
at the end of the array and is compared with every other. That the root comes first
is no induction over the levels but a descent: the least position with a job
that belongs before the root has a parent with the same fault (`RootFirst`).

`WorkerPoolProofs` proves, for any users, rebuilders and bounds
(`PoolAssumption`: the pool starts with a legal size and the calling
goroutines are the users and the workers):

- `PoolInvariant`: `Safety => []IInv`;
- `PoolIsSound`: `PoolSound`, which the run `worker_pool` checks.

Here `IInv` adds four facts to `TypeOK` and `PoolExact`. `StepsOK`: the steps
still to be done are well formed, and a size in one was clamped when its call
was made. `UnbornOK`: a control beyond `started` has no goroutine yet, so
growing overwrites none. `RegisteredOwn`: a control is registered under its own
worker's id only, so cancelling ids `n` and above tells no worker below `n` to
leave, and the exit of a worker that lost its id to a successor leaves the
successor's entry alone. `LostBelow` bounds the ids that are missing a worker.

`RequestProofs` holds the proofs of the path of a request. For `RequestPath` it
proves, for any finite set of callers and any bounds on
retries, redirects, streams and refreshes (`RequestAssumption`):

- `RequestInvariant`: `RequestSafety => []PathInv`;
- `RequestsAreSound`: `RequestsSound`, which the run `requests` checks, from its
  three parts `RequestTypes`, `RequestRepeatsSafely`, `RequestSharesSolver`;
- `RequestKeepsCredentials`: `RequestCredentials`, which the same run checks.

`PathInv` is `CallsOK` (places, attempts, hops), `SendsOK`, `SolveOK` and
`TokensOK`. The bound on sends is not inductive by itself: `SendsOK` says that
before an attempt there were at most as many sends as attempts counted and
after it at most one more, and a caller that backs off has an attempt left; the
resend after a challenge leads to the answer or to the end, so it happens once.
`SolveOK` adds that the host is marked exactly while one caller solves.
`TokensOK` adds that a caller holds a token exactly at its stream, of a
channel that exists; so a caller that outlives a refresh gives its token back
to the old channel, and the count of the new one is its own.

`ScanLifecycleProofs` proves, for any finite sets of workers and tasks, any
number of words, any depth, any capacities, any number of restarts and all
features of the scan (`LifecycleAssumption`):

- `LifecycleInvariant`: `Safety => []IInv`;
- `LifecycleAccounting`, `LifecycleGenerations`: `Accounting` and
  `GenerationsApart` of the run `lifecycle_restart`;
- `LifecyclePaths`: `PathAccounted`, which `lifecycle_scan` checks;
- `LifecycleNoSendOnClosed`: `NoSendOnClosed`, for users that do not restart;
- `LifecycleWaitMeansDone`: `WaitMeansDone`, for users that neither stop nor
  restart the scan (`PlainRun`, what runPlain does).

`IInv` is the conjunction of `ShapeOK` (types), `CountsOK` (what each WaitGroup
counts), `OwnerOK` (only a goroutine at a place that calls Submit is inside it),
`UniqueOK` (a path that passed the filter is in one place before it is
popped, so that the queue, a set, counts its pushes), `GateOK` (how far a
restart has emptied the engine, by where it is) and `RunsOK` (while the gate is
open everything belongs to the current generation). `Accounting` is not
inductive alone: that the drain loop of ChangeWordlist counts off what it pops
needs to know that nobody is inside Submit then, and that the waits after it
are final needs the order of the waits: no submission, then an empty
queue, then no busy worker and no task, then no branch, since each of these may
bring back the ones before it only while those after it are there.

The theorems about single runs add to `IInv`. `ContextsOK` (who works
for the current generation has its context) and `PathsOK` (a path in the filter is
requested, queued, in a worker's hands or in a Submit call) give `PathAccounted`;
a submitter that gives up because its context is done is why the live context
is a hypothesis there. `ShutOK` says what Shutdown has waited for at each of its
places. It fails when a restart races it: KickoffScanner launches a scanner
after Shutdown waited for the scanners, hence the hypothesis. `ScanOK` and `WordsOK`
say that in a plain run the context is never cancelled, and that every word before
the scanner's cursor is in the filter; so when both waits of Wait are over,
there is nobody left that could add a path, and each was requested.

For `HttpClient`, `RequestProofs` proves, for any requests, number of connections, size of
the pool and any framing of the answers (`HttpAssumption`: servers send
no chunk that looks like a last one):

- `ExchangesAreSound`: `ExchangesSound`, which the run `requests` checks, from
  `HttpInvariant`: `HttpSafety => []HttpInv`.

`HttpInv` is `TypesOK`, `OwnersOK`, `WatchersOK`, `WiresOK` and `SendsOK`. That
nobody reads another's bytes depends on what a connection bears when it is
parked, so `WiresOK` says of every request that what it read and what is still
on the way are together the answer to it, and that nothing is on the way before
it writes. `Reusable` then has to show that a complete body leaves nothing
(`ReadToTheEnd`): each framing for a reason of its own, and an interim
answer is the one that has to be excluded by the status. `OwnersOK` says that a
connection is with one request, parked in one place or gone. `WatchersOK` says that
a watcher that has started belongs to a cancelled request that still holds
the connection, which is why the check of the context in `Finish`, after the
watcher is stopped, makes the connection safe to park. `SendsOK` counts the
writes by the place of the request.

For `ProxyPool` it proves, for any numbers of proxies, users, calls and failures
(`ProxyAssumption`: there is a proxy, twice the base delay is within the cap, and
the shift, a term without variables, is at least two base delays up to the
width and not positive from there on, which 15 and 64 bits satisfy; TLC
evaluates it for the instance, the provers know no powers):

- `ProxiesDoRotate`: `ProxiesRotate`, which the run `requests` checks, from
  `ProxyInvariant`: `ProxySafety => []ProxyInv`.

`ProxyInv` is `ProxyTypes`, `TurnsOK` and `CooldownsOK`. Fairness of the turn is a
matter of distance: the calls that passed a proxy over plus its distance
from the index are less than the number of proxies (`TurnsOK`). A call that hands
out another proxy moves the index nearer to it by at least one, since the one
handed out comes before it in the rotation, and never past it.

`ServiceProofs` holds the proofs of the two programs that run on, of what stands
before a scan, and of the swarm. For
`McpScans` it proves, for any scans, expansions and cancel calls, any
limit and any cap (`McpAssumption`: a call is of one kind, and loadConfig
refuses limits below one):

- `ScansAreSound`: `ScansSound`, which the run `programs` checks, from
  `ScansInvariant`: `ScansSafety => []ScansInv`.

`ScansInv` is `CallsOK`, `RecordsOK`, `CountsOK` (types), `SlotsOK`, `LinesOK` and
`AnswersOK`. `SlotsOK` says that the records marked as running are
exactly the scans in progress, and finitely many: `Register` counts and takes in one
critical section, a step of a scan in progress keeps the mark, and each of the
four ways out (a failed file, a bad target, the answer, a panic) clears
it. That the cap of a record agrees with its count needs to know that a scan that
still collects is below the cap, and that nothing is counted before it starts.
The proof also shows that a cancel call, which reads, cancels and flags in
three steps, cannot disturb any of this, however late its flag comes.

For `Swarm`, `ServiceProofs` proves, for any list, chunk size and start line and any finite,
non-empty set of nodes (`SwarmAssumption`; executeSwarm raises both numbers to
one):

- `SwarmIsSound`: `SwarmSound`, which the run `programs` checks, from
  `SwarmInvariant`: `SwarmSafety => []IInv`.

`IInv` follows the chunks. `ContentOK` says that any two chunks on their way
share no line, `PlacesOK` that a chunk is in one place of one channel, node or
result list, `CoverOK` that while nothing went wrong (`Smooth`) every line
read is in a chunk, the chunker ends at the end of the list or with an error
under way, and a node ends when the chunk channel is closed and empty. When
the controller then finds the result channel closed and empty, every node has
ended, so every chunk is reported (`SuccessIsComplete`). Each exception in
`SwarmLossExplained` is needed: a pending error, a failed chunk and an
interrupt may each lose to the closed channel in the controller's select.

For `Monitor`, `ServiceProofs` proves, for any paths, method lists and served
answers and any bounds on versions, crashes, signals and writes
(`MonitorAssumption`: an answer goes through at least one version and has a numeric
status and size, and writeStateWithRetry tries at least once):

- `MonitorIsSound`: `MonitorSound`, which the run `programs` checks, from
  `MonitorInvariant`: `MonitorSafety => []MonitorInv`.

`MonitorInv` is `TypesOK`, `AgesOK`, `FileOK`, `ReportedOK` and `KnownOK`. That a
change is reported once rests on age: what a path answers to a method only moves
on, and a cycle reads its baseline before its hits, so a change that is told again
would need a baseline at least as new as what it changed to (`ReportedOK`,
`NotYounger`). This holds within one method and not across two, where the
baseline may be the other method's at any age. An answer that goes back to an
earlier version is outside the model, and is rightly told again. `KnownOK` says that
every row of the file and of the baseline in hand is accounted for, except between
the write and the report; there a row to be written is accounted for or
among what `findInteresting` is about to report, because it is either the very row it is
compared with (`SameIsSame`), or within its tolerance and noted with the write
(`Tolerated`), or different. That covers a copy that was cut short too, which
leaves some of these rows.

`EnginePartsProofs` holds the proofs of four parts of the engine. For `ParamPool` it
proves, for any targets, parameters, scan workers, any finite set
of fuzzers and any capacity (`ParamAssumption`: there is a target and a
parameter, the .php targets are targets, a scan worker is no fuzzer):

- `ParamPoolIsSound`: `ParamPoolSound`, which the run `engine_parts` checks, from
  `ParamPoolInvariant`: `PoolSafety => []IInv`.

A key of paramTaskSeen is `Claimed` from its reservation to the send or the
rollback, and `Admitted` after. `ClaimsOK` says that one goroutine claims a
key, which is why a rollback can delete it without deleting somebody else's,
and that what is on the channel or being fuzzed is admitted. `CoverOK`, until a
cancellation, and `OriginOK` say that the hits published or in hand are those
of the admitted tasks that are fuzzed. A fuzzer queues tasks while its own is
counted, and a scan worker does so before Wait gets to the tasks (`CallerOK`),
so that a count of zero means that nothing is left (`WaitIsExact`). That no
task is sent after the close (`NoSendOnClosedTasks`) is not part of it: it
does not hold, since Shutdown closes the channel under fuzzers that queue.

For `Resume` it proves, for a list of any length and any number of starts
(`ResumeAssumption`):

- `ResumeIsSound`: `ResumeSound`, which the run `engine_parts` checks, from
  `ResumeInvariant`: `ResumeSafety => []RInv`.

`RInv` is `FilesOK`, `ScannerOK` (types), `TraceOK` and `DumpOK`. What the run
asks at the end of the list has to hold of every prefix: `TraceOK` says that a
line has been handed to Submit, or was named by a periodic save, if it is not
after the line on file, the line the scan resumes from or the line the scanner
has passed. A torn file needs nothing of its own, since a start refuses it and
its old number stays covered. `DumpOK` follows the lines that were queued while
every stop was graceful: they are in the filter of the running scan, and after
it in the dump, which is why a resume from a smaller number queues none twice.

For `ResultPipeline` it proves, for any finite sets of results and any log events
and channel capacities (`PipeAssumption`):

- `PipeIsSound`: `PipeSound`, which the same run checks, from
  `PipeInvariant`: `PipeSafety => []PInv`.

`PInv` is `SendersOK`, `ChannelsOK`, `ReaderOK` (types), `PlaceOK`, `ClosedOK` and
`DroppedOK`. `PlaceOK` says that a sent result is at one place of the channel
or the file, so the reader moves it and loses none. `ClosedOK` says that Results
is closed after everybody who sends has ended and that the reader ends when it
is closed and empty: without the first a late sender would send into a closed
channel, without the second the file would miss its last results.
`DroppedOK` counts a drop at a result that was given up or at one already in the
file, which bounds `tuiDropped`.

For `DiscoveryGraph` it proves, for any paths, excluded paths, methods, workers, source
types, responses and numbers of nodes, responses and restarts (`GraphAssumption`:
`NoPath` is no path, the restarts have a bound, and the event log has one, as
NewDiscoveryGraph sets it):

- `GraphIsSound`: `GraphSound`, which the same run checks, from
  `GraphInvariant`: `GraphSafety => []GInv`.

`GInv` is `NodesOK`, `AllowedOK`, `SignaturesOK`, `PathsOK`, `EventsOK`, `JobsOK`,
`FilterOK`, `LetGoOK`, `ParentsOK` and `FeedbackOK`. A node's children are exactly the
nodes that name it as parent, and a parent has the smaller ID (`NodesOK`): a link from
a response to an older path makes a new node under the new parent, or finds the one that
is there, and never hangs an old node below a new one. That a run expands a path once
is not a property of the graph but of the filter: children come from the answer
to a job of the node (`ParentsOK`), a job asks for the path of its node
(`JobsOK`), and the filter, which all submitters share, admits one job for a method and a
path and run and holds the keys of the run's jobs (`FilterOK`). While a restart is under way
the filter is still the old run's (`FilterRun`). The same filter is why a feedback job may
be let go; `LetGoOK` keeps the reason, and `FeedbackOK` follows the job until it was
accepted or let go. No excluded path becomes a node (`AllowedOK`), so that exit takes none.

For `McpGate`, `ServiceProofs` proves, for any calls and any positive limit and window
(`GateAssumption`: a rule without them lets every call pass, `main.go:114`):

- `GateIsSound`: `GateSound`, which the run `engine_parts` checks, from
  `GateInvariant`: `GateSafety => []GateInv`.

`GateInv` is `GateTypes`, `KeptOK`, `WindowOK` and `AuditOK`. The limiter's list is
the tail of the calls that passed (`KeptOK`). `WindowOK` says that, as long as those
came in order, what was dropped is a window older than the last one, and so is
any call from the one that passed a limit's number of calls later: when the
`ToolLimit`-th call before is no longer in the list it was dropped, and it cannot be
in the list, which has room. That is what makes a full window impossible
(`GateInvImpliesSound`), and why only order has to be assumed: the search for the
cutoff may end anywhere that looks like one. `AuditOK` says that a line is there
exactly for the calls that are over and that an outcome not yet written agrees
with the answer given.

For `ScopeGate` it proves, for any files, contents, targets and number of rewrites
(`ScopeAssumption`: there is a target, and hosts are sequences of labels):

- `ScopeIsSound`: `ScopeSound`, which the run `programs` checks, from
  `ScopeInvariant`: `ScopeSafety => []ScopeInv`.

Its core is a fact about the operators and no state: `TablesAgree`, the lookup in
tables with default ports and fallback keys finds an entry exactly when one
eligible asset covers the target. It rests on what a suffix is, by position
(`SuffixOf`), and on `WildcardMeaning`: stripping the star and comparing suffixes
asks for at least one label more. `ScopeInv` adds that what a call has read was
on disk since it began, and that a file that stayed malformed is still before it.

`VerdictProofs` holds the proofs of what is made of answers. For `Verdict`
it proves, for any workers, any sites, any finite set of paths and any
threshold and limits (`VerdictAssumption`: the cluster limit is positive, answers
are numbers, and there are no more probes than the table has room for, three
against 5000 in the code):

- `VerdictsAreSound`: `VerdictsSound`, which the run `verdicts` checks, from
  `VerdictInvariant`: `VerdictSafety => []VerdictInv`.

`VerdictInv` is `VerdictTypes`, an ordered table and eight facts. A path is judged once
(`VerdictOnce`), so what a cluster counts are distinct paths: its count is at most the
number of like paths that were held against the table (`VerdictCrowds`), which
turns a full cluster into a crowd. `SeedBaseline` puts a full cluster in front without
sorting, and the table is in order all the same, because before the scan every
count is the limit (`VerdictCalibrates`). As long as nothing was evicted each
baseline has its full cluster (`VerdictBaselines`); a body near a baseline may be
near another cluster too, and the search takes the first, but as the table is
ordered that one is full as well, so no such body is shown, if it can be compared at all (`Compared`). A
fingerprint whose count has reached the limit had its notice or is in the
hands of the worker that reached it (`VerdictCounts`): counting and announcing are two
steps, only one worker is told the limit itself, and so there is one notice
(`VerdictNotices`), whether Results had room for it or not. A path is submitted after
the signatures of all its ancestors are in that HEAD did not fetch (`VerdictMirrors`),
so a page shown is unlike each of them. `VerdictCompares` is the drift.

For
`WafEvasion` it proves, for any finite sets of workers and jobs, any paths, marks,
answers, list of task techniques, number of slots and limit (`EvasionAssumption`):

- `EvasionIsSound`: `EvasionSound`, which the run `verdicts` checks, from
  `EvasionInvariant`: `EvasionSafety => []EvasionInv`.

`EvasionInv` is `EvTypes`, `EvWorkers`, `EvMarks`, `EvCounts`, `EvScore` and
`EvTasks`. That one technique is asked for once per path needs the three steps of
a mark to see the same list (`EvMarks`: what a worker loaded is what is there
still), which is so as long as one worker has the path to itself. The
counters are sizes of sets of workers and jobs; each step moves one worker or
one job from one of these sets to another (`EvCounts`, `EvScore`).

For `ParamDiscovery` it proves, for any pages, names, word lists, controls, chunk
size and number of lost requests (`DiscoveryAssumption`: `uniqueStrings` lists
each name of a set once, and halving a slice makes its longer half one that can
be halved less often):

- `ParamsAreSound`: `ParamsSound`, from
  `DiscoveryInvariant`: `DiscoverySafety => []DiscoveryInv`.

The slices on the stack follow each other without overlap (`Apart`), so a name
is sent alone once and a hit is in no slice any more (`HitsTaken`). A known name
that no slice holds is a hit (`NothingLost`), because a slice with one differs
from the baseline and from every control, whose names are no candidates
(`ControlsForeign`). For the price, `InBudget` gives each known name two requests
for every halving of the slice it is in: of the pairs of a name and a number of
halvings left (`Pending`), a slice that is halved uses up one, which pays for the
slice it adds.

For `AuthMatrix` it proves, for any matrices of roles and any pages
(`MatrixAssumption`: a matrix is finite and not empty, else nothing is tested):

- `MatrixIsSound`: `MatrixSound`, from `AuthInvariant`: `AuthSafety => []AuthInv`.

A slot holds the page of its own role or nothing, and nothing is judged before
all goroutines are done (`SlotsOwn`); the rest is what `pickAuthRoleResponse`
returns, in particular that it is the only role of its level where there is one.

For `TimingOracle` it proves, for any durations and repetitions
(`TimingAssumption`: a calibration has three samples or more, and its `Spread` is an
integer, as a sum of integers is; the provers cannot evaluate a fold, and
TLC evaluates the assumption):

- `TimingIsSound`: `TimingSound`, from `TimingInvariant`: `TimingSafety => []TimingInv`.

The state part is small: a verdict is about the samples still in hand. What
carries the result is that order statistics exist and ascend (`NthExists`,
`NthUnique`), that trimming both ends leaves the median in place (`MedianOK`), so
that half of the samples are not below it, and that a larger maximum leaves every
other place as it was (`ReplacedOK`).

`FindingsAreTrue` puts the three together as `FindingsTrue`, which the run
`verdicts` checks.

`TuiProofs` holds the proofs of the terminal screen. For `TuiRepeater` it proves, for any requests, tabs, sends and starts of the program
(`RepeaterAssumption`: a tab and a history entry fit):

- `RepeaterIsSound`: `RepeaterSound`, which the run `verdicts` checks, from
  `RepeaterInvariant`: `RepeaterSafety => []RepeaterInv`.

The identifiers carry the proof: those of the tabs, those on file and those of
the requests on the way are below `nextID`, and no two tabs share one, so an
answer finds the tab it was sent for or none, and a restart, which counts on
from the largest identifier on file, gives none out twice. The tabs on file are in the
form a restart reads back (`RepFile`).

For `TuiScreen` it proves, for any settings and bounds (`ScreenAssumption`):

- `ScreenIsSound`: `ScreenSound`, which the same run checks, from
  `ScreenInvariant`: `ScreenSafety => []ScreenInv`.

A view that is left comes back as the `previous` one, so what holds of the view
shown has to hold of the one behind: a diff in the background needs its
two samples, and the command line is never what the graph or the log panel was
opened from. `WayHome` names the two keys for each view.

For `TuiLogs` it proves, for any levels, any capacity and height and any number of
events (`LogsAssumption`):

- `LogsIsSound`: `LogsSound`, which the same run checks, from
  `LogsInvariant`: `LogsSafety => []LogsInv`.

`RingOK` says which event is in which slot, counted from `start` round the end
of the array, and that a ring which is not full starts at zero; the snapshot
is then the tail of the events (`SlotOf` does the arithmetic of the modulus).
`CacheOK` says more than the run asks: while it is not dirty the cache is right
for every panel with its key, not only for the one at hand, because the
cursor may move between drawings.

For `TuiList` it proves, for any finite set of findings and any limit and height of
the list (`ListAssumption`):

- `ListIsSound`: `ListSound`, which the same run checks, from
  `ListInvariant`: `ListSafety => []ListInv`.

`ListInv` says of the hits that every key of their index names a hit of that
key (`Names`), of the lines that every line is the one its key names (`Named`,
until a line without a finding has moved them). The two are not the same, and
neither holds of the other list: a key can be in the index of the lines
although its line is gone. `SeenOK` keeps the cursor's line in the window, for
which the proofs count the lines shown before it (`PosIn`) as sizes of sets.

Nine definitions came out of these proofs other than they went in. The list's
property claimed that a finding has one hit; `Names` was not inductive with it,
and five messages show a finding with two (above). The keys of `Press` were
alternatives of one CASE that overlapped, of which TLC took the first and the
provers none. And the filters of the list and the panel were folds over
sequences, of which nothing can be proved; they are sets of positions now.
The baselines of a calibration were one set computed at the start; each probe
is a step now, which may fail and leave none. The sifting of the heap was a
recursive operator; its loops are steps now. The search for parameters cut lists
of names into lists; it cuts an interval of positions now, and `ParamsComplete`
lost a condition on the controls that the proof did not need. The answers the
roles are compared by were a filtered sequence, and are positions. The sorting of
samples was a library algorithm, and is what sorting promises.

Only model-checked: all liveness (temporal reasoning under fairness), the
properties of `ConfigSnapshot`, which are liveness too, and of the run `verdicts` `FramingSound`
(the reading of a chunked body is recursion over its bytes).

## Not modelled

- Channel queue: one Go channel; NewEngine never builds it.
- Event bus, and of the discovery graph the circuit breaker, negative cache and
  budgets: called by tests only.
- Rate limiter: a map of library limiters; callers see a wait that a cancelled
  context ends.
- Harvesters (JavaScript, OpenAPI, archives, source maps): text processing; what they
  submit is in `ScanLifecycle`, what the graph makes of it in `DiscoveryGraph`.
- HTTP/2 dialling, TLS fingerprints, proxy handshakes: external protocols; a
  send has their outcomes.
- Nuclei, out-of-band servers, the Burp extension, notification transports:
  external programs and services.
- Playbook workbench, campaign, knowledge and playbooks: tables and formulas
  without concurrency.
- Replay, report, rendering, flag parsing: formats. Drawing of the terminal
  screen is left out but for what decides which lines are shown.
- In `ScanLifecycle` the passive harvester, a second scanner; the pool resize,
  filters and retries are in their own modules.
- Swarm: the remote call is one outcome; `SwarmWorkerConfig`'s rate limit is never
  applied by the code (`distribute.go:18`). Wordlist lines longer than the
  scanner's buffer end a scan with an error, as any read error does.
- Bytes beyond an answer are in `HttpFraming`, which reads one answer; the servers of
  `HttpClient` send none, so that `ExchangesSound` says nothing of a
  connection parked with such bytes on it.
- The 64-bit SimHash and the calibrating requests are an abstract
  distance and a few samples.

## Plan

1. `JobOrder`, `PriorityHeap`, `JobQueueContract`, `JobQueue`, proofs. *Done.*
2. `ScanLifecycle` with its runs. *Done.*
3. `ConfigSnapshot`, `WorkerPool`, proofs. *Done.*
4. Request path with proofs, client, framing, proxies. *Done.*
5. Parameter pool and search, graph, resume files, pipeline. *Done.*
6. Filters, evasion, roles, timing. *Done.*
7. Swarm, monitor, MCP server, scope. *Done.*
8. Terminal interface. *Done.*
9. Proofs of `ScanLifecycle` and `HttpClient`. *Done.*
10. Proofs of `Swarm`, `McpScans`, `Monitor`, `ParamPool`, `Resume` and
    `ResultPipeline`. *Done.*
11. Proof of `GraphSound`. *Done.*
12. Proofs of `GateSound` and `ScopeSound`. *Done.*
13. Proofs of `ProxiesRotate`, `EvasionSound`, `ListSound`, `RepeaterSound`,
    `LogsSound` and `ScreenSound`. *Done.*
14. Proof of `VerdictsSound`. *Done.*
15. Proof of `HeapSound`. *Done.*
16. Proof of `FindingsTrue`. *Done.*
17. `FramingSound` stays with TLC: what it says is the result of a recursion.

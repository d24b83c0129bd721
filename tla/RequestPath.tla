----------------------------- MODULE RequestPath -----------------------------
(* One request of the engine (pkg/engine/engine_request.go, antibot.go):     *)
(* attempts with retries over HTTP/1.1 or HTTP/2, the anti-bot solver that   *)
(* all callers of a host share, and the redirects that follow.  A single     *)
(* send is one step with any outcome; HttpClient has its inside.             *)
EXTENDS Naturals, FiniteSets

CONSTANTS Callers,       \* goroutines, one request each
          UnsafeCallers, \* those whose request has a method unsafe to repeat
          Origins,       \* scheme, host and port of targets
          Home,          \* the origin of the first request
          MaxRetries,    \* Config.MaxRetries
          Redirects,     \* maxRedirects of each caller, 0 where none are followed
          Streams,       \* Config.H2ConcurrentStreams
          MaxRefresh     \* bound: calls of RefreshH2Client during requests

(* What the engine's configuration grants.                                   *)
RequestAssumption ==
    /\ IsFiniteSet(Callers) /\ UnsafeCallers \subseteq Callers
    /\ Home \in Origins
    /\ MaxRetries \in Nat /\ Redirects \in [Callers -> Nat]
    /\ Streams \in Nat /\ MaxRefresh \in Nat

VARIABLES rqPc,       \* where each caller is
          rqUnsafe,   \* callers whose current request is unsafe to repeat
          rqTry,      \* attempt
          rqHop,      \* redirects followed
          rqAt,       \* the origin of the current request
          rqCred,     \* callers whose request still carries credentials
          rqSends,    \* history: sends of the current request
          rqLost,     \* history: callers whose last send had no answer
          solving,    \* antiBotHostState.solving
          solveErr,   \* antiBotHostState.lastErr is set
          solved,     \* history: callers that wait and for whom a solve succeeded
          semGen,     \* generation of h2StreamSem
          semHeld,    \* semHeld[g]: tokens in the channel of generation g
          rqSem,      \* the generation whose token a caller holds, 0 for none
          stopped     \* the scan's context is cancelled

callVars == <<rqPc, rqUnsafe, rqTry, rqHop, rqAt, rqCred>>
histVars == <<rqSends, rqLost>>
solveVars == <<solving, solveErr, solved>>
semVars == <<semGen, semHeld, rqSem>>
pathVars == <<callVars, histVars, solveVars, semVars, stopped>>

RequestInit ==
    /\ rqPc = [c \in Callers |-> "idle"]
    /\ rqUnsafe = UnsafeCallers
    /\ rqTry = [c \in Callers |-> 0] /\ rqHop = [c \in Callers |-> 0]
    /\ rqAt = [c \in Callers |-> Home] /\ rqCred = Callers
    /\ rqSends = [c \in Callers |-> 0] /\ rqLost = {}
    /\ solving = FALSE /\ solveErr = FALSE /\ solved = {}
    /\ semGen = 1 /\ semHeld = [g \in 1..MaxRefresh + 1 |-> 0]
    /\ rqSem = [c \in Callers |-> 0]
    /\ stopped = FALSE

Goto(c, label) == rqPc' = [rqPc EXCEPT ![c] = label]
At(c, label) == rqPc[c] = label

(* executeRequestWithRetry chooses the protocol once.                        *)
executeRequestWithRetry(c) ==
    /\ At(c, "idle")
    /\ Goto(c, "send") \/ Goto(c, "acquire")
    /\ rqTry' = [rqTry EXCEPT ![c] = 0] /\ rqSends' = [rqSends EXCEPT ![c] = 0]
    /\ UNCHANGED <<rqUnsafe, rqHop, rqAt, rqCred, rqLost, solveVars, semVars, stopped>>

(* automaticRetrySafe                                                        *)
Retries(c) == IF c \in rqUnsafe THEN 0 ELSE MaxRetries

Sent(c, answered) ==
    /\ rqSends' = [rqSends EXCEPT ![c] = @ + 1]
    /\ rqLost' = IF answered THEN rqLost \ {c} ELSE rqLost \union {c}

(* An attempt fails: again after the back-off, or the error is returned, as  *)
(* it is at once when it stems from a context (isContextDoneError), which a  *)
(* timed-out HTTP/2 request does too.                                        *)
AttemptFailed(c) ==
    \/ /\ rqTry[c] < Retries(c) /\ ~stopped
       /\ Goto(c, IF At(c, "send") THEN "backoff" ELSE "h2backoff")
    \/ Goto(c, "failed")

(* executeRequestOnce without an answer.                                     *)
SendFails(c) ==
    /\ At(c, "send")
    /\ Sent(c, FALSE)
    /\ AttemptFailed(c)
    /\ UNCHANGED <<rqUnsafe, rqTry, rqHop, rqAt, rqCred, solveVars, semVars, stopped>>

Responses == [status : {"ok", "denied"}, provider : BOOLEAN, challenge : BOOLEAN]

(* A challenge text is enough, whatever the status (interstitials come with  *)
(* 200); the signature of a provider counts only with 403 or 429.            *)
InspectAntiBotResponse(resp) == resp.challenge \/ (resp.status = "denied" /\ resp.provider)

(* An answer: the cookies are merged and the proxy's status is reported.     *)
SendAnswered(c) ==
    /\ At(c, "send")
    /\ Sent(c, TRUE)
    /\ \E resp \in Responses :
         Goto(c, IF InspectAntiBotResponse(resp) THEN "challenge" ELSE "response")
    /\ UNCHANGED <<rqUnsafe, rqTry, rqHop, rqAt, rqCred, solveVars, semVars, stopped>>

(* The wait before the next attempt ends with the context.                   *)
Backoff(c) ==
    /\ rqPc[c] \in {"backoff", "h2backoff"}
    /\ IF stopped THEN Goto(c, "failed") /\ UNCHANGED rqTry
       ELSE /\ rqTry' = [rqTry EXCEPT ![c] = @ + 1]
            /\ Goto(c, IF At(c, "backoff") THEN "send" ELSE "acquire")
    /\ UNCHANGED <<rqUnsafe, rqHop, rqAt, rqCred, histVars, solveVars, semVars, stopped>>
-----------------------------------------------------------------------------
(* antiBotManager.solve: one solver per host; the others wait for it.        *)
SolveBegin(c) ==
    /\ At(c, "challenge")
    /\ IF solving
       THEN /\ Goto(c, "waiting") /\ solved' = solved \ {c} /\ UNCHANGED <<solving, solveErr>>
       ELSE /\ solving' = TRUE /\ solveErr' = FALSE /\ Goto(c, "solving") /\ UNCHANGED solved
    /\ UNCHANGED <<rqUnsafe, rqTry, rqHop, rqAt, rqCred, histVars, semVars, stopped>>

(* Mutant: the error of a failed attempt is not kept.                        *)
SolveEndForgets(c, ok) ==
    /\ At(c, "solving") /\ (ok => ~stopped)
    /\ solving' = FALSE /\ UNCHANGED solveErr
    /\ solved' = IF ok THEN {d \in Callers : At(d, "waiting")} \union solved ELSE solved
    /\ Goto(c, IF ok THEN "resend" ELSE "response")
    /\ UNCHANGED <<rqUnsafe, rqTry, rqHop, rqAt, rqCred, histVars, semVars, stopped>>

(* The solver has cleared the challenge, or failed (no browser, a deadline,  *)
(* a done context); the deferred call frees the host and wakes the others.   *)
SolveEnd(c, ok) ==
    /\ At(c, "solving") /\ (ok => ~stopped)
    /\ solving' = FALSE /\ solveErr' = ~ok
    /\ solved' = IF ok THEN {d \in Callers : At(d, "waiting")} \union solved ELSE solved
    /\ Goto(c, IF ok THEN "resend" ELSE "response")
    /\ UNCHANGED <<rqUnsafe, rqTry, rqHop, rqAt, rqCred, histVars, semVars, stopped>>

(* Mutant: a waiter looks again only when nobody solves any more.            *)
SolveWaitNoError(c) ==
    /\ At(c, "waiting") /\ ~solving /\ ~solveErr
    /\ Goto(c, "resend")
    /\ UNCHANGED <<rqUnsafe, rqTry, rqHop, rqAt, rqCred, histVars, solveVars, semVars, stopped>>

(* A waiter finds the host free and takes the result of the last solver.     *)
SolveWait(c) ==
    /\ At(c, "waiting") /\ ~solving
    /\ Goto(c, IF solveErr THEN "response" ELSE "resend")
    /\ UNCHANGED <<rqUnsafe, rqTry, rqHop, rqAt, rqCred, histVars, solveVars, semVars, stopped>>

(* handleAntiBotResponse sends once more with the new cookies and keeps the  *)
(* first response when that fails.                                           *)
Resend(c) ==
    /\ At(c, "resend")
    /\ \E answered \in BOOLEAN : Sent(c, answered)
    /\ Goto(c, "response")
    /\ UNCHANGED <<rqUnsafe, rqTry, rqHop, rqAt, rqCred, solveVars, semVars, stopped>>
-----------------------------------------------------------------------------
(* executeH2Request: a token of the semaphore in force, or a done context.   *)
H2Acquire(c) ==
    /\ At(c, "acquire")
    /\ \/ /\ semHeld[semGen] < Streams
          /\ semHeld' = [semHeld EXCEPT ![semGen] = @ + 1]
          /\ rqSem' = [rqSem EXCEPT ![c] = semGen] /\ Goto(c, "h2")
       \/ stopped /\ Goto(c, "failed") /\ UNCHANGED <<semHeld, rqSem>>
    /\ UNCHANGED <<rqUnsafe, rqTry, rqHop, rqAt, rqCred, histVars, solveVars, semGen, stopped>>

(* The send; the deferred release gives the token back to the channel it     *)
(* came from.  No cookies, no proxy and no solver on this path.              *)
H2Do(c) ==
    /\ At(c, "h2")
    /\ semHeld' = [semHeld EXCEPT ![rqSem[c]] = @ - 1]
    /\ rqSem' = [rqSem EXCEPT ![c] = 0]
    /\ \/ Sent(c, TRUE) /\ Goto(c, "response")
       \/ Sent(c, FALSE) /\ AttemptFailed(c)
    /\ UNCHANGED <<rqUnsafe, rqTry, rqHop, rqAt, rqCred, solveVars, semGen, stopped>>

(* SetTarget of a running engine makes a new client and a new semaphore.     *)
RefreshH2Client ==
    /\ semGen <= MaxRefresh
    /\ semGen' = semGen + 1
    /\ UNCHANGED <<callVars, histVars, solveVars, semHeld, rqSem, stopped>>
-----------------------------------------------------------------------------
(* Mutant: credentials are compared with the origin of the first request.    *)
KeepsCredentialsAtHome(c, o) == o = Home

(* buildRedirectRequest drops the credentials when the origin changes.       *)
KeepsCredentials(c, o) == o = rqAt[c] /\ c \in rqCred

(* followRedirectChain: 303, and 301 or 302 of a POST, turn the request into *)
(* a GET; 307 and 308 keep it.  The next request is retried like the first.  *)
followRedirectChain(c) ==
    /\ At(c, "response") /\ rqHop[c] < Redirects[c]
    /\ \E o \in Origins, keepsMethod \in BOOLEAN :
         /\ rqAt' = [rqAt EXCEPT ![c] = o]
         /\ rqCred' = IF KeepsCredentials(c, o) THEN rqCred \union {c} ELSE rqCred \ {c}
         /\ rqUnsafe' = IF keepsMethod THEN rqUnsafe ELSE rqUnsafe \ {c}
    /\ rqHop' = [rqHop EXCEPT ![c] = @ + 1]
    /\ rqLost' = rqLost \ {c}
    /\ Goto(c, "idle")
    /\ UNCHANGED <<rqTry, rqSends, solveVars, semVars, stopped>>

(* Any other response, or a redirect that is not followed, is returned.      *)
Return(c) ==
    /\ At(c, "response")
    /\ Goto(c, "returned")
    /\ UNCHANGED <<rqUnsafe, rqTry, rqHop, rqAt, rqCred, histVars, solveVars, semVars, stopped>>

(* A hop that fails ends the chain with the response before it.              *)
HopFailed(c) ==
    /\ At(c, "failed") /\ rqHop[c] > 0
    /\ Goto(c, "returned")
    /\ UNCHANGED <<rqUnsafe, rqTry, rqHop, rqAt, rqCred, histVars, solveVars, semVars, stopped>>

Stop ==
    /\ ~stopped /\ stopped' = TRUE
    /\ UNCHANGED <<callVars, histVars, solveVars, semVars>>

Caller(c) ==
    \/ executeRequestWithRetry(c) \/ SendFails(c) \/ SendAnswered(c) \/ Backoff(c)
    \/ SolveBegin(c) \/ (\E ok \in BOOLEAN : SolveEnd(c, ok)) \/ SolveWait(c) \/ Resend(c)
    \/ H2Acquire(c) \/ H2Do(c)
    \/ followRedirectChain(c) \/ Return(c) \/ HopFailed(c)

RequestNext == (\E c \in Callers : Caller(c)) \/ RefreshH2Client \/ Stop
-----------------------------------------------------------------------------
RequestTypeOK ==
    /\ rqTry \in [Callers -> 0..MaxRetries] /\ \A c \in Callers : rqHop[c] \in 0..Redirects[c]
    /\ rqUnsafe \union rqCred \union rqLost \union solved \subseteq Callers
    /\ rqAt \in [Callers -> Origins]
    /\ \A g \in DOMAIN semHeld :
         /\ semHeld[g] <= Streams
         /\ semHeld[g] = Cardinality({c \in Callers : rqSem[c] = g})

(* A request that is unsafe to repeat and got no answer is not sent again;   *)
(* and no request is sent more often than its retries and one resend after   *)
(* a solved challenge allow.                                                 *)
RequestNoBlindRepeat ==
    \A c \in Callers :
        /\ c \in rqUnsafe \intersect rqLost => rqPc[c] \in {"response", "failed", "returned"}
        /\ rqSends[c] <= MaxRetries + 2

(* Callers blocked by the same host at the same time share one browser, and  *)
(* one that waited sends again only if a solve succeeded while it waited.    *)
RequestSharedSolve ==
    /\ Cardinality({c \in Callers : At(c, "solving")}) = IF solving THEN 1 ELSE 0
    /\ \A c \in Callers : At(c, "waiting") /\ ~solving /\ ~solveErr => c \in solved

(* The engine repeats no unsafe request that may have arrived, and one solver *)
(* per host serves all who wait for it.                                       *)
RequestsSound == RequestTypeOK /\ RequestNoBlindRepeat /\ RequestSharedSolve

(* Credentials that were dropped on the way to another origin do not come    *)
(* back, not even when the chain returns to the first origin.                *)
RequestCredentials ==
    [][/\ rqCred' \subseteq rqCred
       /\ \A c \in Callers : rqAt'[c] # rqAt[c] => c \notin rqCred']_pathVars

(* Every request comes to an end: the retries run out, the solver frees the  *)
(* host whatever happens to it, a stream token is always given back.         *)
RequestReturns ==
    \A c \in Callers : rqPc[c] \in {"send", "acquire"} ~> rqPc[c] \in {"failed", "returned"}
=============================================================================

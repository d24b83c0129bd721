----------------------------- MODULE MCRequests ------------------------------
(* The request path for TLC: the raw HTTP client with its connection pool,   *)
(* the retries, redirects and the anti-bot solver above it, and the proxy    *)
(* rotation.  The three share no state; a behaviour moves one of them.       *)
EXTENDS HttpClient, RequestPath, ProxyPool, TLC

CONSTANTS get, post   \* a request that may be repeated and one that may not

VARIABLES part

Response(framing, keepalive) == [framing |-> framing, keepalive |-> keepalive, decoy |-> FALSE]
MCShapes == {Response("length", TRUE), Response("interim", TRUE), Response("close10", FALSE)}
MCRedirects == (get :> 0) @@ (post :> 2)

ASSUME RequestAssumptionHolds == RequestAssumption

vars == <<part, httpVars, pathVars, proxyVars>>

Init ==
    /\ part \in {"http", "path", "proxy"}
    /\ HttpInit /\ RequestInit /\ LoadProxies

Next ==
    \/ part = "http" /\ HttpNext /\ UNCHANGED <<part, pathVars, proxyVars>>
    \/ part = "path" /\ RequestNext /\ UNCHANGED <<part, httpVars, proxyVars>>
    \/ part = "proxy" /\ ProxyNext /\ UNCHANGED <<part, httpVars, pathVars>>

(* A goroutine that can go on does: the deadlines of the requests and of the *)
(* solver, and the back-off timers, are steps of theirs.                     *)
Spec ==
    /\ Init /\ [][Next]_vars
    /\ \A c \in {get, post} : WF_pathVars(part = "path" /\ Caller(c))

=============================================================================

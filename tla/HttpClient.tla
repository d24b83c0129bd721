----------------------------- MODULE HttpClient -----------------------------
(* The raw HTTP/1.1 client (pkg/httpclient/client.go) with its pool of idle  *)
(* keep-alive connections (pool.go): one request per goroutine, a server     *)
(* that answers, stalls or closes, and a context that may be cancelled at    *)
(* any moment.                                                               *)
(*                                                                           *)
(* What the server sends is a sequence of tokens, each with the request it   *)
(* answers: "head" ends the header block, "end" is the last part of a body,  *)
(* and "decoy" is chunk data that contains an empty last chunk.              *)
EXTENDS Naturals, Sequences, FiniteSets, SequencesExt

CONSTANTS Requests,   \* one SendRawRequestWithContextPolicy each
          Unsafe,     \* those whose method is not safe to repeat
          MayProxy,   \* those that may be given a proxy
          NumConns,   \* bound: connections that are ever dialled
          MaxIdle,    \* maxIdle of the pool
          Shapes      \* the responses the server may choose

Framings == {"length", "chunked", "close", "close10", "none", "interim", "broken"}

(* The read loop takes chunk data that looks like an empty last chunk for    *)
(* the end of the body (BodyIsConsumed in HttpFraming); what is said here of *)
(* shared connections is said of servers that send no such chunk.            *)
ASSUME HttpAssumption ==
    /\ NumConns \in Nat /\ MaxIdle \in Nat
    /\ Shapes \subseteq [framing : Framings, keepalive : BOOLEAN, decoy : BOOLEAN]
    /\ \A s \in Shapes : s.framing = "chunked" => ~s.decoy

VARIABLES reqPc,      \* where each request is
          reqConn,    \* the connection in its hands, 0 for none
          reqPooled,  \* that connection came from the pool
          reqBuf,     \* what it has read from it
          reqErr,     \* the last read failed: "", "eof" or "error"
          proxied,    \* requests that go through a proxy
          reqSent,    \* history: how often it was written, in part or whole
          cancelled,  \* requests whose context is done
          watch,      \* the connection a context watcher guards, 0 for none
          doomed,     \* connections whose watcher has started to close them
          idle,       \* the pool, the last one put first out
          dialled,    \* connections are numbered as they are dialled
          shut,       \* connections closed on this side
          hungUp,     \* connections closed by the server
          wire,       \* wire[c]: tokens on their way to the client
          shape       \* shape[c]: the response being read from c

reqVars == <<reqPc, reqConn, reqPooled, reqBuf, reqErr, proxied, reqSent>>
ctxVars == <<cancelled, watch, doomed>>
netVars == <<dialled, hungUp, wire, shape>>
httpVars == <<reqVars, ctxVars, idle, shut, netVars>>

Conns == 1..NumConns

(* framing is one of "length", "chunked", "close" and "close10" (the body    *)
(* ends with the connection, the latter in HTTP/1.0), "none" (HEAD, 204,     *)
(* 304), "interim" (1xx before the response) and "broken" (both lengths,     *)
(* conflicting lengths, chunked not last).                                   *)
Parts(s) ==
    CASE s.framing \in {"none", "broken"} -> <<"head">>
      [] s.framing = "interim" -> <<"head", "head", "end">>
      [] s.framing \notin {"none", "broken", "interim"} /\ s.decoy -> <<"head", "decoy", "end">>
      [] OTHER -> <<"head", "end">>

Tokens(r, s) == [i \in DOMAIN Parts(s) |-> <<r, Parts(s)[i]>>]

NoShape == [framing |-> "none", keepalive |-> FALSE, decoy |-> FALSE]

HttpInit ==
    /\ reqPc = [r \in Requests |-> "idle"]
    /\ reqConn = [r \in Requests |-> 0]
    /\ reqPooled = [r \in Requests |-> FALSE]
    /\ reqBuf = [r \in Requests |-> <<>>]
    /\ reqErr = [r \in Requests |-> ""]
    /\ proxied = {} /\ reqSent = [r \in Requests |-> 0]
    /\ cancelled = {} /\ watch = [r \in Requests |-> 0] /\ doomed = {}
    /\ idle = <<>> /\ shut = {}
    /\ dialled = 0 /\ hungUp = {}
    /\ wire = [c \in Conns |-> <<>>] /\ shape = [c \in Conns |-> NoShape]

Move(r, label) == reqPc' = [reqPc EXCEPT ![r] = label]
Is(r, label) == reqPc[r] = label
Give(r, c) == reqConn' = [reqConn EXCEPT ![r] = c]
Watch(r, c) == watch' = [watch EXCEPT ![r] = c]

(* The request is done with its connection: what was read of it and what is  *)
(* on the way, and a watcher that closes it once more, are of no account.    *)
Release(r, label) ==
    /\ Give(r, 0) /\ Watch(r, 0) /\ Move(r, label)
    /\ reqBuf' = [reqBuf EXCEPT ![r] = <<>>] /\ reqErr' = [reqErr EXCEPT ![r] = ""]
    /\ shape' = [shape EXCEPT ![reqConn[r]] = NoShape]

CloseConn(r, label) ==
    /\ Release(r, label)
    /\ shut' = shut \union {reqConn[r]} /\ doomed' = doomed \ {reqConn[r]}
    /\ wire' = [wire EXCEPT ![reqConn[r]] = <<>>]
-----------------------------------------------------------------------------
(* ConnPool.Get: the last connection first; those that have been idle too    *)
(* long, any number of the last ones, are closed and dropped.                *)
PoolGet(r) ==
    /\ Is(r, "idle")
    /\ \E keep \in 0..Len(idle) :
         LET expired == {idle[i] : i \in keep + 1..Len(idle)} IN
         /\ shut' = shut \union expired
         /\ IF keep = 0
            THEN idle' = <<>> /\ Move(r, "dial") /\ UNCHANGED <<reqConn, reqPooled>>
            ELSE /\ idle' = SubSeq(idle, 1, keep - 1)
                 /\ Give(r, idle[keep]) /\ reqPooled' = [reqPooled EXCEPT ![r] = TRUE]
                 /\ Move(r, "watch")
    /\ UNCHANGED <<reqBuf, reqErr, proxied, reqSent, ctxVars, netVars>>

(* A request through a proxy never looks into the pool.                      *)
ProxyDial(r) ==
    /\ Is(r, "idle") /\ r \in MayProxy
    /\ proxied' = proxied \union {r}
    /\ Move(r, "dial")
    /\ UNCHANGED <<reqConn, reqPooled, reqBuf, reqErr, reqSent, ctxVars, idle, shut, netVars>>

(* dialNew: it fails (a refused or private address, a failed handshake or    *)
(* CONNECT, a done context) or gives a new connection.  "redial" is the      *)
(* second attempt of a request that may be repeated.                         *)
dialNew(r) ==
    /\ reqPc[r] \in {"dial", "redial"}
    /\ \/ Move(r, "failed") /\ UNCHANGED <<reqConn, reqPooled, dialled>>
       \/ /\ r \notin cancelled /\ dialled < NumConns
          /\ dialled' = dialled + 1
          /\ Give(r, dialled + 1) /\ reqPooled' = [reqPooled EXCEPT ![r] = FALSE]
          /\ Move(r, IF Is(r, "dial") THEN "watch" ELSE "rewatch")
    /\ UNCHANGED <<reqBuf, reqErr, proxied, reqSent, ctxVars, idle, shut, hungUp, wire, shape>>

(* stopConnOnContextDone: on a context that is already done the watcher      *)
(* starts at once.  Then the deadline is set and the context looked at; the  *)
(* second attempt does not look.                                             *)
stopConnOnContextDone(r) ==
    /\ reqPc[r] \in {"watch", "rewatch"}
    /\ IF r \in cancelled
       THEN doomed' = doomed \union {reqConn[r]} /\ UNCHANGED watch
       ELSE Watch(r, reqConn[r]) /\ UNCHANGED doomed
    /\ Move(r, IF Is(r, "watch") THEN "write" ELSE "rewrite")
    /\ UNCHANGED <<reqConn, reqPooled, reqBuf, reqErr, proxied, reqSent, cancelled, idle, shut, netVars>>

CheckContext(r) ==
    /\ Is(r, "write")
    /\ IF r \in cancelled THEN CloseConn(r, "failed")
       ELSE Move(r, "send") /\ UNCHANGED <<reqConn, reqBuf, reqErr, watch, doomed, shut, wire, shape>>
    /\ UNCHANGED <<reqPooled, proxied, reqSent, cancelled, idle, dialled, hungUp>>

(* conn.Write.  It fails on a closed connection; it may also succeed on one  *)
(* that the server has closed.  The server answers what reaches it.          *)
Write(r, s) ==
    /\ reqPc[r] \in {"send", "rewrite"}
    /\ LET c == reqConn[r] IN
       /\ c \notin shut
       /\ reqSent' = [reqSent EXCEPT ![r] = @ + 1]
       /\ reqBuf' = [reqBuf EXCEPT ![r] = <<>>] /\ reqErr' = [reqErr EXCEPT ![r] = ""]
       /\ IF c \in hungUp THEN UNCHANGED <<wire, shape>>
          ELSE /\ wire' = [wire EXCEPT ![c] = @ \o Tokens(r, s)]
               /\ shape' = [shape EXCEPT ![c] = s]
       /\ Move(r, IF Is(r, "send") THEN "read" ELSE "reread")
    /\ UNCHANGED <<reqConn, reqPooled, proxied, ctxVars, idle, shut, dialled, hungUp>>

requestReplaySafe(r) == r \notin Unsafe

(* A write that failed may have sent a part of the request.                  *)
WriteFails(r) ==
    /\ reqPc[r] \in {"send", "rewrite"}
    /\ reqConn[r] \in shut \union hungUp
    /\ reqSent' = [reqSent EXCEPT ![r] = @ + 1]
    /\ CloseConn(r, IF Is(r, "send") /\ r \notin cancelled /\ requestReplaySafe(r)
                    THEN "redial" ELSE "failed")
    /\ UNCHANGED <<reqPooled, proxied, cancelled, idle, dialled, hungUp>>
-----------------------------------------------------------------------------
(* parseRawResponse.  What it has seen of the response it is reading.        *)
HeaderParsed(r) == reqBuf[r] # <<>>

responseHasNoBody(r) == shape[reqConn[r]].framing \in {"none", "interim"}

hasCompleteChunkedBody(r) == \E i \in DOMAIN reqBuf[r] : reqBuf[r][i][2] \in {"end", "decoy"}
HasWholeLength(r) == \E i \in DOMAIN reqBuf[r] : reqBuf[r][i][2] = "end"

(* The read loop stops here without another Read.                            *)
StopsReading(r) ==
    /\ HeaderParsed(r)
    /\ LET f == shape[reqConn[r]].framing IN
         \/ responseHasNoBody(r) \/ f = "broken"
         \/ f = "chunked" /\ hasCompleteChunkedBody(r)
         \/ f = "length" /\ HasWholeLength(r)

(* One conn.Read of any number of tokens.                                    *)
Read(r) ==
    /\ reqPc[r] \in {"read", "reread"} /\ reqErr[r] = "" /\ ~StopsReading(r)
    /\ LET c == reqConn[r] IN
       /\ c \notin shut /\ wire[c] # <<>>
       /\ \E n \in 1..Len(wire[c]) :
            /\ reqBuf' = [reqBuf EXCEPT ![r] = @ \o SubSeq(wire[c], 1, n)]
            /\ wire' = [wire EXCEPT ![c] = SubSeq(@, n + 1, Len(@))]
    /\ UNCHANGED <<reqPc, reqConn, reqPooled, reqErr, proxied, reqSent, ctxVars, idle, shut, dialled,
                   hungUp, shape>>

(* End of file, or an error: the deadline, or the watcher closed the socket. *)
ReadFails(r) ==
    /\ reqPc[r] \in {"read", "reread"} /\ reqErr[r] = "" /\ ~StopsReading(r)
    /\ reqErr' = [reqErr EXCEPT ![r] =
                    IF reqConn[r] \in hungUp \ shut /\ wire[reqConn[r]] = <<>> THEN "eof" ELSE "error"]
    /\ UNCHANGED <<reqPc, reqConn, reqPooled, reqBuf, proxied, reqSent, ctxVars, idle, shut, netVars>>

(* The body ends where the framing says and the last read did not fail; the  *)
(* end of file ends the body of HTTP/1.0.                                    *)
BodyComplete(r) ==
    /\ HeaderParsed(r)
    /\ IF shape[reqConn[r]].framing = "close10" THEN reqErr[r] = "eof" ELSE reqErr[r] = ""
    /\ responseHasNoBody(r) => Len(reqBuf[r]) = 1

(* A response that is empty or broken is an error.  Only a request that is   *)
(* safe and whose connection was a pooled one is sent once more.             *)
ParseFails(r) ==
    /\ reqPc[r] \in {"read", "reread"} /\ (reqErr[r] # "" \/ StopsReading(r))
    /\ ~HeaderParsed(r) \/ shape[reqConn[r]].framing = "broken"
    /\ CloseConn(r, IF Is(r, "read") /\ reqPooled[r] /\ requestReplaySafe(r) /\ r \notin cancelled
                    THEN "redial" ELSE "failed")
    /\ UNCHANGED <<reqPooled, proxied, reqSent, cancelled, idle, dialled, hungUp>>

(* stopContextWatch: a watcher that has started is not stopped.              *)
Parsed(r) ==
    /\ reqPc[r] \in {"read", "reread"} /\ (reqErr[r] # "" \/ StopsReading(r))
    /\ HeaderParsed(r) /\ shape[reqConn[r]].framing # "broken"
    /\ Watch(r, 0)
    /\ Move(r, "parsed")
    /\ UNCHANGED <<reqConn, reqPooled, reqBuf, reqErr, proxied, reqSent, cancelled, doomed, idle,
                   shut, netVars>>

Finish(r) ==
    /\ Is(r, "parsed")
    /\ IF r \in cancelled THEN CloseConn(r, "failed")
       ELSE Move(r, "return") /\ UNCHANGED <<reqConn, reqBuf, reqErr, watch, doomed, shut, wire, shape>>
    /\ UNCHANGED <<reqPooled, proxied, reqSent, cancelled, idle, dialled, hungUp>>

(* Mutant: an interim status is as good as a final one.                      *)
ReusableWhateverStatus(r) ==
    r \notin proxied /\ shape[reqConn[r]].keepalive /\ BodyComplete(r)

(* A final status, keep-alive (responseAllowsKeepalive) and a complete body. *)
Reusable(r) ==
    /\ r \notin proxied
    /\ shape[reqConn[r]].framing # "interim"
    /\ shape[reqConn[r]].keepalive
    /\ BodyComplete(r)

(* ConnPool.Put, which closes the connection when the pool is full.          *)
PoolPut(r) ==
    /\ Is(r, "return") /\ Reusable(r) /\ Len(idle) < MaxIdle
    /\ idle' = Append(idle, reqConn[r])
    /\ Release(r, "answered")
    /\ UNCHANGED <<reqPooled, proxied, reqSent, cancelled, doomed, shut, dialled, hungUp, wire>>

Discard(r) ==
    /\ Is(r, "return") /\ (~Reusable(r) \/ Len(idle) >= MaxIdle)
    /\ CloseConn(r, "answered")
    /\ UNCHANGED <<reqPooled, proxied, reqSent, cancelled, idle, dialled, hungUp>>
-----------------------------------------------------------------------------
(* The environment: a context is cancelled, which starts its watcher; the    *)
(* watcher closes its connection some time later; the server hangs up.       *)
Cancel(r) ==
    /\ r \notin cancelled /\ reqPc[r] \notin {"failed", "answered"}
    /\ cancelled' = cancelled \union {r}
    /\ doomed' = doomed \union ({watch[r]} \ {0})
    /\ Watch(r, 0)
    /\ UNCHANGED <<reqVars, idle, shut, netVars>>

WatcherCloses(c) ==
    /\ c \in doomed
    /\ doomed' = doomed \ {c} /\ shut' = shut \union {c}
    /\ UNCHANGED <<reqVars, cancelled, watch, idle, netVars>>

HangUp(c) ==
    /\ c <= dialled /\ c \notin hungUp \union shut
    /\ hungUp' = hungUp \union {c}
    /\ UNCHANGED <<reqVars, ctxVars, idle, shut, dialled, wire, shape>>

Step(r) ==
    \/ PoolGet(r) \/ ProxyDial(r) \/ dialNew(r) \/ stopConnOnContextDone(r)
    \/ CheckContext(r) \/ WriteFails(r) \/ \E s \in Shapes : Write(r, s)
    \/ Read(r) \/ ReadFails(r) \/ ParseFails(r) \/ Parsed(r) \/ Finish(r)
    \/ PoolPut(r) \/ Discard(r)

HttpNext ==
    \/ \E r \in Requests : Step(r) \/ Cancel(r)
    \/ \E c \in Conns : WatcherCloses(c) \/ HangUp(c)
-----------------------------------------------------------------------------
HttpTypeOK ==
    /\ reqConn \in [Requests -> 0..NumConns] /\ watch \in [Requests -> 0..NumConns]
    /\ reqPooled \in [Requests -> BOOLEAN]
    /\ reqErr \in [Requests -> {"", "eof", "error"}]
    /\ reqSent \in [Requests -> Nat]
    /\ doomed \union shut \union hungUp \subseteq Conns /\ dialled \in 0..NumConns
    /\ idle \in Seq(Conns) /\ Len(idle) <= MaxIdle
    /\ \A r \in Requests : reqConn[r] = 0 <=>
         reqPc[r] \in {"idle", "dial", "redial", "failed", "answered"}

(* A parked connection has one owner and a future: it is parked once, no     *)
(* request holds it, it is open, and no watcher of the request that parked   *)
(* it is about to close it under the next one.                               *)
HttpPoolSound ==
    /\ IsInjective(idle)
    /\ \A i \in DOMAIN idle :
         /\ idle[i] \notin shut \union doomed
         /\ \A r \in Requests : reqConn[r] # idle[i] /\ watch[r] # idle[i]

(* A request is never answered with bytes that were meant for another one    *)
(* that used the connection before.                                          *)
HttpOwnResponse == \A r \in Requests : \A i \in DOMAIN reqBuf[r] : reqBuf[r][i][1] = r

(* A request whose method is not safe reaches the wire at most once, however *)
(* its connection fails, and any other at most twice.                        *)
HttpNoUnsafeReplay == \A r \in Requests : reqSent[r] <= IF r \in Unsafe THEN 1 ELSE 2

(* Connections are shared soundly: a parked one is open, parked once and      *)
(* watched by nobody, nobody reads the answer to an earlier request, and no   *)
(* unsafe request is sent again because a connection was stale.               *)
ExchangesSound == HttpTypeOK /\ HttpPoolSound /\ HttpOwnResponse /\ HttpNoUnsafeReplay
=============================================================================

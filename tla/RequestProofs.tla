--------------------------- MODULE RequestProofs ---------------------------
(* Requests on their way out, for any number of callers, connections and      *)
(* proxies: the raw client hands connections on clean and answers each        *)
(* request with its own response, the path repeats no unsafe request blindly  *)
(* and keeps credentials at home, and the rotation serves every proxy.        *)
EXTENDS HttpClient, RequestPath, ProxyPool, FiniteSetTheorems, SequenceTheorems,
        WellFoundedInduction, TLAPS

-----------------------------------------------------------------------------
(* The raw HTTP client for any number of requests and connections and any    *)
(* size of the pool: connections are handed on clean, open and unguarded,    *)
(* every answer is the request's own, and no unsafe request is repeated.     *)

HttpSafety == HttpInit /\ [][HttpNext]_httpVars

-----------------------------------------------------------------------------
(* Places of a request: without a connection, with one that is still silent, *)
(* while it reads, and when it has read.                                     *)
Empty == {"idle", "dial", "redial", "failed", "answered"}
Silent == {"watch", "rewatch", "write", "send", "rewrite"}
Reading == {"read", "reread"}
Done == {"parsed", "return"}

Holds(r, c) == reqConn[r] = c /\ c # 0

ShapeSet == [framing : Framings, keepalive : BOOLEAN, decoy : BOOLEAN]
Token == Requests \X {"head", "decoy", "end"}

Places == Empty \union Silent \union Reading \union Done

PlacesOK ==
    /\ reqPc \in [Requests -> Places]
    /\ reqConn \in [Requests -> 0..NumConns] /\ watch \in [Requests -> 0..NumConns]
    /\ \A r \in Requests : reqConn[r] = 0 <=> reqPc[r] \in Empty

BytesOK ==
    /\ reqBuf \in [Requests -> Seq(Token)] /\ wire \in [Conns -> Seq(Token)]
    /\ shape \in [Conns -> ShapeSet] /\ reqErr \in [Requests -> {"", "eof", "error"}]

CountsOK ==
    /\ reqPooled \in [Requests -> BOOLEAN] /\ reqSent \in [Requests -> Nat]
    /\ dialled \in 0..NumConns /\ hungUp \subseteq Conns
    /\ idle \in Seq(Conns) /\ Len(idle) <= MaxIdle

TypesOK == PlacesOK /\ BytesOK /\ CountsOK

(* A dialled connection is with one request, parked in one place, or gone.   *)
OwnersOK ==
    /\ \A r \in Requests : reqConn[r] <= dialled
    /\ \A i \in 1..Len(idle) : idle[i] <= dialled
    /\ shut \subseteq 1..dialled
    /\ \A r, q \in Requests : reqConn[r] = reqConn[q] /\ reqConn[r] # 0 => r = q
    /\ \A i, j \in 1..Len(idle) : idle[i] = idle[j] => i = j
    /\ \A r \in Requests : \A i \in 1..Len(idle) : reqConn[r] # idle[i]

(* A watcher guards the connection its request holds and starts only when    *)
(* the request is cancelled; what a request may park is safe from watchers.  *)
WatchersOK ==
    /\ \A r \in Requests : watch[r] # 0 =>
         watch[r] = reqConn[r] /\ r \notin cancelled /\ reqPc[r] \notin Done
    /\ \A c \in doomed : \E r \in Requests : Holds(r, c) /\ r \in cancelled
    /\ \A r \in Requests :
         reqConn[r] \in shut => r \in cancelled /\ reqPc[r] # "return"
    /\ \A r \in Requests : reqPc[r] = "return" => reqConn[r] \notin doomed
    /\ \A i \in 1..Len(idle) : idle[i] \notin shut

(* What was read and what is on its way make up one answer.                  *)
Whole(b, w, t) ==
    /\ Len(b) + Len(w) = Len(t)
    /\ \A i \in 1..Len(b) : b[i] = t[i]
    /\ \A i \in 1..Len(w) : w[i] = t[Len(b) + i]

Unheld(c) == \A r \in Requests : reqConn[r] # c

AnswerOK(r) ==
    /\ reqPc[r] \in Empty \union Silent => reqBuf[r] = <<>> /\ reqErr[r] = ""
    /\ reqPc[r] \in Silent => wire[reqConn[r]] = <<>> /\ shape[reqConn[r]] = NoShape
    /\ reqPc[r] \in Reading \union Done =>
         /\ shape[reqConn[r]] \in Shapes \union {NoShape}
         /\ \/ reqBuf[r] = <<>> /\ wire[reqConn[r]] = <<>>
            \/ Whole(reqBuf[r], wire[reqConn[r]], Tokens(r, shape[reqConn[r]]))
         /\ reqErr[r] = "eof" => wire[reqConn[r]] = <<>>
    /\ reqPc[r] \in Done => (reqErr[r] # "" \/ StopsReading(r)) /\ reqBuf[r] # <<>>

WiresOK ==
    /\ \A c \in Conns : Unheld(c) => wire[c] = <<>> /\ shape[c] = NoShape
    /\ \A r \in Requests : AnswerOK(r)

(* How often a request was written, by its place.                            *)
SendsOK ==
    \A r \in Requests :
        /\ reqPc[r] \in {"idle", "dial", "watch", "write", "send"} => reqSent[r] = 0
        /\ reqPc[r] = "read" => reqSent[r] = 1
        /\ reqPc[r] \in {"redial", "rewatch", "rewrite"} => reqSent[r] = 1 /\ r \notin Unsafe
        /\ reqPc[r] = "reread" => reqSent[r] = 2 /\ r \notin Unsafe
        /\ reqSent[r] <= IF r \in Unsafe THEN 1 ELSE 2

HttpInv == TypesOK /\ OwnersOK /\ WatchersOK /\ WiresOK /\ SendsOK
-----------------------------------------------------------------------------
(* The tokens of an answer: its last one, and only it, ends the body, unless *)
(* the answer is an interim one.                                             *)
LEMMA TokensShape ==
    ASSUME NEW r \in Requests, NEW s \in Shapes \union {NoShape}
    PROVE  /\ Tokens(r, s) \in Seq(Token)
           /\ Len(Tokens(r, s)) \in 1..3
           /\ \A i \in 1..Len(Tokens(r, s)) : Tokens(r, s)[i][1] = r
           /\ s.framing \in {"none", "broken"} => Len(Tokens(r, s)) = 1
           /\ s.framing \notin {"none", "broken", "interim"} =>
                \A i \in 1..Len(Tokens(r, s)) :
                   \/ Tokens(r, s)[i][2] = "end"
                   \/ s.framing = "chunked" /\ Tokens(r, s)[i][2] = "decoy"
                   => i = Len(Tokens(r, s))
<1>1. CASE s.framing \in {"none", "broken"}
  <2>1. Parts(s) = <<"head">>
    BY <1>1 DEF Parts
  <2>2. Tokens(r, s) = <<<<r, "head">>>>
    BY <2>1 DEF Tokens
  <2>3. QED
    BY <1>1, <2>2 DEF Token
<1>2. CASE s.framing = "interim"
  <2>1. Parts(s) = <<"head", "head", "end">>
    BY <1>2 DEF Parts
  <2>2. Tokens(r, s) = <<<<r, "head">>, <<r, "head">>, <<r, "end">>>>
    BY <2>1 DEF Tokens
  <2>3. QED
    BY <1>2, <2>2 DEF Token
<1>3. CASE s.framing \notin {"none", "broken", "interim"} /\ s.decoy
  <2>1. Parts(s) = <<"head", "decoy", "end">>
    BY <1>3 DEF Parts
  <2>2. Tokens(r, s) = <<<<r, "head">>, <<r, "decoy">>, <<r, "end">>>>
    BY <2>1 DEF Tokens
  <2>3. s.framing # "chunked"
    BY <1>3, HttpAssumption DEF NoShape
  <2>4. QED
    BY <1>3, <2>2, <2>3 DEF Token
<1>4. CASE s.framing \notin {"none", "broken", "interim"} /\ ~s.decoy
  <2>1. Parts(s) = <<"head", "end">>
    BY <1>4 DEF Parts
  <2>2. Tokens(r, s) = <<<<r, "head">>, <<r, "end">>>>
    BY <2>1 DEF Tokens
  <2>3. QED
    BY <1>4, <2>2 DEF Token
<1>5. QED
  BY <1>1, <1>2, <1>3, <1>4

(* The clauses about one request hold on while nobody touches it.            *)
LEMMA AnswerFrame ==
    ASSUME NEW r \in Requests, AnswerOK(r),
           reqPc'[r] = reqPc[r], reqConn'[r] = reqConn[r],
           reqBuf'[r] = reqBuf[r], reqErr'[r] = reqErr[r],
           reqPc[r] \notin Empty =>
             wire'[reqConn[r]] = wire[reqConn[r]] /\ shape'[reqConn[r]] = shape[reqConn[r]]
    PROVE  AnswerOK(r)'
<1>1. CASE reqPc[r] \in Empty
  BY <1>1 DEF AnswerOK, Empty, Silent, Reading, Done
<1>2. CASE reqPc[r] \notin Empty
  <2>1. StopsReading(r) => StopsReading(r)'
    BY <1>2 DEF StopsReading, HeaderParsed, responseHasNoBody, hasCompleteChunkedBody,
                HasWholeLength
  <2>2. QED
    BY <1>2, <2>1 DEF AnswerOK
<1>3. QED
  BY <1>1, <1>2

(* A request that has a connection has one of its own.                       *)
LEMMA Held ==
    ASSUME PlacesOK, CountsOK, OwnersOK, NEW r \in Requests, reqPc[r] \notin Empty
    PROVE  /\ reqConn[r] \in Conns /\ reqConn[r] # 0 /\ reqConn[r] \in 1..dialled
           /\ dialled \in Nat /\ NumConns \in Nat
           /\ \A q \in Requests : q # r => reqConn[q] # reqConn[r]
<1>1. NumConns \in Nat
  BY HttpAssumption
<1>2. reqConn[r] \in 0..NumConns /\ reqConn[r] # 0
  BY DEF PlacesOK
<1>3. dialled \in Nat /\ reqConn[r] <= dialled
  BY <1>1 DEF CountsOK, OwnersOK
<1>4. \A q \in Requests : q # r => reqConn[q] # reqConn[r]
  BY <1>2 DEF OwnersOK
<1>5. QED
  BY <1>1, <1>2, <1>3, <1>4 DEF Conns

(* Parked connections are numbers of connections.                            *)
LEMMA Parked ==
    ASSUME CountsOK
    PROVE  /\ \A i \in 1..Len(idle) : idle[i] \in Conns /\ idle[i] # 0
           /\ Len(idle) \in Nat /\ DOMAIN idle = 1..Len(idle)
<1>1. idle \in Seq(Conns) /\ 0 \notin Conns
  BY HttpAssumption DEF CountsOK, Conns
<1>2. QED
  BY <1>1, ElementOfSeq, LenProperties

(* Closing the connection of a request.                                      *)
LEMMA CloseConnStep ==
    ASSUME TypesOK, OwnersOK, WatchersOK, WiresOK,
           NEW r \in Requests, reqPc[r] \notin Empty,
           NEW label \in {"failed", "redial", "answered"}, CloseConn(r, label),
           reqSent' \in [Requests -> Nat],
           UNCHANGED <<reqPooled, cancelled, idle, dialled, hungUp>>
    PROVE  TypesOK' /\ OwnersOK' /\ WatchersOK' /\ WiresOK'
<1> DEFINE c == reqConn[r]
<1>1. /\ reqPc' = [reqPc EXCEPT ![r] = label] /\ reqConn' = [reqConn EXCEPT ![r] = 0]
      /\ watch' = [watch EXCEPT ![r] = 0]
      /\ reqBuf' = [reqBuf EXCEPT ![r] = <<>>] /\ reqErr' = [reqErr EXCEPT ![r] = ""]
      /\ shape' = [shape EXCEPT ![c] = NoShape] /\ wire' = [wire EXCEPT ![c] = <<>>]
      /\ shut' = shut \union {c} /\ doomed' = doomed \ {c}
  BY DEF CloseConn, Release, Give, Watch, Move
<1>0. shut' = shut \union {c} /\ doomed' = doomed \ {c}
  BY DEF CloseConn
<1>2. PlacesOK /\ BytesOK /\ CountsOK
  BY DEF TypesOK
<1>3. /\ c \in Conns /\ c # 0 /\ c \in 1..dialled /\ dialled \in Nat /\ NumConns \in Nat
      /\ \A q \in Requests : q # r => reqConn[q] # c
  BY <1>2, Held
<1>4. label \in Empty /\ label # "return" /\ Empty \subseteq Places
  BY DEF Empty, Places
<1>5. /\ \A q \in Requests : q # r =>
           /\ reqPc'[q] = reqPc[q] /\ reqConn'[q] = reqConn[q] /\ watch'[q] = watch[q]
           /\ reqBuf'[q] = reqBuf[q] /\ reqErr'[q] = reqErr[q]
      /\ reqPc'[r] = label /\ reqConn'[r] = 0 /\ watch'[r] = 0
      /\ reqBuf'[r] = <<>> /\ reqErr'[r] = ""
  BY <1>1, <1>2 DEF PlacesOK, BytesOK
<1>6. TypesOK'
  <2>1. PlacesOK'
    <3>1. 0 \in 0..NumConns /\ label \in Places
      BY <1>3, <1>4
    <3>2. /\ reqPc' \in [Requests -> Places] /\ reqConn' \in [Requests -> 0..NumConns]
          /\ watch' \in [Requests -> 0..NumConns]
      BY <1>1, <1>2, <3>1 DEF PlacesOK
    <3>3. QED
      BY <1>2, <1>4, <1>5, <3>2 DEF PlacesOK
  <2>2. BytesOK'
    <3>1. NoShape \in ShapeSet
      BY DEF NoShape, ShapeSet, Framings
    <3>2. <<>> \in Seq(Token)
      OBVIOUS
    <3>3. QED
      BY <1>1, <1>2, <3>1, <3>2 DEF BytesOK
  <2>3. CountsOK'
    BY <1>2 DEF CountsOK
  <2>4. QED
    BY <2>1, <2>2, <2>3 DEF TypesOK
<1>7. OwnersOK'
  <2>1. \A q \in Requests : reqConn'[q] \in {0, reqConn[q]}
    BY <1>5
  <2>2. \A q \in Requests : reqConn'[q] <= dialled'
    BY <1>3, <2>1 DEF OwnersOK
  <2>3. shut' \subseteq 1..dialled'
    BY <1>1, <1>3 DEF OwnersOK
  <2>4. \A q, p \in Requests : reqConn'[q] = reqConn'[p] /\ reqConn'[q] # 0 => q = p
    BY <2>1 DEF OwnersOK
  <2>5. \A q \in Requests : \A i \in 1..Len(idle') : reqConn'[q] # idle'[i]
    BY <1>2, <2>1, Parked DEF OwnersOK
  <2>6. QED
    BY <2>2, <2>3, <2>4, <2>5 DEF OwnersOK
<1>8. WatchersOK'
  <2>1. \A q \in Requests : watch'[q] # 0 =>
           watch'[q] = reqConn'[q] /\ q \notin cancelled' /\ reqPc'[q] \notin Done
    BY <1>5 DEF WatchersOK
  <2>2. ASSUME NEW d \in doomed'
        PROVE  \E q \in Requests : Holds(q, d)' /\ q \in cancelled'
    <3>1. PICK q \in Requests : reqConn[q] = d /\ d # 0 /\ q \in cancelled
      BY <1>0 DEF WatchersOK, Holds
    <3>2. q # r
      BY <1>0, <3>1
    <3>3. QED
      BY <1>5, <3>1, <3>2 DEF Holds
  <2>3. \A q \in Requests : reqConn'[q] \in shut' => q \in cancelled' /\ reqPc'[q] # "return"
    <3>1. 0 \notin shut'
      <4>1. shut \subseteq 1..dialled
        BY DEF OwnersOK
      <4>2. QED
        BY <1>3, <1>0, <4>1
    <3>2. ASSUME NEW q \in Requests, reqConn'[q] \in shut'
          PROVE  q # r /\ reqConn'[q] \in shut
      <4>1. q # r
        BY <1>5, <3>1, <3>2
      <4>2. reqConn'[q] = reqConn[q] /\ reqConn[q] # c
        BY <1>3, <1>5, <4>1
      <4>3. QED
        BY <1>0, <3>2, <4>1, <4>2
    <3>3. QED
      BY <1>5, <3>2 DEF WatchersOK
  <2>4. \A q \in Requests : reqPc'[q] = "return" => reqConn'[q] \notin doomed'
    <3>1. ASSUME NEW q \in Requests, reqPc'[q] = "return"
          PROVE  reqPc[q] = "return" /\ reqConn'[q] = reqConn[q]
      BY <1>4, <1>5, <3>1
    <3>2. QED
      BY <1>0, <3>1 DEF WatchersOK
  <2>5. \A i \in 1..Len(idle') : idle'[i] \notin shut'
    BY <1>1 DEF WatchersOK, OwnersOK
  <2>6. QED
    BY <2>1, <2>2, <2>3, <2>4, <2>5 DEF WatchersOK
<1>9. WiresOK'
  <2>1. \A d \in Conns : Unheld(d)' => wire'[d] = <<>> /\ shape'[d] = NoShape
    <3>1. ASSUME NEW d \in Conns, Unheld(d)', d # c
          PROVE  wire'[d] = <<>> /\ shape'[d] = NoShape
      <4>1. Unheld(d)
        BY <1>5, <3>1 DEF Unheld
      <4>2. QED
        BY <1>1, <1>2, <3>1, <4>1 DEF WiresOK, BytesOK
    <3>2. wire'[c] = <<>> /\ shape'[c] = NoShape
      BY <1>1, <1>2, <1>3 DEF BytesOK
    <3>3. QED
      BY <3>1, <3>2
  <2>2. ASSUME NEW q \in Requests PROVE AnswerOK(q)'
    <3>1. CASE q = r
      BY <1>4, <1>5, <3>1 DEF AnswerOK, Empty, Silent, Reading, Done
    <3>2. CASE q # r
      <4>1. AnswerOK(q)
        BY DEF WiresOK
      <4>2. reqPc[q] \notin Empty =>
              wire'[reqConn[q]] = wire[reqConn[q]] /\ shape'[reqConn[q]] = shape[reqConn[q]]
        BY <1>1, <1>2, <1>3, <3>2, Held DEF BytesOK
      <4>3. QED
        BY <1>5, <3>2, <4>1, <4>2, AnswerFrame
    <3>3. QED
      BY <3>1, <3>2
  <2>3. QED
    BY <2>1, <2>2 DEF WiresOK
<1>10. QED
  BY <1>6, <1>7, <1>8, <1>9

(* The invariant without the counts of writes.                               *)
Core == TypesOK /\ OwnersOK /\ WatchersOK /\ WiresOK

(* Taking the last parked connection that is still fresh, if there is one.   *)
LEMMA PoolGetStep ==
    ASSUME Core, NEW r \in Requests, PoolGet(r)
    PROVE  Core'
<1>1. PlacesOK /\ BytesOK /\ CountsOK /\ OwnersOK /\ WatchersOK /\ WiresOK
  BY DEF Core, TypesOK
<1>2. /\ reqPc[r] = "idle"
      /\ UNCHANGED <<reqBuf, reqErr, reqSent, cancelled, watch, doomed, dialled, hungUp, wire, shape>>
  BY DEF PoolGet, Is, ctxVars, netVars
<1>3. /\ Len(idle) \in Nat /\ idle \in Seq(Conns)
      /\ \A i \in 1..Len(idle) : idle[i] \in Conns /\ idle[i] # 0
  BY <1>1, Parked DEF CountsOK
<1>4. PICK keep \in 0..Len(idle) :
        /\ shut' = shut \union {idle[i] : i \in keep + 1..Len(idle)}
        /\ IF keep = 0
           THEN idle' = <<>> /\ Move(r, "dial") /\ UNCHANGED <<reqConn, reqPooled>>
           ELSE /\ idle' = SubSeq(idle, 1, keep - 1)
                /\ Give(r, idle[keep]) /\ reqPooled' = [reqPooled EXCEPT ![r] = TRUE]
                /\ Move(r, "watch")
  BY DEF PoolGet
<1>5. reqConn[r] = 0 /\ watch[r] = 0
  BY <1>1, <1>2 DEF PlacesOK, WatchersOK, Empty
<1>6. /\ idle' \in Seq(Conns) /\ Len(idle') = (IF keep = 0 THEN 0 ELSE keep - 1)
      /\ \A i \in 1..Len(idle') : idle'[i] = idle[i] /\ i \in 1..Len(idle) /\ i < keep
  <2>1. CASE keep = 0
    BY <1>4, <2>1
  <2>2. CASE keep # 0
    <3>1. keep - 1 \in Int /\ idle' = SubSeq(idle, 1, keep - 1)
      BY <1>3, <1>4, <2>2
    <3>2. \A i \in 1..(keep - 1) : idle[i] \in Conns
      BY <1>3, <2>2
    <3>3. /\ idle' \in Seq(Conns)
          /\ Len(idle') = IF 1 <= keep - 1 THEN keep - 1 - 1 + 1 ELSE 0
          /\ \A i \in 1..(keep - 1 - 1 + 1) : idle'[i] = idle[1 + i - 1]
      BY <3>1, <3>2, SubSeqProperties
    <3>4. QED
      BY <1>3, <2>2, <3>3
  <2>3. QED
    BY <2>1, <2>2
<1>7. /\ reqPc' \in [Requests -> Places] /\ reqConn' \in [Requests -> 0..NumConns]
      /\ reqPooled' \in [Requests -> BOOLEAN]
      /\ reqPc'[r] = (IF keep = 0 THEN "dial" ELSE "watch")
      /\ reqConn'[r] = (IF keep = 0 THEN 0 ELSE idle[keep])
      /\ \A q \in Requests : q # r => reqPc'[q] = reqPc[q] /\ reqConn'[q] = reqConn[q]
  <2>1. CASE keep = 0
    <3>1. "dial" \in Places
      BY DEF Places, Empty
    <3>2. reqPc' = [reqPc EXCEPT ![r] = "dial"] /\ reqConn' = reqConn /\ reqPooled' = reqPooled
      BY <1>4, <2>1 DEF Move
    <3>3. QED
      BY <1>1, <1>5, <2>1, <3>1, <3>2 DEF PlacesOK, CountsOK
  <2>2. CASE keep # 0
    <3>1. "watch" \in Places /\ idle[keep] \in 0..NumConns
      BY <1>3, <2>2, HttpAssumption DEF Places, Silent, Conns
    <3>2. /\ reqPc' = [reqPc EXCEPT ![r] = "watch"] /\ reqConn' = [reqConn EXCEPT ![r] = idle[keep]]
          /\ reqPooled' = [reqPooled EXCEPT ![r] = TRUE]
      BY <1>4, <2>2 DEF Move, Give
    <3>3. QED
      BY <1>1, <2>2, <3>1, <3>2 DEF PlacesOK, CountsOK
  <2>3. QED
    BY <2>1, <2>2
<1>8. TypesOK'
  <2>1. PlacesOK'
    <3>1. reqConn'[r] = 0 <=> reqPc'[r] \in Empty
      BY <1>3, <1>7 DEF Empty
    <3>2. \A q \in Requests : reqConn'[q] = 0 <=> reqPc'[q] \in Empty
      BY <1>1, <1>7, <3>1 DEF PlacesOK
    <3>3. QED
      BY <1>1, <1>2, <1>7, <3>2 DEF PlacesOK
  <2>2. BytesOK'
    BY <1>1, <1>2 DEF BytesOK
  <2>3. CountsOK'
    <3>1. Len(idle') <= MaxIdle
      BY <1>1, <1>3, <1>6, HttpAssumption DEF CountsOK
    <3>2. QED
      BY <1>1, <1>2, <1>6, <1>7, <3>1 DEF CountsOK
  <2>4. QED
    BY <2>1, <2>2, <2>3 DEF TypesOK
<1>9. \A i \in 1..Len(idle) : idle[i] \in shut' => idle[i] \in shut \/ i > keep
  <2>1. SUFFICES ASSUME NEW i \in 1..Len(idle), NEW j \in keep + 1..Len(idle), idle[i] = idle[j]
                 PROVE  i > keep
    BY <1>4
  <2>2. j \in 1..Len(idle)
    BY <1>3
  <2>3. i = j
    BY <1>1, <2>1, <2>2 DEF OwnersOK
  <2>4. QED
    BY <1>3, <2>3
<1>10. OwnersOK'
  <2>1. \A q \in Requests : reqConn'[q] <= dialled'
    BY <1>1, <1>2, <1>3, <1>5, <1>7 DEF OwnersOK
  <2>2. \A i \in 1..Len(idle') : idle'[i] <= dialled'
    BY <1>1, <1>2, <1>6 DEF OwnersOK
  <2>3. shut' \subseteq 1..dialled'
    <3>1. \A i \in keep + 1..Len(idle) : i \in 1..Len(idle)
      BY <1>3
    <3>2. \A i \in 1..Len(idle) : idle[i] \in 1..dialled
      BY <1>1, <1>3, HttpAssumption DEF OwnersOK, Conns, CountsOK
    <3>3. shut \subseteq 1..dialled /\ dialled' = dialled
      BY <1>1, <1>2 DEF OwnersOK
    <3>4. shut' = shut \union {idle[i] : i \in keep + 1..Len(idle)}
      BY <1>4
    <3>5. QED
      BY <3>1, <3>2, <3>3, <3>4
  <2>4. ASSUME NEW q \in Requests, NEW p \in Requests, reqConn'[q] = reqConn'[p], reqConn'[q] # 0
        PROVE  q = p
    BY <1>1, <1>3, <1>7, <2>4 DEF OwnersOK
  <2>5. \A i, j \in 1..Len(idle') : idle'[i] = idle'[j] => i = j
    BY <1>1, <1>6 DEF OwnersOK
  <2>6. ASSUME NEW q \in Requests, NEW i \in 1..Len(idle')
        PROVE  reqConn'[q] # idle'[i]
    <3>1. idle'[i] = idle[i] /\ i \in 1..Len(idle) /\ i < keep /\ idle[i] # 0
      BY <1>3, <1>6
    <3>2. CASE q # r
      BY <1>1, <1>7, <3>1, <3>2 DEF OwnersOK
    <3>3. CASE q = r /\ keep # 0
      <4>1. keep \in 1..Len(idle) /\ keep # i
        BY <1>3, <3>1, <3>3
      <4>2. QED
        BY <1>1, <1>7, <3>1, <3>3, <4>1 DEF OwnersOK
    <3>4. QED
      BY <1>7, <3>1, <3>2, <3>3
  <2>7. QED
    BY <2>1, <2>2, <2>3, <2>4, <2>5, <2>6 DEF OwnersOK
<1>11. WatchersOK'
  <2>1. \A q \in Requests : watch'[q] # 0 =>
           watch'[q] = reqConn'[q] /\ q \notin cancelled' /\ reqPc'[q] \notin Done
    BY <1>1, <1>2, <1>5, <1>7 DEF WatchersOK
  <2>2. \A d \in doomed' : \E q \in Requests : Holds(q, d)' /\ q \in cancelled'
    BY <1>1, <1>2, <1>5, <1>7 DEF WatchersOK, Holds
  <2>3. ASSUME NEW q \in Requests, reqConn'[q] \in shut'
        PROVE  q \in cancelled' /\ reqPc'[q] # "return"
    <3>1. CASE q = r
      <4>1. 0 \notin shut'
        BY <1>10, HttpAssumption, <1>1, <1>2 DEF OwnersOK, CountsOK
      <4>2. keep # 0 /\ idle[keep] \in shut'
        BY <1>7, <2>3, <3>1, <4>1
      <4>3. keep \in 1..Len(idle) /\ ~(keep > keep)
        BY <1>3, <4>2
      <4>4. idle[keep] \in shut
        BY <1>9, <4>2, <4>3
      <4>5. QED
        BY <1>1, <4>3, <4>4 DEF WatchersOK
    <3>2. CASE q # r
      <4>1. reqConn[q] \in shut'
        BY <1>7, <2>3, <3>2
      <4>2. \A i \in keep + 1..Len(idle) : i \in 1..Len(idle)
        BY <1>3
      <4>3. \A i \in 1..Len(idle) : reqConn[q] # idle[i]
        BY <1>1 DEF OwnersOK
      <4>4. reqConn[q] \in shut
        BY <1>4, <4>1, <4>2, <4>3
      <4>5. QED
        BY <1>1, <1>2, <1>7, <3>2, <4>4 DEF WatchersOK
    <3>3. QED
      BY <3>1, <3>2
  <2>4. \A q \in Requests : reqPc'[q] = "return" => reqConn'[q] \notin doomed'
    BY <1>1, <1>2, <1>7 DEF WatchersOK
  <2>5. ASSUME NEW i \in 1..Len(idle') PROVE idle'[i] \notin shut'
    <3>1. idle'[i] = idle[i] /\ i \in 1..Len(idle) /\ i < keep
      BY <1>6
    <3>2. ~(i > keep)
      BY <1>3, <3>1
    <3>3. QED
      BY <1>1, <1>9, <3>1, <3>2 DEF WatchersOK
  <2>6. QED
    BY <2>1, <2>2, <2>3, <2>4, <2>5 DEF WatchersOK
<1>12. WiresOK'
  <2>1. \A d \in Conns : Unheld(d)' => Unheld(d)
    BY <1>5, <1>7, HttpAssumption DEF Unheld, Conns
  <2>2. \A q \in Requests : q # r => AnswerOK(q)'
    BY <1>1, <1>2, <1>7, AnswerFrame DEF WiresOK
  <2>3. AnswerOK(r)'
    <3>1. AnswerOK(r) /\ reqBuf[r] = <<>> /\ reqErr[r] = ""
      BY <1>1, <1>2 DEF WiresOK, AnswerOK, Empty
    <3>2. reqPc'[r] \notin Reading \union Done
      BY <1>7 DEF Reading, Done
    <3>3. CASE keep = 0
      BY <1>2, <1>7, <3>1, <3>2, <3>3 DEF AnswerOK, Silent, Done
    <3>4. CASE keep # 0
      <4>1. keep \in 1..Len(idle)
        BY <1>3, <3>4
      <4>2. Unheld(idle[keep])
        BY <1>1, <4>1 DEF OwnersOK, Unheld
      <4>3. wire[idle[keep]] = <<>> /\ shape[idle[keep]] = NoShape
        BY <1>1, <1>3, <4>1, <4>2 DEF WiresOK
      <4>4. QED
        BY <1>2, <1>7, <3>1, <3>2, <3>4, <4>3 DEF AnswerOK, Done
    <3>5. QED
      BY <3>3, <3>4
  <2>4. QED
    BY <1>1, <1>2, <2>1, <2>2, <2>3 DEF WiresOK
<1>13. QED
  BY <1>8, <1>10, <1>11, <1>12 DEF Core

(* Going to dial, through a proxy.                                           *)
LEMMA ProxyDialStep ==
    ASSUME Core, NEW r \in Requests, ProxyDial(r)
    PROVE  Core'
<1>1. PlacesOK /\ BytesOK /\ CountsOK /\ OwnersOK /\ WatchersOK /\ WiresOK
  BY DEF Core, TypesOK
<1>2. /\ reqPc[r] = "idle" /\ reqPc' = [reqPc EXCEPT ![r] = "dial"]
      /\ UNCHANGED <<reqConn, reqPooled, reqBuf, reqErr, reqSent, cancelled, watch, doomed,
                     idle, shut, dialled, hungUp, wire, shape>>
  BY DEF ProxyDial, Is, Move, ctxVars, netVars
<1>3. "dial" \in Empty /\ "idle" \in Empty /\ Empty \subseteq Places
  BY DEF Empty, Places
<1>4. reqPc'[r] = "dial" /\ \A q \in Requests : q # r => reqPc'[q] = reqPc[q]
  BY <1>1, <1>2 DEF PlacesOK
<1>5. PlacesOK'
  <2>1. reqPc' \in [Requests -> Places]
    BY <1>1, <1>2, <1>3 DEF PlacesOK
  <2>2. QED
    BY <1>1, <1>2, <1>3, <1>4, <2>1 DEF PlacesOK
<1>6. BytesOK' /\ CountsOK' /\ OwnersOK'
  BY <1>1, <1>2 DEF BytesOK, CountsOK, OwnersOK
<1>7. WatchersOK'
  BY <1>1, <1>2, <1>4 DEF WatchersOK, Holds, Done
<1>8. WiresOK'
  <2>1. \A q \in Requests : q # r => AnswerOK(q)'
    BY <1>1, <1>2, <1>4, AnswerFrame DEF WiresOK
  <2>2. AnswerOK(r)'
    BY <1>1, <1>2, <1>3, <1>4 DEF WiresOK, AnswerOK, Empty, Silent, Reading, Done
  <2>3. QED
    BY <1>1, <1>2, <2>1, <2>2 DEF WiresOK, Unheld
<1>9. QED
  BY <1>5, <1>6, <1>7, <1>8 DEF Core, TypesOK

(* Dialling: it fails, or gives a connection nobody has seen before.         *)
LEMMA DialNewStep ==
    ASSUME Core, NEW r \in Requests, dialNew(r)
    PROVE  Core'
<1>1. PlacesOK /\ BytesOK /\ CountsOK /\ OwnersOK /\ WatchersOK /\ WiresOK
  BY DEF Core, TypesOK
<1>2. /\ reqPc[r] \in {"dial", "redial"}
      /\ UNCHANGED <<reqBuf, reqErr, reqSent, cancelled, watch, doomed, idle, shut, hungUp,
                     wire, shape>>
  BY DEF dialNew, ctxVars
<1>3. /\ reqPc[r] \in Empty /\ reqConn[r] = 0 /\ watch[r] = 0
      /\ reqBuf[r] = <<>> /\ reqErr[r] = ""
  BY <1>1, <1>2 DEF PlacesOK, WatchersOK, WiresOK, AnswerOK, Empty
<1>4. dialled \in Nat /\ NumConns \in Nat /\ dialled <= NumConns /\ 0 \notin Conns
  BY <1>1, HttpAssumption DEF CountsOK, Conns
<1>5. CASE Move(r, "failed") /\ UNCHANGED <<reqConn, reqPooled, dialled>>
  <2>1. /\ reqPc' \in [Requests -> Places] /\ reqPc'[r] = "failed"
        /\ \A q \in Requests : q # r => reqPc'[q] = reqPc[q]
    BY <1>1, <1>5 DEF Move, PlacesOK, Places, Empty
  <2>2. "failed" \in Empty
    BY DEF Empty
  <2>3. PlacesOK'
    BY <1>1, <1>2, <1>3, <1>5, <2>1, <2>2 DEF PlacesOK
  <2>4. BytesOK' /\ CountsOK' /\ OwnersOK'
    BY <1>1, <1>2, <1>5 DEF BytesOK, CountsOK, OwnersOK
  <2>5. WatchersOK'
    BY <1>1, <1>2, <1>5, <2>1 DEF WatchersOK, Holds, Done
  <2>6. WiresOK'
    <3>1. \A q \in Requests : q # r => AnswerOK(q)'
      BY <1>1, <1>2, <1>5, <2>1, AnswerFrame DEF WiresOK
    <3>2. AnswerOK(r)'
      BY <1>2, <1>3, <2>1 DEF AnswerOK, Empty, Silent, Reading, Done
    <3>3. QED
      BY <1>1, <1>2, <1>5, <3>1, <3>2 DEF WiresOK, Unheld
  <2>7. QED
    BY <2>3, <2>4, <2>5, <2>6 DEF Core, TypesOK
<1>6. ASSUME dialled < NumConns, dialled' = dialled + 1, Give(r, dialled + 1),
             reqPooled' = [reqPooled EXCEPT ![r] = FALSE],
             Move(r, IF Is(r, "dial") THEN "watch" ELSE "rewatch")
      PROVE  Core'
  <2>1. /\ reqPc' \in [Requests -> Places] /\ reqPc'[r] \in {"watch", "rewatch"}
        /\ \A q \in Requests : q # r => reqPc'[q] = reqPc[q]
    BY <1>1, <1>6 DEF Move, PlacesOK, Places, Silent
  <2>2. /\ reqConn' \in [Requests -> 0..NumConns] /\ reqConn'[r] = dialled + 1
        /\ \A q \in Requests : q # r => reqConn'[q] = reqConn[q]
    <3>1. dialled + 1 \in 0..NumConns
      BY <1>4, <1>6
    <3>2. QED
      BY <1>1, <1>6, <3>1 DEF Give, PlacesOK
  <2>3. /\ dialled + 1 \in Conns /\ dialled + 1 # 0
        /\ \A q \in Requests : reqConn[q] # dialled + 1 /\ reqConn[q] <= dialled + 1
        /\ \A i \in 1..Len(idle) : idle[i] # dialled + 1 /\ idle[i] <= dialled + 1
        /\ dialled + 1 \notin shut
    <3>1. dialled + 1 \in Conns /\ dialled + 1 # 0
      BY <1>4, <1>6 DEF Conns
    <3>2. \A q \in Requests : reqConn[q] \in Nat /\ reqConn[q] <= dialled
      BY <1>1, <1>4 DEF PlacesOK, OwnersOK
    <3>3. \A i \in 1..Len(idle) : idle[i] \in Nat /\ idle[i] <= dialled
      BY <1>1, <1>4, Parked DEF OwnersOK, Conns
    <3>4. dialled + 1 \notin shut
      BY <1>1, <1>4 DEF OwnersOK
    <3>5. QED
      BY <1>4, <3>1, <3>2, <3>3, <3>4
  <2>4. PlacesOK'
    <3>1. reqConn'[r] # 0 /\ reqPc'[r] \notin Empty
      BY <2>1, <2>2, <2>3 DEF Empty
    <3>2. QED
      BY <1>1, <1>2, <2>1, <2>2, <3>1 DEF PlacesOK
  <2>5. BytesOK' /\ CountsOK'
    <3>1. dialled' \in 0..NumConns
      BY <1>4, <1>6
    <3>2. reqPooled' \in [Requests -> BOOLEAN]
      BY <1>1, <1>6 DEF CountsOK
    <3>3. QED
      BY <1>1, <1>2, <3>1, <3>2 DEF BytesOK, CountsOK
  <2>6. OwnersOK'
    <3>1. /\ \A q \in Requests : reqConn'[q] <= dialled'
          /\ \A i \in 1..Len(idle') : idle'[i] <= dialled'
      BY <1>2, <1>4, <1>6, <2>2, <2>3
    <3>2. shut' \subseteq 1..dialled'
      <4>1. shut \subseteq 1..dialled
        BY <1>1 DEF OwnersOK
      <4>2. QED
        BY <1>2, <1>4, <1>6, <4>1
    <3>3. \A q, p \in Requests : reqConn'[q] = reqConn'[p] /\ reqConn'[q] # 0 => q = p
      BY <1>1, <2>2, <2>3 DEF OwnersOK
    <3>4. \A q \in Requests : \A i \in 1..Len(idle') : reqConn'[q] # idle'[i]
      BY <1>1, <1>2, <2>2, <2>3 DEF OwnersOK
    <3>5. QED
      BY <1>1, <1>2, <3>1, <3>2, <3>3, <3>4 DEF OwnersOK
  <2>7. WatchersOK'
    <3>1. \A q \in Requests : watch'[q] # 0 =>
             watch'[q] = reqConn'[q] /\ q \notin cancelled' /\ reqPc'[q] \notin Done
      BY <1>1, <1>2, <1>3, <2>1, <2>2 DEF WatchersOK
    <3>2. \A d \in doomed' : \E q \in Requests : Holds(q, d)' /\ q \in cancelled'
      BY <1>1, <1>2, <1>3, <2>2, ZenonT(60) DEF WatchersOK, Holds
    <3>3. \A q \in Requests : reqConn'[q] \in shut' => q \in cancelled' /\ reqPc'[q] # "return"
      BY <1>1, <1>2, <2>1, <2>2, <2>3 DEF WatchersOK
    <3>4. \A q \in Requests : reqPc'[q] = "return" => reqConn'[q] \notin doomed'
      BY <1>1, <1>2, <2>1, <2>2 DEF WatchersOK
    <3>5. \A i \in 1..Len(idle') : idle'[i] \notin shut'
      BY <1>1, <1>2 DEF WatchersOK
    <3>6. QED
      BY <3>1, <3>2, <3>3, <3>4, <3>5 DEF WatchersOK
  <2>8. WiresOK'
    <3>1. \A q \in Requests : q # r => AnswerOK(q)'
      BY <1>1, <1>2, <2>1, <2>2, AnswerFrame DEF WiresOK
    <3>2. wire[dialled + 1] = <<>> /\ shape[dialled + 1] = NoShape
      BY <1>1, <2>3 DEF WiresOK, Unheld
    <3>3. AnswerOK(r)'
      BY <1>2, <1>3, <2>1, <2>2, <3>2 DEF AnswerOK, Reading, Done
    <3>4. \A d \in Conns : Unheld(d)' => Unheld(d)
      BY <1>3, <1>4, <2>2 DEF Unheld
    <3>5. QED
      BY <1>1, <1>2, <3>1, <3>3, <3>4 DEF WiresOK
  <2>9. QED
    BY <2>4, <2>5, <2>6, <2>7, <2>8 DEF Core, TypesOK
<1>7. QED
  BY <1>5, <1>6 DEF dialNew

(* A request that moves on with the connection in its hands, at most its     *)
(* watcher changing: what is left to show is about watchers and answers.     *)
LEMMA MoveStep ==
    ASSUME Core, NEW r \in Requests, reqPc[r] \notin Empty,
           NEW label \in Silent \union Reading \union Done,
           reqPc' = [reqPc EXCEPT ![r] = label],
           watch' \in [Requests -> 0..NumConns],
           UNCHANGED <<reqConn, reqPooled, reqBuf, reqErr, reqSent, idle, shut, dialled,
                       hungUp, wire, shape>>,
           WatchersOK', AnswerOK(r)'
    PROVE  Core'
<1>1. PlacesOK /\ BytesOK /\ CountsOK /\ OwnersOK /\ WatchersOK /\ WiresOK
  BY DEF Core, TypesOK
<1>2. label \in Places /\ label \notin Empty
  BY DEF Places, Silent, Reading, Done, Empty
<1>3. /\ reqPc' \in [Requests -> Places] /\ reqPc'[r] = label
      /\ \A q \in Requests : q # r => reqPc'[q] = reqPc[q]
  BY <1>1, <1>2 DEF PlacesOK
<1>4. PlacesOK'
  BY <1>1, <1>2, <1>3 DEF PlacesOK
<1>5. BytesOK' /\ CountsOK' /\ OwnersOK'
  BY <1>1 DEF BytesOK, CountsOK, OwnersOK
<1>6. WiresOK'
  <2>1. \A q \in Requests : q # r => AnswerOK(q)'
    BY <1>1, <1>3, AnswerFrame DEF WiresOK
  <2>2. QED
    BY <1>1, <2>1 DEF WiresOK, Unheld
<1>7. QED
  BY <1>4, <1>5, <1>6 DEF Core, TypesOK

LEMMA StopConnStep ==
    ASSUME Core, NEW r \in Requests, stopConnOnContextDone(r)
    PROVE  Core'
<1> DEFINE label == IF reqPc[r] = "watch" THEN "write" ELSE "rewrite"
<1>1. PlacesOK /\ CountsOK /\ OwnersOK /\ WatchersOK /\ WiresOK
  BY DEF Core, TypesOK
<1>2. /\ reqPc[r] \in {"watch", "rewatch"} /\ reqPc' = [reqPc EXCEPT ![r] = label]
      /\ UNCHANGED <<reqConn, reqPooled, reqBuf, reqErr, reqSent, cancelled, idle, shut,
                     dialled, hungUp, wire, shape>>
  BY DEF stopConnOnContextDone, Is, Move, netVars
<1>3. reqPc[r] \notin Empty /\ reqPc[r] \in Silent /\ label \in Silent
  BY <1>2 DEF Empty, Silent
<1>4. /\ reqConn[r] \in Conns /\ reqConn[r] # 0 /\ reqConn[r] \in 0..NumConns
      /\ \A q \in Requests : q # r => reqConn[q] # reqConn[r]
  BY <1>1, <1>3, Held DEF PlacesOK
<1>5. reqPc'[r] = label /\ \A q \in Requests : q # r => reqPc'[q] = reqPc[q]
  BY <1>1, <1>2 DEF PlacesOK
<1>6. label \notin Done
  BY DEF Done
<1>7. AnswerOK(r)'
  BY <1>1, <1>2, <1>3, <1>5 DEF WiresOK, AnswerOK, Silent, Reading, Done
<1>8. CASE r \in cancelled
  <2>1. doomed' = doomed \union {reqConn[r]} /\ watch' = watch
    BY <1>8 DEF stopConnOnContextDone
  <2>2. WatchersOK'
    <3>1. \A q \in Requests : watch'[q] # 0 =>
             watch'[q] = reqConn'[q] /\ q \notin cancelled' /\ reqPc'[q] \notin Done
      BY <1>1, <1>2, <1>5, <1>6, <2>1 DEF WatchersOK
    <3>2. \A d \in doomed' : \E q \in Requests : Holds(q, d)' /\ q \in cancelled'
      BY <1>1, <1>2, <1>4, <1>8, <2>1 DEF WatchersOK, Holds
    <3>3. \A q \in Requests : reqConn'[q] \in shut' => q \in cancelled' /\ reqPc'[q] # "return"
      BY <1>1, <1>2, <1>5 DEF WatchersOK
    <3>4. \A q \in Requests : reqPc'[q] = "return" => reqConn'[q] \notin doomed'
      BY <1>1, <1>2, <1>4, <1>5, <2>1 DEF WatchersOK
    <3>5. QED
      BY <1>1, <1>2, <3>1, <3>2, <3>3, <3>4 DEF WatchersOK
  <2>3. QED
    BY <1>1, <1>2, <1>3, <1>7, <2>1, <2>2, MoveStep DEF PlacesOK
<1>9. CASE r \notin cancelled
  <2>1. watch' = [watch EXCEPT ![r] = reqConn[r]] /\ doomed' = doomed
    BY <1>9 DEF stopConnOnContextDone, Watch
  <2>2. /\ watch' \in [Requests -> 0..NumConns] /\ watch'[r] = reqConn[r]
        /\ \A q \in Requests : q # r => watch'[q] = watch[q]
    BY <1>1, <1>4, <2>1 DEF PlacesOK
  <2>3. WatchersOK'
    BY <1>1, <1>2, <1>5, <1>6, <1>9, <2>1, <2>2 DEF WatchersOK, Holds
  <2>4. QED
    BY <1>2, <1>3, <1>7, <2>2, <2>3, MoveStep
<1>10. QED
  BY <1>8, <1>9

LEMMA CheckContextStep ==
    ASSUME Core, NEW r \in Requests, CheckContext(r)
    PROVE  Core'
<1>1. PlacesOK /\ CountsOK /\ OwnersOK /\ WatchersOK /\ WiresOK /\ TypesOK
  BY DEF Core, TypesOK
<1>2. /\ reqPc[r] = "write" /\ reqPc[r] \notin Empty /\ reqPc[r] \in Silent
      /\ UNCHANGED <<reqPooled, reqSent, cancelled, idle, dialled, hungUp>>
  BY DEF CheckContext, Is, Empty, Silent
<1>3. CASE r \in cancelled
  <2>1. CloseConn(r, "failed")
    BY <1>3 DEF CheckContext
  <2>2. reqSent' \in [Requests -> Nat]
    BY <1>1, <1>2 DEF CountsOK
  <2>3. QED
    BY <1>1, <1>2, <2>1, <2>2, CloseConnStep DEF Core
<1>4. CASE r \notin cancelled
  <2>1. /\ reqPc' = [reqPc EXCEPT ![r] = "send"]
        /\ UNCHANGED <<reqConn, reqBuf, reqErr, watch, doomed, shut, wire, shape>>
    BY <1>4 DEF CheckContext, Move
  <2>2. /\ "send" \in Silent /\ "send" \notin Done
        /\ reqPc'[r] = "send" /\ \A q \in Requests : q # r => reqPc'[q] = reqPc[q]
    BY <1>1, <2>1 DEF PlacesOK, Silent, Done
  <2>3. WatchersOK'
    BY <1>1, <1>2, <2>1, <2>2 DEF WatchersOK, Holds
  <2>4. AnswerOK(r)'
    BY <1>1, <1>2, <2>1, <2>2 DEF WiresOK, AnswerOK, Silent, Reading, Done
  <2>5. QED
    BY <1>1, <1>2, <2>1, <2>2, <2>3, <2>4, MoveStep DEF PlacesOK
<1>5. QED
  BY <1>3, <1>4

LEMMA WriteFailsStep ==
    ASSUME Core, NEW r \in Requests, WriteFails(r)
    PROVE  Core'
<1>1. PICK label \in {"failed", "redial", "answered"} : CloseConn(r, label)
  BY DEF WriteFails
<1>2. reqPc[r] \notin Empty
  BY DEF WriteFails, Empty
<1>3. reqSent' \in [Requests -> Nat]
  BY DEF WriteFails, Core, TypesOK, CountsOK
<1>4. QED
  BY <1>1, <1>2, <1>3, CloseConnStep DEF Core, WriteFails

LEMMA ParseFailsStep ==
    ASSUME Core, NEW r \in Requests, ParseFails(r)
    PROVE  Core'
<1>1. PICK label \in {"failed", "redial", "answered"} : CloseConn(r, label)
  BY DEF ParseFails
<1>2. reqPc[r] \notin Empty
  BY DEF ParseFails, Empty
<1>3. reqSent' \in [Requests -> Nat]
  BY DEF ParseFails, Core, TypesOK, CountsOK
<1>4. QED
  BY <1>1, <1>2, <1>3, CloseConnStep DEF Core, ParseFails

LEMMA DiscardStep ==
    ASSUME Core, NEW r \in Requests, Discard(r)
    PROVE  Core'
<1>1. CloseConn(r, "answered")
  BY DEF Discard
<1>2. reqPc[r] \notin Empty
  BY DEF Discard, Is, Empty
<1>3. reqSent' \in [Requests -> Nat]
  BY DEF Discard, Core, TypesOK, CountsOK
<1>4. QED
  BY <1>1, <1>2, <1>3, CloseConnStep DEF Core, Discard

(* A request goes on to return only while it is not cancelled, so that no    *)
(* watcher has started on its connection.                                    *)
LEMMA FinishStep ==
    ASSUME Core, NEW r \in Requests, Finish(r)
    PROVE  Core'
<1>1. PlacesOK /\ CountsOK /\ OwnersOK /\ WatchersOK /\ WiresOK /\ TypesOK
  BY DEF Core, TypesOK
<1>2. /\ reqPc[r] = "parsed" /\ reqPc[r] \notin Empty /\ reqPc[r] \in Done
      /\ UNCHANGED <<reqPooled, reqSent, cancelled, idle, dialled, hungUp>>
  BY DEF Finish, Is, Empty, Done
<1>3. CASE r \in cancelled
  <2>1. CloseConn(r, "failed")
    BY <1>3 DEF Finish
  <2>2. reqSent' \in [Requests -> Nat]
    BY <1>1, <1>2 DEF CountsOK
  <2>3. QED
    BY <1>1, <1>2, <2>1, <2>2, CloseConnStep DEF Core
<1>4. CASE r \notin cancelled
  <2>1. /\ reqPc' = [reqPc EXCEPT ![r] = "return"]
        /\ UNCHANGED <<reqConn, reqBuf, reqErr, watch, doomed, shut, wire, shape>>
    BY <1>4 DEF Finish, Move
  <2>2. /\ "return" \in Done
        /\ reqPc'[r] = "return" /\ \A q \in Requests : q # r => reqPc'[q] = reqPc[q]
    BY <1>1, <2>1 DEF PlacesOK, Done
  <2>3. reqConn[r] \notin doomed /\ reqConn[r] \notin shut
    <3>1. \A q \in Requests : q # r => reqConn[q] # reqConn[r]
      BY <1>1, <1>2, Held
    <3>2. QED
      BY <1>1, <1>4, <3>1 DEF WatchersOK, Holds
  <2>4. WatchersOK'
    BY <1>1, <1>2, <2>1, <2>2, <2>3 DEF WatchersOK, Holds
  <2>5. AnswerOK(r)'
    <3>1. StopsReading(r)' <=> StopsReading(r)
      BY <2>1 DEF StopsReading, HeaderParsed, responseHasNoBody, hasCompleteChunkedBody,
                  HasWholeLength
    <3>2. QED
      BY <1>1, <1>2, <2>1, <2>2, <3>1 DEF WiresOK, AnswerOK, Empty, Silent, Reading, Done
  <2>6. QED
    BY <1>1, <1>2, <2>1, <2>2, <2>4, <2>5, MoveStep DEF PlacesOK
<1>5. QED
  BY <1>3, <1>4

LEMMA ParsedStep ==
    ASSUME Core, NEW r \in Requests, Parsed(r)
    PROVE  Core'
<1>1. PlacesOK /\ CountsOK /\ OwnersOK /\ WatchersOK /\ WiresOK
  BY DEF Core, TypesOK
<1>2. /\ reqPc[r] \in Reading /\ reqPc[r] \notin Empty
      /\ reqErr[r] # "" \/ StopsReading(r)
      /\ reqBuf[r] # <<>>
      /\ watch' = [watch EXCEPT ![r] = 0] /\ reqPc' = [reqPc EXCEPT ![r] = "parsed"]
      /\ UNCHANGED <<reqConn, reqPooled, reqBuf, reqErr, reqSent, cancelled, doomed, idle,
                     shut, dialled, hungUp, wire, shape>>
  BY DEF Parsed, HeaderParsed, Watch, Move, Empty, Reading, netVars
<1>3. /\ "parsed" \in Done
      /\ reqPc'[r] = "parsed" /\ \A q \in Requests : q # r => reqPc'[q] = reqPc[q]
      /\ watch'[r] = 0 /\ \A q \in Requests : q # r => watch'[q] = watch[q]
  BY <1>1, <1>2 DEF PlacesOK, Done
<1>4. watch' \in [Requests -> 0..NumConns]
  <2>1. 0 \in 0..NumConns
    BY HttpAssumption
  <2>2. QED
    BY <1>1, <1>2, <2>1 DEF PlacesOK
<1>5. WatchersOK'
  BY <1>1, <1>2, <1>3 DEF WatchersOK, Holds
<1>6. AnswerOK(r)'
  <2>1. StopsReading(r)' <=> StopsReading(r)
    BY <1>2 DEF StopsReading, HeaderParsed, responseHasNoBody, hasCompleteChunkedBody,
                HasWholeLength
  <2>2. reqPc'[r] \notin Empty \union Silent \union Reading
    BY <1>3 DEF Empty, Silent, Reading
  <2>3. AnswerOK(r)
    BY <1>1 DEF WiresOK
  <2>4. QED
    BY <1>2, <1>3, <2>1, <2>2, <2>3 DEF AnswerOK
<1>7. QED
  BY <1>2, <1>3, <1>4, <1>5, <1>6, MoveStep

(* A whole answer, when the first n tokens on the way are read.              *)
LEMMA WholeRead ==
    ASSUME NEW b \in Seq(Token), NEW w \in Seq(Token), NEW t \in Seq(Token),
           NEW n \in 1..Len(w), Whole(b, w, t)
    PROVE  /\ b \o SubSeq(w, 1, n) \in Seq(Token) /\ SubSeq(w, n + 1, Len(w)) \in Seq(Token)
           /\ Whole(b \o SubSeq(w, 1, n), SubSeq(w, n + 1, Len(w)), t)
<1> DEFINE first == SubSeq(w, 1, n)
           rest == SubSeq(w, n + 1, Len(w))
<1>1. Len(w) \in Nat /\ Len(b) \in Nat /\ n \in Nat /\ \A i \in 1..Len(w) : w[i] \in Token
  BY ElementOfSeq, LenProperties
<1>2. /\ first \in Seq(Token) /\ Len(first) = n
      /\ \A i \in 1..n : first[i] = w[i]
  <2>1. /\ first \in Seq(Token) /\ Len(first) = IF 1 <= n THEN n - 1 + 1 ELSE 0
        /\ \A i \in 1..(n - 1 + 1) : first[i] = w[1 + i - 1]
    BY <1>1, SubSeqProperties
  <2>2. QED
    BY <1>1, <2>1
<1>3. /\ rest \in Seq(Token) /\ Len(rest) = Len(w) - n
      /\ \A i \in 1..Len(w) - n : rest[i] = w[n + i]
  <2>1. \A i \in (n + 1)..Len(w) : w[i] \in Token
    BY <1>1
  <2>2. /\ rest \in Seq(Token)
        /\ Len(rest) = IF n + 1 <= Len(w) THEN Len(w) - (n + 1) + 1 ELSE 0
        /\ \A i \in 1..(Len(w) - (n + 1) + 1) : rest[i] = w[(n + 1) + i - 1]
    BY <1>1, <2>1, SubSeqProperties
  <2>3. QED
    BY <1>1, <2>2
<1> HIDE DEF first, rest
<1>4. /\ b \o first \in Seq(Token) /\ Len(b \o first) = Len(b) + n
      /\ \A i \in 1..Len(b) + n : (b \o first)[i] = IF i <= Len(b) THEN b[i] ELSE first[i - Len(b)]
  BY <1>2, ConcatProperties
<1>5. \A i \in 1..Len(b) + n : (b \o first)[i] = t[i]
  <2>1. SUFFICES ASSUME NEW i \in 1..Len(b) + n PROVE (b \o first)[i] = t[i]
    OBVIOUS
  <2>2. CASE i <= Len(b)
    BY <1>1, <1>4, <2>2 DEF Whole
  <2>3. CASE i > Len(b)
    <3>1. i - Len(b) \in 1..n /\ i - Len(b) \in 1..Len(w) /\ Len(b) + (i - Len(b)) = i
      BY <1>1, <2>3
    <3>2. (b \o first)[i] = w[i - Len(b)]
      BY <1>1, <1>2, <1>4, <2>3, <3>1
    <3>3. QED
      BY <3>1, <3>2 DEF Whole
  <2>4. i <= Len(b) \/ i > Len(b)
    BY <1>1
  <2>5. QED
    BY <2>2, <2>3, <2>4
<1>6. \A i \in 1..Len(rest) : rest[i] = t[Len(b \o first) + i]
  <2>1. SUFFICES ASSUME NEW i \in 1..Len(w) - n PROVE w[n + i] = t[Len(b) + n + i]
    BY <1>1, <1>3, <1>4
  <2>2. n + i \in 1..Len(w) /\ Len(b) + (n + i) = Len(b) + n + i
    BY <1>1
  <2>3. QED
    BY <2>2 DEF Whole
<1>7. Len(b \o first) + Len(rest) = Len(t)
  <2>1. Len(b) + Len(w) = Len(t)
    BY DEF Whole
  <2>2. Len(b \o first) = Len(b) + n /\ Len(rest) = Len(w) - n
    BY <1>3, <1>4
  <2>3. Len(b) \in Nat /\ Len(w) \in Nat /\ n \in Nat
    BY <1>1
  <2>4. (Len(b) + n) + (Len(w) - n) = Len(b) + Len(w)
    BY <2>3
  <2>5. QED
    BY <2>1, <2>2, <2>4
<1>8. Whole(b \o first, rest, t)
  BY <1>4, <1>5, <1>6, <1>7 DEF Whole
<1>9. QED
  BY <1>3, <1>4, <1>8 DEF first, rest

(* Steps that touch the answer of one request and nothing that is owned.     *)
LEMMA AnswerStep ==
    ASSUME Core, NEW r \in Requests, reqPc[r] \notin Empty,
           NEW label \in Reading, reqPc' = [reqPc EXCEPT ![r] = label],
           NEW b \in Seq(Token), reqBuf' = [reqBuf EXCEPT ![r] = b],
           NEW e \in {"", "eof", "error"}, reqErr' = [reqErr EXCEPT ![r] = e],
           NEW w \in Seq(Token), wire' = [wire EXCEPT ![reqConn[r]] = w],
           NEW s \in Shapes \union {NoShape}, shape' = [shape EXCEPT ![reqConn[r]] = s],
           reqSent' \in [Requests -> Nat],
           UNCHANGED <<reqConn, reqPooled, cancelled, watch, doomed, idle, shut, dialled, hungUp>>,
           (b = <<>> /\ w = <<>>) \/ Whole(b, w, Tokens(r, s)),
           e = "eof" => w = <<>>
    PROVE  Core'
<1>1. PlacesOK /\ BytesOK /\ CountsOK /\ OwnersOK /\ WatchersOK /\ WiresOK
  BY DEF Core, TypesOK
<1>2. label \in Places /\ label \notin Empty \union Silent \union Done
  BY DEF Places, Silent, Reading, Done, Empty
<1>3. /\ reqPc' \in [Requests -> Places] /\ reqPc'[r] = label
      /\ \A q \in Requests : q # r => reqPc'[q] = reqPc[q]
  BY <1>1, <1>2 DEF PlacesOK
<1>4. /\ reqConn[r] \in Conns /\ reqConn[r] # 0
      /\ \A q \in Requests : q # r => reqConn[q] # reqConn[r]
  BY <1>1, Held
<1>5. s \in ShapeSet
  <2>1. NoShape \in ShapeSet
    BY DEF NoShape, ShapeSet, Framings
  <2>2. Shapes \subseteq ShapeSet
    BY HttpAssumption DEF ShapeSet
  <2>3. QED
    BY <2>1, <2>2
<1>6. PlacesOK' /\ BytesOK' /\ CountsOK' /\ OwnersOK'
  <2>1. PlacesOK'
    BY <1>1, <1>2, <1>3 DEF PlacesOK
  <2>2. BytesOK'
    BY <1>1, <1>5 DEF BytesOK
  <2>3. QED
    BY <1>1, <2>1, <2>2 DEF CountsOK, OwnersOK
<1>7. WatchersOK'
  <2>1. label # "return"
    BY <1>2 DEF Done
  <2>2. QED
    BY <1>1, <1>2, <1>3, <2>1 DEF WatchersOK, Holds
<1>8. WiresOK'
  <2>1. AnswerOK(r)'
    <3>1. /\ reqBuf'[r] = b /\ reqErr'[r] = e
          /\ wire'[reqConn'[r]] = w /\ shape'[reqConn'[r]] = s
      BY <1>1, <1>4 DEF BytesOK
    <3>2. QED
      BY <1>2, <1>3, <3>1 DEF AnswerOK
  <2>2. \A q \in Requests : q # r => AnswerOK(q)'
    <3>1. SUFFICES ASSUME NEW q \in Requests, q # r PROVE AnswerOK(q)'
      OBVIOUS
    <3>2. reqBuf'[q] = reqBuf[q] /\ reqErr'[q] = reqErr[q] /\ reqPc'[q] = reqPc[q]
      BY <1>1, <1>3, <3>1 DEF BytesOK
    <3>3. reqPc[q] \notin Empty =>
            wire'[reqConn[q]] = wire[reqConn[q]] /\ shape'[reqConn[q]] = shape[reqConn[q]]
      BY <1>1, <1>4, <3>1, Held DEF BytesOK
    <3>4. QED
      BY <1>1, <3>2, <3>3, AnswerFrame DEF WiresOK
  <2>3. \A d \in Conns : Unheld(d)' => wire'[d] = <<>> /\ shape'[d] = NoShape
    <3>1. SUFFICES ASSUME NEW d \in Conns, Unheld(d)
                   PROVE  wire'[d] = <<>> /\ shape'[d] = NoShape
      BY DEF Unheld
    <3>2. d # reqConn[r]
      BY <3>1 DEF Unheld
    <3>3. QED
      BY <1>1, <3>1, <3>2 DEF WiresOK, BytesOK
  <2>4. QED
    BY <2>1, <2>2, <2>3 DEF WiresOK
<1>9. QED
  BY <1>6, <1>7, <1>8 DEF Core, TypesOK

LEMMA WriteStep ==
    ASSUME Core, NEW r \in Requests, NEW s \in Shapes, Write(r, s)
    PROVE  Core'
<1> DEFINE c == reqConn[r]
           label == IF reqPc[r] = "send" THEN "read" ELSE "reread"
<1>1. PlacesOK /\ BytesOK /\ CountsOK /\ OwnersOK /\ WatchersOK /\ WiresOK
  BY DEF Core, TypesOK
<1>2. /\ reqPc[r] \in Silent /\ reqPc[r] \notin Empty /\ label \in Reading
      /\ reqPc' = [reqPc EXCEPT ![r] = label]
      /\ reqBuf' = [reqBuf EXCEPT ![r] = <<>>] /\ reqErr' = [reqErr EXCEPT ![r] = ""]
      /\ UNCHANGED <<reqConn, reqPooled, cancelled, watch, doomed, idle, shut, dialled, hungUp>>
  BY DEF Write, Is, Move, ctxVars, Empty, Silent, Reading
<1>3. reqSent' \in [Requests -> Nat]
  <2>1. reqSent' = [reqSent EXCEPT ![r] = @ + 1]
    BY DEF Write
  <2>2. QED
    BY <1>1, <2>1 DEF CountsOK
<1>4. wire[c] = <<>> /\ shape[c] = NoShape /\ c \in Conns
  BY <1>1, <1>2, Held DEF WiresOK, AnswerOK
<1>5. <<>> \in Seq(Token) /\ Len(<<>>) = 0
  OBVIOUS
<1>6. CASE c \in hungUp
  <2>1. wire' = [wire EXCEPT ![c] = <<>>] /\ shape' = [shape EXCEPT ![c] = NoShape]
    <3>1. wire' = wire /\ shape' = shape
      BY <1>6 DEF Write
    <3>2. QED
      BY <1>1, <1>4, <3>1 DEF BytesOK
  <2>2. NoShape \in Shapes \union {NoShape}
    OBVIOUS
  <2>3. QED
    BY <1>2, <1>3, <1>5, <2>1, <2>2, AnswerStep
<1>7. CASE c \notin hungUp
  <2>1. Tokens(r, s) \in Seq(Token)
    BY TokensShape
  <2>2. wire' = [wire EXCEPT ![c] = Tokens(r, s)] /\ shape' = [shape EXCEPT ![c] = s]
    <3>1. wire' = [wire EXCEPT ![c] = @ \o Tokens(r, s)] /\ shape' = [shape EXCEPT ![c] = s]
      BY <1>7 DEF Write
    <3>2. wire[c] \o Tokens(r, s) = Tokens(r, s)
      BY <1>4, <2>1, ConcatEmptySeq
    <3>3. QED
      BY <3>1, <3>2
  <2>3. Whole(<<>>, Tokens(r, s), Tokens(r, s))
    <3>1. Len(Tokens(r, s)) \in Nat
      BY <2>1, LenProperties
    <3>2. QED
      BY <1>5, <3>1 DEF Whole
  <2>4. QED
    BY <1>2, <1>3, <1>5, <2>1, <2>2, <2>3, AnswerStep
<1>8. QED
  BY <1>6, <1>7

LEMMA ReadStep ==
    ASSUME Core, NEW r \in Requests, Read(r)
    PROVE  Core'
<1> DEFINE c == reqConn[r]
           w == wire[c]
           b == reqBuf[r]
<1>1. PlacesOK /\ BytesOK /\ CountsOK /\ OwnersOK /\ WatchersOK /\ WiresOK
  BY DEF Core, TypesOK
<1>2. /\ reqPc[r] \in Reading /\ reqPc[r] \notin Empty /\ reqErr[r] = "" /\ w # <<>>
      /\ UNCHANGED <<reqPc, reqConn, reqPooled, reqErr, reqSent, cancelled, watch, doomed,
                     idle, shut, dialled, hungUp, shape>>
  BY DEF Read, ctxVars, Empty, Reading
<1>3. PICK n \in 1..Len(w) : /\ reqBuf' = [reqBuf EXCEPT ![r] = @ \o SubSeq(w, 1, n)]
                             /\ wire' = [wire EXCEPT ![c] = SubSeq(@, n + 1, Len(@))]
  BY DEF Read
<1>4. c \in Conns /\ w \in Seq(Token) /\ b \in Seq(Token)
  BY <1>1, <1>2, Held DEF BytesOK
<1>5. shape[c] \in Shapes \union {NoShape} /\ Whole(b, w, Tokens(r, shape[c]))
  BY <1>1, <1>2 DEF WiresOK, AnswerOK
<1>6. Tokens(r, shape[c]) \in Seq(Token)
  BY <1>5, TokensShape
<1> DEFINE b2 == b \o SubSeq(w, 1, n)
           w2 == SubSeq(w, n + 1, Len(w))
<1>7. b2 \in Seq(Token) /\ w2 \in Seq(Token) /\ Whole(b2, w2, Tokens(r, shape[c]))
  BY <1>4, <1>5, <1>6, WholeRead
<1>8. reqBuf' = [reqBuf EXCEPT ![r] = b2] /\ wire' = [wire EXCEPT ![c] = w2]
  BY <1>3
<1>9. /\ reqPc' = [reqPc EXCEPT ![r] = reqPc[r]] /\ reqErr' = [reqErr EXCEPT ![r] = ""]
      /\ shape' = [shape EXCEPT ![c] = shape[c]]
  BY <1>1, <1>2, <1>4 DEF PlacesOK, BytesOK
<1>10. reqSent' \in [Requests -> Nat]
  BY <1>1, <1>2 DEF CountsOK
<1> HIDE DEF b2, w2
<1>11. QED
  BY <1>2, <1>5, <1>7, <1>8, <1>9, <1>10, AnswerStep

LEMMA ReadFailsStep ==
    ASSUME Core, NEW r \in Requests, ReadFails(r)
    PROVE  Core'
<1> DEFINE c == reqConn[r]
<1>1. PlacesOK /\ BytesOK /\ CountsOK /\ OwnersOK /\ WatchersOK /\ WiresOK
  BY DEF Core, TypesOK
<1>2. /\ reqPc[r] \in Reading /\ reqPc[r] \notin Empty
      /\ UNCHANGED <<reqPc, reqConn, reqPooled, reqBuf, reqSent, cancelled, watch, doomed,
                     idle, shut, dialled, hungUp, wire, shape>>
  BY DEF ReadFails, ctxVars, netVars, Empty, Reading
<1>3. PICK e \in {"", "eof", "error"} : /\ reqErr' = [reqErr EXCEPT ![r] = e]
                                        /\ e = "eof" => wire[c] = <<>>
  BY DEF ReadFails
<1>4. c \in Conns /\ wire[c] \in Seq(Token) /\ reqBuf[r] \in Seq(Token)
  BY <1>1, <1>2, Held DEF BytesOK
<1>5. /\ shape[c] \in Shapes \union {NoShape}
      /\ \/ reqBuf[r] = <<>> /\ wire[c] = <<>>
         \/ Whole(reqBuf[r], wire[c], Tokens(r, shape[c]))
  BY <1>1, <1>2 DEF WiresOK, AnswerOK
<1>6. /\ reqPc' = [reqPc EXCEPT ![r] = reqPc[r]] /\ reqBuf' = [reqBuf EXCEPT ![r] = reqBuf[r]]
      /\ wire' = [wire EXCEPT ![c] = wire[c]] /\ shape' = [shape EXCEPT ![c] = shape[c]]
  BY <1>1, <1>2, <1>4 DEF PlacesOK, BytesOK
<1>7. reqSent' \in [Requests -> Nat]
  BY <1>1, <1>2 DEF CountsOK
<1>8. QED
  BY <1>2, <1>3, <1>4, <1>5, <1>6, <1>7, AnswerStep

(* A connection is only parked when the whole answer has been read from it.  *)
LEMMA ReadToTheEnd ==
    ASSUME Core, NEW r \in Requests, reqPc[r] = "return", Reusable(r)
    PROVE  wire[reqConn[r]] = <<>>
<1> DEFINE w == wire[reqConn[r]]
           b == reqBuf[r]
           s == shape[reqConn[r]]
           t == Tokens(r, s)
<1>1. PlacesOK /\ BytesOK /\ CountsOK /\ OwnersOK /\ WiresOK
  BY DEF Core, TypesOK
<1>2. reqPc[r] \in Done /\ reqPc[r] \notin Empty
  BY DEF Done, Empty
<1>3. reqConn[r] \in Conns /\ w \in Seq(Token) /\ b \in Seq(Token)
  BY <1>1, <1>2, Held DEF BytesOK
<1>4. /\ s \in Shapes \union {NoShape} /\ b # <<>> /\ Whole(b, w, t)
      /\ reqErr[r] = "eof" => w = <<>>
      /\ reqErr[r] # "" \/ StopsReading(r)
  BY <1>1, <1>2 DEF WiresOK, AnswerOK
<1>5. /\ Len(w) \in Nat /\ Len(b) \in Nat \ {0} /\ DOMAIN b = 1..Len(b)
  BY <1>3, <1>4, EmptySeq, LenProperties
<1>6. Len(b) + Len(w) = Len(t) /\ \A i \in 1..Len(b) : b[i] = t[i]
  BY <1>4 DEF Whole
<1>7. Len(w) = 0 => w = <<>>
  BY <1>3, EmptySeq
<1>8. /\ s.framing # "interim"
      /\ s.framing = "close10" => reqErr[r] = "eof"
      /\ s.framing # "close10" => reqErr[r] = ""
  BY DEF Reusable, BodyComplete
<1>9. StopsReading(r) =>
        \/ s.framing \in {"none", "interim", "broken"}
        \/ \E i \in DOMAIN b : b[i][2] = "end" \/ (s.framing = "chunked" /\ b[i][2] = "decoy")
  <2>1. SUFFICES ASSUME StopsReading(r), s.framing \notin {"none", "interim", "broken"}
                 PROVE  \E i \in DOMAIN b :
                          b[i][2] = "end" \/ (s.framing = "chunked" /\ b[i][2] = "decoy")
    OBVIOUS
  <2>2. (s.framing = "chunked" /\ hasCompleteChunkedBody(r)) \/ HasWholeLength(r)
    BY <2>1 DEF StopsReading, responseHasNoBody
  <2>3. CASE s.framing = "chunked" /\ hasCompleteChunkedBody(r)
    <3>1. PICK i \in DOMAIN b : b[i][2] \in {"end", "decoy"}
      BY <2>3 DEF hasCompleteChunkedBody
    <3>2. QED
      BY <2>3, <3>1
  <2>4. CASE HasWholeLength(r)
    <3>1. PICK i \in DOMAIN b : b[i][2] = "end"
      BY <2>4 DEF HasWholeLength
    <3>2. QED
      BY <3>1
  <2>5. QED
    BY <2>2, <2>3, <2>4
<1>10. /\ s.framing \in {"none", "broken"} => Len(t) = 1
       /\ s.framing \notin {"none", "broken", "interim"} =>
            \A i \in 1..Len(t) :
               t[i][2] = "end" \/ (s.framing = "chunked" /\ t[i][2] = "decoy") => i = Len(t)
  BY <1>4, TokensShape
<1> HIDE DEF w, b, s, t
<1>11. CASE s.framing = "close10"
  BY <1>4, <1>8, <1>11 DEF w
<1>12. CASE s.framing \in {"none", "broken"}
  <2>1. Len(w) = 0
    BY <1>5, <1>6, <1>10, <1>12
  <2>2. QED
    BY <1>7, <2>1 DEF w
<1>13. CASE s.framing \notin {"none", "broken", "interim", "close10"}
  <2>1. PICK i \in 1..Len(b) : b[i][2] = "end" \/ (s.framing = "chunked" /\ b[i][2] = "decoy")
    BY <1>4, <1>5, <1>8, <1>9, <1>13
  <2>2. t[i] = b[i] /\ i \in 1..Len(t)
    BY <1>5, <1>6
  <2>3. i = Len(t)
    BY <1>10, <1>13, <2>1, <2>2
  <2>4. Len(w) = 0
    BY <1>5, <1>6, <2>3
  <2>5. QED
    BY <1>7, <2>4 DEF w
<1>14. QED
  BY <1>8, <1>11, <1>12, <1>13

LEMMA PoolPutStep ==
    ASSUME Core, NEW r \in Requests, PoolPut(r)
    PROVE  Core'
<1> DEFINE c == reqConn[r]
<1>1. PlacesOK /\ BytesOK /\ CountsOK /\ OwnersOK /\ WatchersOK /\ WiresOK
  BY DEF Core, TypesOK
<1>2. /\ reqPc[r] = "return" /\ reqPc[r] \in Done /\ reqPc[r] \notin Empty
      /\ Reusable(r) /\ Len(idle) < MaxIdle
      /\ UNCHANGED <<reqPooled, reqSent, cancelled, doomed, shut, dialled, hungUp, wire>>
  BY DEF PoolPut, Is, Done, Empty
<1>3. /\ c \in Conns /\ c # 0 /\ c \in 1..dialled /\ dialled \in Nat
      /\ \A q \in Requests : q # r => reqConn[q] # c
  BY <1>1, <1>2, Held
<1>4. /\ reqPc' = [reqPc EXCEPT ![r] = "answered"] /\ reqConn' = [reqConn EXCEPT ![r] = 0]
      /\ watch' = [watch EXCEPT ![r] = 0]
      /\ reqBuf' = [reqBuf EXCEPT ![r] = <<>>] /\ reqErr' = [reqErr EXCEPT ![r] = ""]
      /\ shape' = [shape EXCEPT ![c] = NoShape]
  BY DEF PoolPut, Release, Give, Watch, Move
<1>5. /\ idle' \in Seq(Conns) /\ Len(idle') = Len(idle) + 1 /\ Len(idle) \in Nat
      /\ \A i \in 1..Len(idle) : idle'[i] = idle[i]
      /\ idle'[Len(idle) + 1] = c
  <2>1. idle' = Append(idle, c) /\ idle \in Seq(Conns)
    BY <1>1 DEF PoolPut, CountsOK
  <2>2. QED
    BY <1>3, <2>1, AppendProperties, LenProperties
<1>6. \A i \in 1..Len(idle') :
        (idle'[i] = c /\ i = Len(idle) + 1) \/ (i \in 1..Len(idle) /\ idle'[i] = idle[i])
  <2>1. \A i \in 1..Len(idle') : i = Len(idle) + 1 \/ i \in 1..Len(idle)
    BY <1>5
  <2>2. QED
    BY <1>5, <2>1
<1>7. /\ \A q \in Requests : q # r =>
           /\ reqPc'[q] = reqPc[q] /\ reqConn'[q] = reqConn[q] /\ watch'[q] = watch[q]
           /\ reqBuf'[q] = reqBuf[q] /\ reqErr'[q] = reqErr[q]
      /\ reqPc'[r] = "answered" /\ reqConn'[r] = 0 /\ watch'[r] = 0
      /\ reqBuf'[r] = <<>> /\ reqErr'[r] = ""
  BY <1>1, <1>4 DEF PlacesOK, BytesOK
<1>8. "answered" \in Empty /\ Empty \subseteq Places
  BY DEF Empty, Places
<1>9. c \notin shut /\ c \notin doomed
  BY <1>1, <1>2 DEF WatchersOK
<1>10. TypesOK'
  <2>1. PlacesOK'
    <3>1. 0 \in 0..NumConns /\ "answered" \in Places
      BY <1>8, HttpAssumption
    <3>2. /\ reqPc' \in [Requests -> Places] /\ reqConn' \in [Requests -> 0..NumConns]
          /\ watch' \in [Requests -> 0..NumConns]
      BY <1>1, <1>4, <3>1 DEF PlacesOK
    <3>3. QED
      BY <1>1, <1>7, <1>8, <3>2 DEF PlacesOK
  <2>2. BytesOK'
    <3>1. NoShape \in ShapeSet
      BY DEF NoShape, ShapeSet, Framings
    <3>2. <<>> \in Seq(Token)
      OBVIOUS
    <3>3. QED
      BY <1>1, <1>2, <1>4, <3>1, <3>2 DEF BytesOK
  <2>3. CountsOK'
    <3>1. Len(idle') <= MaxIdle
      BY <1>2, <1>5, HttpAssumption
    <3>2. QED
      BY <1>1, <1>2, <1>5, <3>1 DEF CountsOK
  <2>4. QED
    BY <2>1, <2>2, <2>3 DEF TypesOK
<1>11. OwnersOK'
  <2>1. \A q \in Requests : reqConn'[q] \in {0, reqConn[q]} /\ reqConn'[q] # c
    BY <1>3, <1>7
  <2>2. \A q \in Requests : reqConn'[q] <= dialled'
    BY <1>1, <1>2, <1>3, <2>1 DEF OwnersOK
  <2>3. \A i \in 1..Len(idle') : idle'[i] <= dialled'
    BY <1>1, <1>2, <1>3, <1>6 DEF OwnersOK
  <2>4. shut' \subseteq 1..dialled'
    BY <1>1, <1>2 DEF OwnersOK
  <2>5. \A q, p \in Requests : reqConn'[q] = reqConn'[p] /\ reqConn'[q] # 0 => q = p
    BY <1>1, <2>1 DEF OwnersOK
  <2>6. ASSUME NEW i \in 1..Len(idle'), NEW j \in 1..Len(idle'), idle'[i] = idle'[j]
        PROVE  i = j
    <3>1. \A k \in 1..Len(idle) : idle[k] # c
      BY <1>1 DEF OwnersOK
    <3>2. QED
      BY <1>1, <1>6, <2>6, <3>1 DEF OwnersOK
  <2>7. \A q \in Requests : \A i \in 1..Len(idle') : reqConn'[q] # idle'[i]
    <3>1. \A i \in 1..Len(idle) : idle[i] # 0
      BY <1>1, Parked
    <3>2. QED
      BY <1>1, <1>6, <2>1, <3>1 DEF OwnersOK
  <2>8. QED
    BY <2>2, <2>3, <2>4, <2>5, <2>6, <2>7 DEF OwnersOK
<1>12. WatchersOK'
  <2>1. \A q \in Requests : watch'[q] # 0 =>
           watch'[q] = reqConn'[q] /\ q \notin cancelled' /\ reqPc'[q] \notin Done
    BY <1>1, <1>2, <1>7 DEF WatchersOK
  <2>2. ASSUME NEW d \in doomed'
        PROVE  \E q \in Requests : Holds(q, d)' /\ q \in cancelled'
    <3>1. PICK q \in Requests : reqConn[q] = d /\ d # 0 /\ q \in cancelled
      BY <1>1, <1>2 DEF WatchersOK, Holds
    <3>2. q # r
      BY <1>2, <1>9, <3>1
    <3>3. QED
      BY <1>2, <1>7, <3>1, <3>2 DEF Holds
  <2>3. \A q \in Requests : reqConn'[q] \in shut' => q \in cancelled' /\ reqPc'[q] # "return"
    <3>1. 0 \notin shut'
      <4>1. shut \subseteq 1..dialled
        BY <1>1 DEF OwnersOK
      <4>2. QED
        BY <1>2, <1>3, <4>1
    <3>2. QED
      BY <1>1, <1>2, <1>7, <3>1 DEF WatchersOK
  <2>4. \A q \in Requests : reqPc'[q] = "return" => reqConn'[q] \notin doomed'
    BY <1>1, <1>2, <1>7 DEF WatchersOK
  <2>5. \A i \in 1..Len(idle') : idle'[i] \notin shut'
    BY <1>1, <1>2, <1>6, <1>9 DEF WatchersOK
  <2>6. QED
    BY <2>1, <2>2, <2>3, <2>4, <2>5 DEF WatchersOK
<1>13. WiresOK'
  <2>1. wire[c] = <<>>
    BY <1>2, ReadToTheEnd
  <2>2. ASSUME NEW d \in Conns, Unheld(d)'
        PROVE  wire'[d] = <<>> /\ shape'[d] = NoShape
    <3>1. CASE d = c
      BY <1>1, <1>2, <1>3, <1>4, <2>1, <3>1 DEF BytesOK
    <3>2. CASE d # c
      <4>1. Unheld(d)
        BY <1>7, <2>2, <3>2 DEF Unheld
      <4>2. QED
        BY <1>1, <1>2, <1>4, <3>2, <4>1 DEF WiresOK, BytesOK
    <3>3. QED
      BY <3>1, <3>2
  <2>3. ASSUME NEW q \in Requests PROVE AnswerOK(q)'
    <3>1. CASE q = r
      BY <1>7, <1>8, <3>1 DEF AnswerOK, Empty, Silent, Reading, Done
    <3>2. CASE q # r
      <4>1. AnswerOK(q)
        BY <1>1 DEF WiresOK
      <4>2. reqPc[q] \notin Empty =>
              wire'[reqConn[q]] = wire[reqConn[q]] /\ shape'[reqConn[q]] = shape[reqConn[q]]
        BY <1>1, <1>2, <1>3, <1>4, <3>2, Held DEF BytesOK
      <4>3. QED
        BY <1>7, <3>2, <4>1, <4>2, AnswerFrame
    <3>3. QED
      BY <3>1, <3>2
  <2>4. QED
    BY <2>2, <2>3 DEF WiresOK
<1>14. QED
  BY <1>10, <1>11, <1>12, <1>13 DEF Core

(* What the environment does.                                                *)
LEMMA EnvironmentStep ==
    ASSUME Core, \/ \E r \in Requests : Cancel(r)
                 \/ \E c \in Conns : WatcherCloses(c) \/ HangUp(c)
    PROVE  Core'
<1>1. PlacesOK /\ BytesOK /\ CountsOK /\ OwnersOK /\ WatchersOK /\ WiresOK
  BY DEF Core, TypesOK
<1>2. ASSUME UNCHANGED <<reqPc, reqConn, reqBuf, reqErr, wire, shape>>
      PROVE  WiresOK'
  BY <1>1, <1>2, AnswerFrame DEF WiresOK, Unheld
<1>3. ASSUME NEW r \in Requests, Cancel(r) PROVE Core'
  <2>1. /\ cancelled' = cancelled \union {r} /\ r \notin cancelled
        /\ doomed' = doomed \union ({watch[r]} \ {0})
        /\ watch' = [watch EXCEPT ![r] = 0]
        /\ UNCHANGED <<reqPc, reqConn, reqPooled, reqBuf, reqErr, reqSent, idle, shut,
                       dialled, hungUp, wire, shape>>
    BY <1>3 DEF Cancel, Watch, reqVars, netVars
  <2>2. /\ watch'[r] = 0 /\ \A q \in Requests : q # r => watch'[q] = watch[q]
        /\ watch' \in [Requests -> 0..NumConns]
    <3>1. 0 \in 0..NumConns
      BY HttpAssumption
    <3>2. QED
      BY <1>1, <2>1, <3>1 DEF PlacesOK
  <2>3. TypesOK' /\ OwnersOK'
    BY <1>1, <2>1, <2>2, ZenonT(60) DEF TypesOK, PlacesOK, BytesOK, CountsOK, OwnersOK
  <2>4. WatchersOK'
    <3>1. \A q \in Requests : watch'[q] # 0 =>
             watch'[q] = reqConn'[q] /\ q \notin cancelled' /\ reqPc'[q] \notin Done
      BY <1>1, <2>1, <2>2 DEF WatchersOK
    <3>2. watch[r] # 0 => Holds(r, watch[r]) /\ reqPc[r] \notin Done
      BY <1>1 DEF WatchersOK, Holds
    <3>3. \A d \in doomed' : \E q \in Requests : Holds(q, d)' /\ q \in cancelled'
      BY <1>1, <2>1, <3>2 DEF WatchersOK, Holds
    <3>4. \A q \in Requests : reqConn'[q] \in shut' => q \in cancelled' /\ reqPc'[q] # "return"
      BY <1>1, <2>1 DEF WatchersOK
    <3>5. ASSUME NEW q \in Requests, reqPc'[q] = "return" PROVE reqConn'[q] \notin doomed'
      <4>1. reqPc[q] \in Done /\ reqPc[q] \notin Empty
        BY <2>1, <3>5 DEF Done, Empty
      <4>2. watch[r] # 0 => reqConn[q] # watch[r]
        BY <1>1, <3>2, <4>1, Held DEF Holds
      <4>3. QED
        BY <1>1, <2>1, <3>5, <4>2 DEF WatchersOK
    <3>6. QED
      BY <1>1, <2>1, <3>1, <3>3, <3>4, <3>5 DEF WatchersOK
  <2>5. QED
    BY <1>2, <2>1, <2>3, <2>4 DEF Core
<1>4. ASSUME NEW c \in Conns, WatcherCloses(c) PROVE Core'
  <2>1. /\ c \in doomed /\ doomed' = doomed \ {c} /\ shut' = shut \union {c}
        /\ UNCHANGED <<reqPc, reqConn, reqPooled, reqBuf, reqErr, reqSent, cancelled, watch, idle,
                       dialled, hungUp, wire, shape>>
    BY <1>4 DEF WatcherCloses, reqVars, netVars
  <2>2. PICK p \in Requests : Holds(p, c) /\ p \in cancelled
    BY <1>1, <2>1 DEF WatchersOK
  <2>3. reqPc[p] \notin Empty /\ reqPc[p] # "return"
    BY <1>1, <2>1, <2>2 DEF PlacesOK, WatchersOK, Holds
  <2>4. c \in 1..dialled /\ \A q \in Requests : q # p => reqConn[q] # c
    BY <1>1, <2>2, <2>3, Held DEF Holds
  <2>5. TypesOK'
    BY <1>1, <2>1 DEF TypesOK, PlacesOK, BytesOK, CountsOK
  <2>6. OwnersOK'
    BY <1>1, <2>1, <2>4 DEF OwnersOK
  <2>7. WatchersOK'
    <3>1. \A i \in 1..Len(idle) : idle[i] # c
      BY <1>1, <2>2 DEF OwnersOK, Holds
    <3>2. \A q \in Requests : reqConn'[q] \in shut' => q \in cancelled' /\ reqPc'[q] # "return"
      BY <1>1, <2>1, <2>2, <2>3, <2>4 DEF WatchersOK
    <3>3. QED
      BY <1>1, <2>1, <3>1, <3>2 DEF WatchersOK, Holds
  <2>8. QED
    BY <1>2, <2>1, <2>5, <2>6, <2>7 DEF Core
<1>5. ASSUME NEW c \in Conns, HangUp(c) PROVE Core'
  <2>1. /\ hungUp' = hungUp \union {c}
        /\ UNCHANGED <<reqPc, reqConn, reqPooled, reqBuf, reqErr, reqSent, cancelled, watch, doomed,
                       idle, shut, dialled, wire, shape>>
    BY <1>5 DEF HangUp, reqVars, ctxVars
  <2>2. TypesOK' /\ OwnersOK'
    BY <1>1, <2>1 DEF TypesOK, PlacesOK, BytesOK, CountsOK, OwnersOK
  <2>3. WatchersOK'
    BY <1>1, <2>1 DEF WatchersOK, Holds
  <2>4. QED
    BY <1>2, <2>1, <2>2, <2>3 DEF Core
<1>6. QED
  BY <1>3, <1>4, <1>5

(* How often a request was written follows from where it is.                 *)
LEMMA SendsStep ==
    ASSUME TypesOK, SendsOK, NEW r \in Requests, Step(r)
    PROVE  SendsOK'
<1>1. reqPc \in [Requests -> Places] /\ reqSent \in [Requests -> Nat]
  BY DEF TypesOK, PlacesOK, CountsOK
<1>2. ASSUME NEW label, reqPc' = [reqPc EXCEPT ![r] = label], reqSent' = reqSent,
             \/ label \in {"failed", "answered", "parsed", "return"}
             \/ /\ reqPc[r] \in {"idle", "dial", "watch", "write"}
                /\ label \in {"dial", "watch", "write", "send"}
             \/ reqPc[r] \in {"redial", "rewatch"} /\ label \in {"rewatch", "rewrite"}
             \/ reqPc[r] = "read" /\ label = "redial" /\ r \notin Unsafe
             \/ label = reqPc[r]
      PROVE  SendsOK'
  <2>1. reqPc'[r] = label /\ \A q \in Requests : q # r => reqPc'[q] = reqPc[q]
    BY <1>1, <1>2
  <2>2. QED
    BY <1>1, <1>2, <2>1 DEF SendsOK
<1>3. ASSUME NEW label, reqPc' = [reqPc EXCEPT ![r] = label],
             reqSent' = [reqSent EXCEPT ![r] = @ + 1],
             \/ reqPc[r] = "send" /\ label \in {"read", "failed"}
             \/ reqPc[r] = "send" /\ label = "redial" /\ r \notin Unsafe
             \/ reqPc[r] = "rewrite" /\ label \in {"reread", "failed"}
      PROVE  SendsOK'
  <2>1. /\ reqPc'[r] = label /\ \A q \in Requests : q # r => reqPc'[q] = reqPc[q]
        /\ reqSent'[r] = reqSent[r] + 1 /\ \A q \in Requests : q # r => reqSent'[q] = reqSent[q]
    BY <1>1, <1>3
  <2>2. \/ reqPc[r] = "send" /\ reqSent[r] = 0
        \/ reqPc[r] = "rewrite" /\ reqSent[r] = 1 /\ r \notin Unsafe
    BY <1>3 DEF SendsOK
  <2>3. QED
    BY <1>1, <1>3, <2>1, <2>2 DEF SendsOK
<1>4. ASSUME PoolGet(r) \/ ProxyDial(r) PROVE SendsOK'
  <2>1. PICK label \in {"dial", "watch"} : reqPc' = [reqPc EXCEPT ![r] = label]
    BY <1>4 DEF PoolGet, ProxyDial, Move
  <2>2. reqPc[r] = "idle" /\ reqSent' = reqSent
    BY <1>4 DEF PoolGet, ProxyDial, Is
  <2>3. QED
    BY <1>2, <2>1, <2>2
<1>5. ASSUME dialNew(r) PROVE SendsOK'
  <2>1. \/ reqPc' = [reqPc EXCEPT ![r] = "failed"]
        \/ reqPc[r] = "dial" /\ reqPc' = [reqPc EXCEPT ![r] = "watch"]
        \/ reqPc[r] = "redial" /\ reqPc' = [reqPc EXCEPT ![r] = "rewatch"]
    BY <1>5 DEF dialNew, Move, Is
  <2>2. reqSent' = reqSent
    BY <1>5 DEF dialNew
  <2>3. QED
    BY <1>2, <2>1, <2>2
<1>6. ASSUME stopConnOnContextDone(r) PROVE SendsOK'
  <2>1. \/ reqPc[r] = "watch" /\ reqPc' = [reqPc EXCEPT ![r] = "write"]
        \/ reqPc[r] = "rewatch" /\ reqPc' = [reqPc EXCEPT ![r] = "rewrite"]
    BY <1>6 DEF stopConnOnContextDone, Move, Is
  <2>2. reqSent' = reqSent
    BY <1>6 DEF stopConnOnContextDone
  <2>3. QED
    BY <1>2, <2>1, <2>2
<1>7. ASSUME CheckContext(r) PROVE SendsOK'
  <2>1. PICK label \in {"failed", "send"} : reqPc' = [reqPc EXCEPT ![r] = label]
    BY <1>7 DEF CheckContext, CloseConn, Release, Move
  <2>2. reqPc[r] = "write" /\ reqSent' = reqSent
    BY <1>7 DEF CheckContext, Is
  <2>3. QED
    BY <1>2, <2>1, <2>2
<1>8. ASSUME WriteFails(r) PROVE SendsOK'
  <2>1. PICK label : /\ reqPc' = [reqPc EXCEPT ![r] = label]
                     /\ \/ label = "failed"
                        \/ label = "redial" /\ reqPc[r] = "send" /\ r \notin Unsafe
    BY <1>8 DEF WriteFails, CloseConn, Release, Move, Is, requestReplaySafe
  <2>2. reqPc[r] \in {"send", "rewrite"} /\ reqSent' = [reqSent EXCEPT ![r] = @ + 1]
    BY <1>8 DEF WriteFails
  <2>3. QED
    BY <1>3, <2>1, <2>2
<1>9. ASSUME NEW s \in Shapes, Write(r, s) PROVE SendsOK'
  <2>1. \/ reqPc[r] = "send" /\ reqPc' = [reqPc EXCEPT ![r] = "read"]
        \/ reqPc[r] = "rewrite" /\ reqPc' = [reqPc EXCEPT ![r] = "reread"]
    BY <1>9 DEF Write, Move, Is
  <2>2. reqSent' = [reqSent EXCEPT ![r] = @ + 1]
    BY <1>9 DEF Write
  <2>3. QED
    BY <1>3, <2>1, <2>2
<1>10. ASSUME Read(r) \/ ReadFails(r) PROVE SendsOK'
  <2>1. reqPc' = reqPc /\ reqSent' = reqSent
    BY <1>10 DEF Read, ReadFails
  <2>2. QED
    BY <2>1 DEF SendsOK
<1>11. ASSUME ParseFails(r) PROVE SendsOK'
  <2>1. PICK label : /\ reqPc' = [reqPc EXCEPT ![r] = label]
                     /\ \/ label = "failed"
                        \/ label = "redial" /\ reqPc[r] = "read" /\ r \notin Unsafe
    BY <1>11 DEF ParseFails, CloseConn, Release, Move, Is, requestReplaySafe
  <2>2. reqSent' = reqSent
    BY <1>11 DEF ParseFails
  <2>3. QED
    BY <1>2, <2>1, <2>2
<1>12. ASSUME Parsed(r) \/ Finish(r) \/ PoolPut(r) \/ Discard(r) PROVE SendsOK'
  <2>1. PICK label \in {"failed", "answered", "parsed", "return"} :
            reqPc' = [reqPc EXCEPT ![r] = label]
    BY <1>12 DEF Parsed, Finish, PoolPut, Discard, CloseConn, Release, Move
  <2>2. reqSent' = reqSent
    BY <1>12 DEF Parsed, Finish, PoolPut, Discard
  <2>3. QED
    BY <1>2, <2>1, <2>2
<1>13. QED
  BY <1>4, <1>5, <1>6, <1>7, <1>8, <1>9, <1>10, <1>11, <1>12 DEF Step

LEMMA HttpInvInit == HttpInit => HttpInv
<1> SUFFICES ASSUME HttpInit PROVE HttpInv
  OBVIOUS
<1>1. NumConns \in Nat /\ MaxIdle \in Nat
  BY HttpAssumption
<1>2. /\ \A r \in Requests : /\ reqPc[r] = "idle" /\ reqConn[r] = 0 /\ watch[r] = 0
                            /\ reqBuf[r] = <<>> /\ reqErr[r] = "" /\ reqSent[r] = 0
      /\ \A c \in Conns : wire[c] = <<>> /\ shape[c] = NoShape
      /\ idle = <<>> /\ shut = {} /\ doomed = {} /\ dialled = 0
  BY DEF HttpInit
<1>3. PlacesOK
  <2>1. 0 \in 0..NumConns /\ "idle" \in Places /\ "idle" \in Empty
    BY <1>1 DEF Places, Empty
  <2>2. /\ reqPc \in [Requests -> Places]
        /\ reqConn \in [Requests -> 0..NumConns] /\ watch \in [Requests -> 0..NumConns]
    BY <2>1 DEF HttpInit
  <2>3. QED
    BY <1>2, <2>1, <2>2 DEF PlacesOK
<1>4. BytesOK
  <2>1. NoShape \in ShapeSet
    BY DEF NoShape, ShapeSet, Framings
  <2>2. <<>> \in Seq(Token)
    BY EmptySeq
  <2>3. QED
    BY <2>1, <2>2 DEF BytesOK, HttpInit
<1>5. CountsOK
  <2>1. /\ reqPooled \in [Requests -> BOOLEAN] /\ reqSent \in [Requests -> Nat]
        /\ hungUp \subseteq Conns
    BY DEF HttpInit
  <2>2. idle \in Seq(Conns) /\ Len(idle) = 0
    BY <1>2, EmptySeq
  <2>3. dialled \in 0..NumConns /\ Len(idle) <= MaxIdle
    <3>1. dialled = 0 /\ Len(idle) = 0
      BY <1>2, <2>2
    <3>2. QED
      BY <1>1, <3>1
  <2>4. QED
    BY <2>1, <2>2, <2>3 DEF CountsOK
<1>6. OwnersOK
  <2>1. Len(idle) = 0
    BY <1>2, EmptySeq
  <2>2. \A r \in Requests : reqConn[r] = 0
    BY <1>2
  <2>3. \A i \in 1..Len(idle) : FALSE
    BY <2>1
  <2>4. dialled = 0 /\ shut = {}
    BY <1>2
  <2>5. \A r \in Requests : reqConn[r] <= dialled
    BY <2>2, <2>4
  <2>6. QED
    BY <2>2, <2>3, <2>4, <2>5 DEF OwnersOK
<1>7. WatchersOK
  <2>1. Len(idle) = 0
    BY <1>2, EmptySeq
  <2>2. QED
    BY <1>2, <2>1 DEF WatchersOK
<1>8. WiresOK
  BY <1>2 DEF WiresOK, AnswerOK, Empty, Silent, Reading, Done
<1>9. SendsOK
  <2>1. \A r \in Requests : reqPc[r] = "idle" /\ reqSent[r] = 0
    BY <1>2
  <2>2. QED
    BY <2>1 DEF SendsOK
<1>10. QED
  BY <1>3, <1>4, <1>5, <1>6, <1>7, <1>8, <1>9 DEF HttpInv, TypesOK

LEMMA HttpInvStep == HttpInv /\ [HttpNext]_httpVars => HttpInv'
<1> SUFFICES ASSUME HttpInv, [HttpNext]_httpVars PROVE HttpInv'
  OBVIOUS
<1>1. Core /\ TypesOK /\ SendsOK
  BY DEF HttpInv, Core
<1>2. CASE UNCHANGED httpVars
  <2>1. UNCHANGED <<reqPc, reqConn, reqPooled, reqBuf, reqErr, reqSent, cancelled, watch, doomed,
                    idle, shut, dialled, hungUp, wire, shape>>
    BY <1>2 DEF httpVars, reqVars, ctxVars, netVars
  <2>2. TypesOK' /\ OwnersOK' /\ SendsOK'
    BY <1>1, <2>1, ZenonT(60) DEF Core, TypesOK, PlacesOK, BytesOK, CountsOK, OwnersOK, SendsOK
  <2>3. WatchersOK'
    BY <1>1, <2>1 DEF Core, WatchersOK, Holds
  <2>4. WiresOK'
    BY <1>1, <2>1, AnswerFrame DEF Core, WiresOK, Unheld
  <2>5. QED
    BY <2>2, <2>3, <2>4 DEF HttpInv
<1>3. ASSUME NEW r \in Requests, Step(r) PROVE HttpInv'
  <2>1. SendsOK'
    BY <1>1, <1>3, SendsStep
  <2>2. Core'
    BY <1>1, <1>3, PoolGetStep, ProxyDialStep, DialNewStep, StopConnStep, CheckContextStep,
       WriteFailsStep, WriteStep, ReadStep, ReadFailsStep, ParseFailsStep, ParsedStep,
       FinishStep, PoolPutStep, DiscardStep DEF Step
  <2>3. QED
    BY <2>1, <2>2 DEF Core, HttpInv
<1>4. ASSUME \/ \E r \in Requests : Cancel(r)
             \/ \E c \in Conns : WatcherCloses(c) \/ HangUp(c)
      PROVE  HttpInv'
  <2>1. reqPc' = reqPc /\ reqSent' = reqSent
    BY <1>4 DEF Cancel, WatcherCloses, HangUp, reqVars
  <2>2. SendsOK'
    BY <1>1, <2>1 DEF SendsOK
  <2>3. Core'
    BY <1>1, <1>4, EnvironmentStep
  <2>4. QED
    BY <2>2, <2>3 DEF Core, HttpInv
<1>5. QED
  BY <1>2, <1>3, <1>4 DEF HttpNext

(* The inductive invariant says what the run's invariant says.               *)
LEMMA HttpInvImpliesSound == HttpInv => ExchangesSound
<1> SUFFICES ASSUME HttpInv PROVE ExchangesSound
  OBVIOUS
<1>1. PlacesOK /\ BytesOK /\ CountsOK /\ OwnersOK /\ WatchersOK /\ WiresOK /\ SendsOK
  BY DEF HttpInv, TypesOK
<1>2. HttpTypeOK
  <2>1. doomed \subseteq Conns
    BY <1>1, HttpAssumption DEF WatchersOK, Holds, PlacesOK, Conns
  <2>2. shut \subseteq Conns
    BY <1>1, HttpAssumption DEF OwnersOK, CountsOK, Conns
  <2>3. \A r \in Requests : reqConn[r] = 0 <=>
          reqPc[r] \in {"idle", "dial", "redial", "failed", "answered"}
    BY <1>1 DEF PlacesOK, Empty
  <2>4. QED
    BY <1>1, <2>1, <2>2, <2>3 DEF HttpTypeOK, PlacesOK, BytesOK, CountsOK
<1>3. HttpPoolSound
  <2>1. DOMAIN idle = 1..Len(idle) /\ \A i \in 1..Len(idle) : idle[i] # 0
    BY <1>1, Parked
  <2>2. IsInjective(idle)
    BY <1>1, <2>1 DEF OwnersOK, IsInjective
  <2>3. ASSUME NEW i \in 1..Len(idle)
        PROVE  /\ idle[i] \notin shut \union doomed
               /\ \A r \in Requests : reqConn[r] # idle[i] /\ watch[r] # idle[i]
    <3>1. \A r \in Requests : reqConn[r] # idle[i]
      BY <1>1 DEF OwnersOK
    <3>2. QED
      BY <1>1, <2>1, <3>1 DEF WatchersOK, Holds
  <2>4. QED
    BY <2>1, <2>2, <2>3 DEF HttpPoolSound
<1>4. HttpOwnResponse
  <2>1. SUFFICES ASSUME NEW r \in Requests, NEW i \in DOMAIN reqBuf[r]
                 PROVE  reqBuf[r][i][1] = r
    BY DEF HttpOwnResponse
  <2>2. /\ reqBuf[r] \in Seq(Token) /\ i \in 1..Len(reqBuf[r]) /\ reqBuf[r] # <<>>
        /\ Len(reqBuf[r]) \in Nat
    <3>1. reqBuf[r] \in Seq(Token)
      BY <1>1 DEF BytesOK
    <3>2. Len(reqBuf[r]) \in Nat /\ i \in 1..Len(reqBuf[r])
      BY <3>1, LenProperties
    <3>3. reqBuf[r] # <<>>
      BY <3>2, EmptySeq
    <3>4. QED
      BY <3>1, <3>2, <3>3
  <2>3. reqPc[r] \in Reading \union Done
    BY <1>1, <2>2 DEF WiresOK, AnswerOK, PlacesOK, Places
  <2>4. /\ shape[reqConn[r]] \in Shapes \union {NoShape}
        /\ Whole(reqBuf[r], wire[reqConn[r]], Tokens(r, shape[reqConn[r]]))
    BY <1>1, <2>2, <2>3 DEF WiresOK, AnswerOK
  <2>5. wire[reqConn[r]] \in Seq(Token)
    BY <1>1, <2>3, Held DEF BytesOK, Empty, Reading, Done
  <2>6. Len(wire[reqConn[r]]) \in Nat
    BY <2>5, LenProperties
  <2>7. i \in 1..Len(Tokens(r, shape[reqConn[r]]))
    <3>1. Len(reqBuf[r]) + Len(wire[reqConn[r]]) = Len(Tokens(r, shape[reqConn[r]]))
      BY <2>4 DEF Whole
    <3>2. /\ i \in 1..Len(reqBuf[r]) /\ Len(reqBuf[r]) \in Nat
          /\ Len(wire[reqConn[r]]) \in Nat
      BY <2>2, <2>6
    <3>3. \A x, y \in Nat : \A j \in 1..x : j \in 1..(x + y)
      OBVIOUS
    <3>4. i \in 1..(Len(reqBuf[r]) + Len(wire[reqConn[r]]))
      BY <3>2, <3>3
    <3>5. QED
      BY <3>1, <3>4
  <2>8. reqBuf[r][i] = Tokens(r, shape[reqConn[r]])[i]
    BY <2>2, <2>4 DEF Whole
  <2>9. QED
    BY <2>4, <2>7, <2>8, TokensShape
<1>5. HttpNoUnsafeReplay
  BY <1>1 DEF SendsOK, HttpNoUnsafeReplay
<1>6. QED
  BY <1>2, <1>3, <1>4, <1>5 DEF ExchangesSound

(* Every run of the client keeps the inductive invariant.                    *)
THEOREM HttpInvariant == HttpSafety => []HttpInv
  BY HttpInvInit, HttpInvStep, PTL DEF HttpSafety

(* Connections are shared soundly, whatever servers, cancellations and the   *)
(* order of the requests: a parked connection is open, parked once, watched  *)
(* by nobody and has nothing on its way, so that nobody reads the answer to  *)
(* an earlier request, and no unsafe request is sent a second time.          *)
THEOREM ExchangesAreSound == HttpSafety => []ExchangesSound
  BY HttpInvariant, HttpInvImpliesSound, PTL

-----------------------------------------------------------------------------
(* The request path for any number of callers, retries, redirects, streams   *)
(* and client refreshes: its type invariant with the count of stream tokens, *)
(* no blind repetition of an unsafe request, one solver for all who wait, and *)
(* credentials that stay at their origin.                                    *)

(* The safety part of the path's specification.                              *)
RequestSafety == RequestInit /\ [][RequestNext]_pathVars

-----------------------------------------------------------------------------
(* The inductive invariant.  Labels of the send loop by what was sent there:  *)
(* as often as attempts were counted, once more, or with the resend twice.   *)
Even == {"send", "acquire", "h2"}
Ahead == {"backoff", "h2backoff", "challenge", "waiting", "solving", "resend"}
Ended == {"idle", "response", "failed", "returned"}

Generations == 1..MaxRefresh + 1

Holders(g) == {c \in Callers : rqSem[c] = g}

CallsOK ==
    /\ rqPc \in [Callers -> Even \union Ahead \union Ended]
    /\ rqTry \in [Callers -> 0..MaxRetries]
    /\ rqHop \in [Callers -> Nat] /\ \A c \in Callers : rqHop[c] <= Redirects[c]
    /\ rqAt \in [Callers -> Origins]
    /\ rqUnsafe \subseteq Callers /\ rqCred \subseteq Callers
    /\ \A c \in Callers : rqPc[c] \in {"backoff", "h2backoff"} => rqTry[c] < MaxRetries

CallSendsOK ==
    /\ rqSends \in [Callers -> Nat] /\ rqLost \subseteq Callers
    /\ \A c \in Callers :
         /\ rqPc[c] \in Even => rqSends[c] <= rqTry[c]
         /\ rqPc[c] \in Ahead => rqSends[c] <= rqTry[c] + 1
         /\ rqSends[c] <= MaxRetries + 2
         /\ c \in rqUnsafe \intersect rqLost => rqPc[c] \in {"response", "failed", "returned"}

SolveOK ==
    /\ solving \in BOOLEAN /\ solveErr \in BOOLEAN /\ solved \subseteq Callers
    /\ solving <=> \E c \in Callers : At(c, "solving")
    /\ \A c, d \in Callers : At(c, "solving") /\ At(d, "solving") => c = d
    /\ \A c \in Callers : At(c, "waiting") /\ ~solving /\ ~solveErr => c \in solved

TokensOK ==
    /\ semGen \in Generations
    /\ rqSem \in [Callers -> Generations \union {0}]
    /\ \A c \in Callers : rqSem[c] # 0 <=> At(c, "h2")
    /\ semHeld \in [Generations -> 0..Streams]
    /\ \A g \in Generations : semHeld[g] = Cardinality(Holders(g))

PathInv == CallsOK /\ CallSendsOK /\ SolveOK /\ TokensOK
-----------------------------------------------------------------------------
(* A caller's label stays a label, and its attempts and hops stay bounded.   *)
LEMMA CallsStep ==
    ASSUME RequestAssumption, CallsOK, [RequestNext]_pathVars
    PROVE  CallsOK'
<1> USE DEF RequestAssumption, CallsOK, Even, Ahead, Ended, At, Goto,
            pathVars, callVars, histVars, solveVars, semVars
<1>1. ASSUME NEW c \in Callers, executeRequestWithRetry(c)
      PROVE  CallsOK'
  BY <1>1 DEF executeRequestWithRetry
<1>2. ASSUME NEW c \in Callers, SendFails(c)
      PROVE  CallsOK'
  BY <1>2 DEF SendFails, Sent, AttemptFailed, Retries
<1>3. ASSUME NEW c \in Callers, SendAnswered(c)
      PROVE  CallsOK'
  BY <1>3 DEF SendAnswered, Sent
<1>4. ASSUME NEW c \in Callers, Backoff(c)
      PROVE  CallsOK'
  BY <1>4 DEF Backoff
<1>5. ASSUME NEW c \in Callers, SolveBegin(c)
      PROVE  CallsOK'
  BY <1>5 DEF SolveBegin
<1>6. ASSUME NEW c \in Callers, NEW ok \in BOOLEAN, SolveEnd(c, ok)
      PROVE  CallsOK'
  BY <1>6 DEF SolveEnd
<1>7. ASSUME NEW c \in Callers, SolveWait(c) \/ Resend(c)
      PROVE  CallsOK'
  BY <1>7 DEF SolveWait, Resend, Sent
<1>8. ASSUME NEW c \in Callers, H2Acquire(c)
      PROVE  CallsOK'
  BY <1>8 DEF H2Acquire
<1>9. ASSUME NEW c \in Callers, H2Do(c)
      PROVE  CallsOK'
  BY <1>9 DEF H2Do, Sent, AttemptFailed, Retries
<1>10. ASSUME NEW c \in Callers, followRedirectChain(c)
       PROVE  CallsOK'
  BY <1>10 DEF followRedirectChain, KeepsCredentials
<1>11. ASSUME NEW c \in Callers, Return(c) \/ HopFailed(c)
       PROVE  CallsOK'
  BY <1>11 DEF Return, HopFailed
<1>12. CASE RefreshH2Client \/ Stop \/ UNCHANGED pathVars
  BY <1>12 DEF RefreshH2Client, Stop
<1>13. QED
  BY <1>1, <1>2, <1>3, <1>4, <1>5, <1>6, <1>7, <1>8, <1>9, <1>10, <1>11, <1>12
  DEF RequestNext, Caller

(* The sends keep pace with the attempts, and a lost unsafe request is over. *)
LEMMA CallSendsStep ==
    ASSUME RequestAssumption, CallsOK, CallSendsOK, [RequestNext]_pathVars
    PROVE  CallSendsOK'
<1> USE DEF RequestAssumption, CallsOK, CallSendsOK, Even, Ahead, Ended, At, Goto,
            pathVars, callVars, histVars, solveVars, semVars
<1>1. ASSUME NEW c \in Callers, executeRequestWithRetry(c)
      PROVE  CallSendsOK'
  BY <1>1 DEF executeRequestWithRetry
<1>2. ASSUME NEW c \in Callers, SendFails(c)
      PROVE  CallSendsOK'
  BY <1>2 DEF SendFails, Sent, AttemptFailed, Retries
<1>3. ASSUME NEW c \in Callers, SendAnswered(c)
      PROVE  CallSendsOK'
  BY <1>3 DEF SendAnswered, Sent
<1>4. ASSUME NEW c \in Callers, Backoff(c)
      PROVE  CallSendsOK'
  BY <1>4 DEF Backoff
<1>5. ASSUME NEW c \in Callers, SolveBegin(c)
      PROVE  CallSendsOK'
  BY <1>5 DEF SolveBegin
<1>6. ASSUME NEW c \in Callers, NEW ok \in BOOLEAN, SolveEnd(c, ok)
      PROVE  CallSendsOK'
  BY <1>6 DEF SolveEnd
<1>7. ASSUME NEW c \in Callers, SolveWait(c) \/ Resend(c)
      PROVE  CallSendsOK'
  BY <1>7 DEF SolveWait, Resend, Sent
<1>8. ASSUME NEW c \in Callers, H2Acquire(c)
      PROVE  CallSendsOK'
  BY <1>8 DEF H2Acquire
<1>9. ASSUME NEW c \in Callers, H2Do(c)
      PROVE  CallSendsOK'
  BY <1>9 DEF H2Do, Sent, AttemptFailed, Retries
<1>10. ASSUME NEW c \in Callers, followRedirectChain(c)
       PROVE  CallSendsOK'
  BY <1>10 DEF followRedirectChain
<1>11. ASSUME NEW c \in Callers, Return(c) \/ HopFailed(c)
       PROVE  CallSendsOK'
  BY <1>11 DEF Return, HopFailed
<1>12. CASE RefreshH2Client \/ Stop \/ UNCHANGED pathVars
  BY <1>12 DEF RefreshH2Client, Stop
<1>13. QED
  BY <1>1, <1>2, <1>3, <1>4, <1>5, <1>6, <1>7, <1>8, <1>9, <1>10, <1>11, <1>12
  DEF RequestNext, Caller

(* There is one solver while the host is marked, and who waits with a free    *)
(* host and no error was there when a solve succeeded.                       *)
LEMMA SolveStep ==
    ASSUME RequestAssumption, CallsOK, SolveOK, [RequestNext]_pathVars
    PROVE  SolveOK'
<1> USE DEF RequestAssumption, CallsOK, SolveOK, At, Goto,
            pathVars, callVars, histVars, solveVars, semVars
<1>1. ASSUME NEW c \in Callers, executeRequestWithRetry(c) \/ SendAnswered(c) \/ Backoff(c)
      PROVE  SolveOK'
  BY <1>1 DEF executeRequestWithRetry, SendAnswered, Sent, Backoff
<1>2. ASSUME NEW c \in Callers, SendFails(c) \/ H2Do(c)
      PROVE  SolveOK'
  BY <1>2 DEF SendFails, H2Do, Sent, AttemptFailed
<1>3. ASSUME NEW c \in Callers, SolveBegin(c)
      PROVE  SolveOK'
  BY <1>3 DEF SolveBegin
<1>4. ASSUME NEW c \in Callers, NEW ok \in BOOLEAN, SolveEnd(c, ok)
      PROVE  SolveOK'
  BY <1>4 DEF SolveEnd
<1>5. ASSUME NEW c \in Callers, SolveWait(c) \/ Resend(c)
      PROVE  SolveOK'
  BY <1>5 DEF SolveWait, Resend, Sent
<1>6. ASSUME NEW c \in Callers, H2Acquire(c)
      PROVE  SolveOK'
  BY <1>6 DEF H2Acquire
<1>7. ASSUME NEW c \in Callers, followRedirectChain(c) \/ Return(c) \/ HopFailed(c)
      PROVE  SolveOK'
  BY <1>7 DEF followRedirectChain, Return, HopFailed
<1>8. CASE RefreshH2Client \/ Stop \/ UNCHANGED pathVars
  BY <1>8 DEF RefreshH2Client, Stop
<1>9. QED
  BY <1>1, <1>2, <1>3, <1>4, <1>5, <1>6, <1>7, <1>8 DEF RequestNext, Caller

(* A token is counted in the channel it was taken from.                      *)
LEMMA TokensStep ==
    ASSUME RequestAssumption, CallsOK, TokensOK, [RequestNext]_pathVars
    PROVE  TokensOK'
<1> USE DEF RequestAssumption, CallsOK, TokensOK, Generations, At, Goto
<1>1. \A g \in Generations : IsFiniteSet(Holders(g))
  BY FS_Subset DEF Holders
<1>2. ASSUME NEW c \in Callers, H2Acquire(c)
      PROVE  TokensOK'
  <2>1. CASE rqPc' = [rqPc EXCEPT ![c] = "failed"] /\ UNCHANGED <<semHeld, rqSem, semGen>>
    BY <2>1, <1>2 DEF H2Acquire, Holders
  <2>2. CASE /\ semHeld[semGen] < Streams
             /\ semHeld' = [semHeld EXCEPT ![semGen] = @ + 1]
             /\ rqSem' = [rqSem EXCEPT ![c] = semGen]
             /\ rqPc' = [rqPc EXCEPT ![c] = "h2"]
    <3>1. PICK g \in Generations : g = semGen
      OBVIOUS
    <3>2. rqSem[c] = 0 /\ semGen' = semGen
      BY <1>2 DEF H2Acquire
    <3>3. {d \in Callers : rqSem'[d] = g} = Holders(g) \union {c} /\ c \notin Holders(g)
      BY <2>2, <3>1, <3>2 DEF Holders
    <3>4. Cardinality({d \in Callers : rqSem'[d] = g}) = Cardinality(Holders(g)) + 1
      <4>1. IsFiniteSet(Holders(g))
        BY <1>1
      <4>2. Cardinality(Holders(g) \union {c}) = Cardinality(Holders(g)) + 1
        BY <4>1, <3>3, FS_AddElement
      <4>3. QED
        BY <4>2, <3>3
    <3>5. ASSUME NEW k \in Generations
          PROVE  semHeld'[k] = Cardinality({d \in Callers : rqSem'[d] = k})
      <4>1. CASE k = g
        BY <2>2, <3>1, <3>4, <4>1
      <4>2. CASE k # g
        <5>1. {d \in Callers : rqSem'[d] = k} = Holders(k)
          BY <2>2, <3>1, <3>2, <4>2 DEF Holders
        <5>2. QED
          BY <2>2, <3>1, <4>2, <5>1
      <4>3. QED
        BY <4>1, <4>2
    <3>6. QED
      BY <2>2, <3>2, <3>5 DEF Holders
  <2>3. QED
    BY <1>2, <2>1, <2>2 DEF H2Acquire
<1>3. ASSUME NEW c \in Callers, H2Do(c)
      PROVE  TokensOK'
  <2>1. PICK h \in Generations : h = rqSem[c]
    BY <1>3 DEF H2Do
  <2>2. /\ semHeld' = [semHeld EXCEPT ![h] = @ - 1] /\ rqSem' = [rqSem EXCEPT ![c] = 0]
        /\ semGen' = semGen
        /\ \E l \in {"response", "failed", "backoff", "h2backoff"} : rqPc' = [rqPc EXCEPT ![c] = l]
    BY <1>3, <2>1 DEF H2Do, Sent, AttemptFailed
  <2> DEFINE Left(g) == {d \in Callers : rqSem'[d] = g}
  <2>3. Left(h) = Holders(h) \ {c} /\ c \in Holders(h)
    BY <2>1, <2>2 DEF Holders
  <2>4. Cardinality(Left(h)) = Cardinality(Holders(h)) - 1
    <3>1. IsFiniteSet(Holders(h))
      BY <1>1
    <3>2. Cardinality(Holders(h) \ {c}) = Cardinality(Holders(h)) - 1
      BY <3>1, <2>3, FS_RemoveElement
    <3>3. QED
      BY <3>2, <2>3
  <2>5. ASSUME NEW g \in Generations, g # h
        PROVE  Left(g) = Holders(g)
    BY <2>1, <2>2, <2>5 DEF Holders
  <2>6. Cardinality(Left(h)) \in Nat
    BY <1>1, <2>1, <2>3, FS_RemoveElement, FS_CardinalityType
  <2>7. ASSUME NEW g \in Generations
        PROVE  semHeld'[g] = Cardinality(Left(g)) /\ semHeld'[g] \in 0..Streams
    <3>1. CASE g = h
      BY <2>1, <2>2, <2>4, <2>6, <3>1
    <3>2. CASE g # h
      BY <2>2, <2>5, <2>7, <3>2
    <3>3. QED
      BY <3>1, <3>2
  <2>8. semHeld' \in [Generations -> 0..Streams]
    BY <2>1, <2>2, <2>7
  <2>9. /\ rqSem' \in [Callers -> Generations \union {0}]
        /\ \A d \in Callers : rqSem'[d] # 0 <=> rqPc'[d] = "h2"
    BY <2>2
  <2>10. QED
    BY <2>2, <2>7, <2>8, <2>9 DEF Holders
<1>4. CASE RefreshH2Client
  BY <1>4 DEF RefreshH2Client, callVars, Holders
<1>5. ASSUME NEW c \in Callers,
             \/ executeRequestWithRetry(c) \/ SendFails(c) \/ SendAnswered(c) \/ Backoff(c)
             \/ SolveBegin(c) \/ (\E ok \in BOOLEAN : SolveEnd(c, ok)) \/ SolveWait(c)
             \/ Resend(c) \/ followRedirectChain(c) \/ Return(c) \/ HopFailed(c)
      PROVE  TokensOK'
  <2>1. UNCHANGED semVars
    BY <1>5 DEF executeRequestWithRetry, SendFails, SendAnswered, Backoff, SolveBegin,
                SolveEnd, SolveWait, Resend, followRedirectChain, Return, HopFailed
  <2>2. \A d \in Callers : rqPc'[d] = "h2" <=> rqPc[d] = "h2"
    BY <1>5 DEF executeRequestWithRetry, SendFails, SendAnswered, AttemptFailed, Backoff,
                SolveBegin, SolveEnd, SolveWait, Resend, followRedirectChain, Return,
                HopFailed, Even, Ahead, Ended
  <2>3. QED
    BY <2>1, <2>2 DEF semVars, Holders
<1>6. CASE Stop \/ UNCHANGED pathVars
  BY <1>6 DEF Stop, pathVars, callVars, semVars, Holders
<1>7. QED
  BY <1>2, <1>3, <1>4, <1>5, <1>6 DEF RequestNext, Caller
-----------------------------------------------------------------------------
(* The inductive invariant holds of every behaviour of the request path.     *)
THEOREM RequestInvariant ==
    ASSUME RequestAssumption
    PROVE  RequestSafety => []PathInv
<1>1. RequestInit => PathInv
  <2> SUFFICES ASSUME RequestInit PROVE PathInv
    OBVIOUS
  <2> USE DEF RequestAssumption, RequestInit, Even, Ahead, Ended, At
  <2>1. CallsOK
    BY DEF CallsOK
  <2>2. CallSendsOK
    BY DEF CallSendsOK
  <2>3. SolveOK
    BY DEF SolveOK
  <2>4. \A g \in Generations : Holders(g) = {}
    BY DEF Holders, Generations
  <2>5. TokensOK
    <3>1. 1 \in Generations /\ semHeld \in [Generations -> 0..Streams]
      BY DEF Generations
    <3>2. \A g \in Generations : semHeld[g] = 0 /\ Cardinality(Holders(g)) = 0
      BY <2>4, FS_EmptySet DEF Generations
    <3>3. QED
      BY <3>1, <3>2 DEF TokensOK
  <2>6. QED
    BY <2>1, <2>2, <2>3, <2>5 DEF PathInv
<1>2. PathInv /\ [RequestNext]_pathVars => PathInv'
  BY CallsStep, CallSendsStep, SolveStep, TokensStep DEF PathInv
<1>3. QED
  BY <1>1, <1>2, PTL DEF RequestSafety

(* Types, bounds, and every HTTP/2 stream token in the channel it came from.  *)
THEOREM RequestTypes ==
    ASSUME RequestAssumption
    PROVE  RequestSafety => []RequestTypeOK
<1>1. PathInv => RequestTypeOK
  BY DEF PathInv, CallsOK, CallSendsOK, SolveOK, TokensOK, RequestTypeOK, RequestAssumption,
         Holders, Generations
<1>2. QED
  BY <1>1, RequestInvariant, PTL

(* No unsafe request that may have arrived is sent again, and no request is   *)
(* sent more often than its retries and one resend allow (automaticRetrySafe, *)
(* handleAntiBotResponse).                                                   *)
THEOREM RequestRepeatsSafely ==
    ASSUME RequestAssumption
    PROVE  RequestSafety => []RequestNoBlindRepeat
<1>1. PathInv => RequestNoBlindRepeat
  BY DEF PathInv, CallSendsOK, RequestNoBlindRepeat
<1>2. QED
  BY <1>1, RequestInvariant, PTL

(* Callers of a challenged host share one solver and its outcome              *)
(* (antiBotManager.solve).                                                   *)
THEOREM RequestSharesSolver ==
    ASSUME RequestAssumption
    PROVE  RequestSafety => []RequestSharedSolve
<1>1. PathInv => RequestSharedSolve
  <2> SUFFICES ASSUME PathInv PROVE RequestSharedSolve
    OBVIOUS
  <2> DEFINE S == {c \in Callers : At(c, "solving")}
  <2>1. CASE solving
    <3>1. PICK c \in Callers : At(c, "solving")
      BY <2>1 DEF PathInv, SolveOK
    <3>2. S = {c}
      BY <3>1 DEF PathInv, SolveOK
    <3>3. Cardinality(S) = 1
      BY <3>2, FS_Singleton
    <3>4. QED
      BY <2>1, <3>3 DEF PathInv, SolveOK, RequestSharedSolve
  <2>2. CASE ~solving
    <3>1. S = {}
      BY <2>2 DEF PathInv, SolveOK
    <3>2. Cardinality(S) = 0
      BY <3>1, FS_EmptySet
    <3>3. QED
      BY <2>2, <3>2 DEF PathInv, SolveOK, RequestSharedSolve
  <2>3. QED
    BY <2>1, <2>2
<1>2. QED
  BY <1>1, RequestInvariant, PTL

(* A redirect to another origin takes the credentials away for good           *)
(* (buildRedirectRequest).                                                   *)
THEOREM RequestKeepsCredentials ==
    ASSUME RequestAssumption
    PROVE  RequestSafety => RequestCredentials
<1>1. ASSUME CallsOK, [RequestNext]_pathVars
      PROVE  [/\ rqCred' \subseteq rqCred
              /\ \A c \in Callers : rqAt'[c] # rqAt[c] => c \notin rqCred']_pathVars
  <2>1. ASSUME NEW c \in Callers, followRedirectChain(c)
        PROVE  /\ rqCred' \subseteq rqCred
               /\ \A d \in Callers : rqAt'[d] # rqAt[d] => d \notin rqCred'
    BY <1>1, <2>1 DEF followRedirectChain, KeepsCredentials, CallsOK
  <2>2. ASSUME NEW c \in Callers,
               \/ executeRequestWithRetry(c) \/ SendFails(c) \/ SendAnswered(c) \/ Backoff(c)
               \/ SolveBegin(c) \/ (\E ok \in BOOLEAN : SolveEnd(c, ok)) \/ SolveWait(c)
               \/ Resend(c) \/ H2Acquire(c) \/ H2Do(c) \/ Return(c) \/ HopFailed(c)
        PROVE  UNCHANGED <<rqAt, rqCred>>
    BY <2>2 DEF executeRequestWithRetry, SendFails, SendAnswered, Backoff, SolveBegin, SolveEnd,
                SolveWait, Resend, H2Acquire, H2Do, Return, HopFailed
  <2>3. CASE RefreshH2Client \/ Stop
    BY <2>3 DEF RefreshH2Client, Stop, callVars
  <2>4. QED
    BY <1>1, <2>1, <2>2, <2>3 DEF RequestNext, Caller
<1>2. PathInv => CallsOK
  BY DEF PathInv
<1>3. QED
  BY <1>1, <1>2, RequestInvariant, PTL DEF RequestSafety, RequestCredentials

(* What the run on the request path checks, in one formula.                   *)
THEOREM RequestsAreSound ==
    ASSUME RequestAssumption
    PROVE  RequestSafety => []RequestsSound
  BY RequestTypes, RequestRepeatsSafely, RequestSharesSolver, PTL DEF RequestsSound

-----------------------------------------------------------------------------
(* The rotation of proxies, for any number of proxies and of requests.        *)

ProxySafety == LoadProxies /\ [][ProxyNext]_proxyVars

(* The inductive invariant of the rotation: a proxy waits no longer than the  *)
(* index has come nearer, and a cooldown is the delay of the last failure.    *)
ProxyTypes ==
    /\ proxyIndex \in Proxies /\ failCount \in [Proxies -> 0..MaxFails]
    /\ coolUntil \in [Proxies -> Int] /\ failedAt \in [Proxies -> Nat]
    /\ waits \in [Proxies -> Nat] /\ inUse \in [Users -> Proxies \union {-1}]
    /\ now \in Nat /\ calls \in 0..MaxCalls
TurnsOK == \A p \in Proxies : waits[p] + Rank(p) <= NumProxies - 1
CooldownsOK ==
    \A p \in Proxies :
        failCount[p] > 0 => coolUntil[p] - failedAt[p] = BackoffSecs(failCount[p])
ProxyInv == ProxyTypes /\ TurnsOK /\ CooldownsOK

-----------------------------------------------------------------------------
LEMMA LeastOf ==
  ASSUME NEW S, S \subseteq Nat, S # {}
  PROVE  \E x \in S : \A y \in S : x <= y
<1>1. IsWellFoundedOn(OpToRel(<, Nat), Nat)
  BY NatLessThanWellFounded
<1>2. PICK x \in S : \A y \in S : ~(<<y, x>> \in OpToRel(<, Nat))
  BY <1>1, WFMin
<1>3. \A y \in S : ~(y < x)
  BY <1>2 DEF OpToRel
<1> QED BY <1>3

(* How far p is from the index i.                                             *)
Dist(p, i) == (p - i) % NumProxies

LEMMA RankOf ==
  ASSUME NEW p \in Proxies, NEW i \in Proxies
  PROVE  Dist(p, i) = IF p >= i THEN p - i ELSE p - i + NumProxies
<1> DEFINE N == NumProxies
           x == p - i
<1>1. N \in Nat \ {0} /\ x \in (1 - N)..(N - 1) /\ p \in Int /\ i \in Int
  BY ProxyAssumption DEF Proxies
<1> HIDE DEF x, N
<1>2. x % N = IF x >= 0 THEN x ELSE x + N
  <2>1. CASE x >= 0
    BY <1>1, <2>1
  <2>2. CASE ~(x >= 0)
    BY <1>1, <2>2
  <2> QED BY <2>1, <2>2
<1>3. Dist(p, i) = x % N
  BY DEF Dist, x, N
<1>4. x >= 0 <=> p >= i
  BY <1>1 DEF x
<1> QED BY <1>2, <1>3, <1>4 DEF x, N

(* The index after p, and how far the others are from it then.               *)
After(p) == (p + 1) % NumProxies
LEMMA AfterOf ==
  ASSUME NEW p \in Proxies
  PROVE  After(p) = IF p + 1 = NumProxies THEN 0 ELSE p + 1
<1> DEFINE N == NumProxies
           x == p + 1
<1>1. N \in Nat \ {0} /\ x \in 1..N
  BY ProxyAssumption DEF Proxies
<1> HIDE DEF x, N
<1>2. x % N = IF x = N THEN 0 ELSE x
  <2>1. CASE x = N
    BY <1>1, <2>1
  <2>2. CASE x # N
    BY <1>1, <2>2
  <2> QED BY <2>1, <2>2
<1> QED BY <1>2 DEF After, x, N

Nearer(p, q, i) == Dist(q, After(p)) = Dist(q, i) - Dist(p, i) - 1

LEMMA TurnPasses ==
  ASSUME NEW i \in Proxies, NEW p \in Proxies, NEW q \in Proxies,
         Dist(p, i) < Dist(q, i)
  PROVE  Nearer(p, q, i)
<1> DEFINE N == NumProxies
           j == After(p)
<1>1. N \in Nat \ {0} /\ i \in 0..(N - 1) /\ p \in 0..(N - 1) /\ q \in 0..(N - 1)
  BY ProxyAssumption DEF Proxies
<1>2. j = IF p + 1 = N THEN 0 ELSE p + 1
  BY AfterOf
<1>3. j \in Proxies
  BY <1>1, <1>2 DEF Proxies
<1> DEFINE a == Dist(p, i)
           b == Dist(q, i)
           c == Dist(q, j)
<1>4. /\ a = IF p >= i THEN p - i ELSE p - i + N
      /\ b = IF q >= i THEN q - i ELSE q - i + N
      /\ c = IF q >= j THEN q - j ELSE q - j + N
  BY <1>3, RankOf
<1>5. a < b
  OBVIOUS
<1> HIDE DEF N, j, a, b, c
<1>6. c = b - a - 1
  BY <1>1, <1>2, <1>4, <1>5
<1> QED BY <1>6 DEF Nearer, j, a, b, c

LEMMA RankBound ==
  ASSUME NEW i \in Proxies, NEW p \in Proxies
  PROVE  Dist(p, i) \in 0..(NumProxies - 1)
<1>1. NumProxies \in Nat \ {0} /\ i \in Int /\ p \in Int
  BY ProxyAssumption DEF Proxies
<1> QED BY <1>1 DEF Dist

LEMMA SameRank ==
  ASSUME NEW i \in Proxies, NEW p \in Proxies, NEW q \in Proxies,
         Dist(p, i) = Dist(q, i)
  PROVE  p = q
<1> DEFINE N == NumProxies
           a == Dist(p, i)
           b == Dist(q, i)
<1>1. N \in Nat \ {0} /\ i \in 0..(N - 1) /\ p \in 0..(N - 1) /\ q \in 0..(N - 1)
  BY ProxyAssumption DEF Proxies
<1>2. /\ a = IF p >= i THEN p - i ELSE p - i + N
      /\ b = IF q >= i THEN q - i ELSE q - i + N
  BY RankOf
<1>3. a = b
  OBVIOUS
<1> HIDE DEF N, a, b
<1> QED BY <1>1, <1>2, <1>3

-----------------------------------------------------------------------------
(* An available proxy there is, so one of them comes first.                   *)
LEMMA FirstAvailable ==
  ASSUME ProxyTypes, NEW q \in Proxies, Available(q)
  PROVE  \E p \in Proxies : Available(p) /\ Turn(p)
<1> DEFINE S == {Rank(p) : p \in {x \in Proxies : Available(x)}}
<1>1. \A p \in Proxies : Rank(p) \in 0..(NumProxies - 1)
  BY RankBound DEF Rank, Dist, ProxyTypes
<1>2. S \subseteq Nat /\ S # {}
  BY <1>1
<1> HIDE DEF S
<1>3. PICK m \in S : \A y \in S : m <= y
  BY <1>2, LeastOf
<1> USE DEF S
<1>4. PICK p \in Proxies : Available(p) /\ m = Rank(p)
  BY <1>3
<1>5. ASSUME NEW x \in Proxies, Rank(x) < Rank(p), Available(x) PROVE FALSE
  <2>1. Rank(x) \in S
    BY <1>5
  <2>2. Rank(p) <= Rank(x)
    BY <1>3, <1>4, <2>1
  <2>3. Rank(x) \in Nat /\ Rank(p) \in Nat
    BY <1>1
  <2> HIDE DEF S
  <2> QED BY <1>5, <2>2, <2>3
<1> QED BY <1>4, <1>5 DEF Turn

(* When all are in cooldown, one of them comes out of it first.               *)
LEMMA EarliestOK ==
  ASSUME ProxyTypes, \A q \in Proxies : ~Available(q)
  PROVE  Earliest \in Proxies
<1> DEFINE S == {coolUntil[p] : p \in Proxies}
<1>0. NumProxies \in Nat \ {0} /\ Proxies \subseteq Nat /\ Proxies # {}
  <2>1. NumProxies \in Nat \ {0}
    BY ProxyAssumption
  <2>2. 0 \in Proxies
    BY <2>1 DEF Proxies
  <2>3. Proxies # {}
    BY <2>2
  <2> QED BY <2>1, <2>3 DEF Proxies
<1>1. \A p \in Proxies : coolUntil[p] \in Nat
  BY DEF Available, ProxyTypes
<1>2. S \subseteq Nat /\ S # {}
  BY <1>0, <1>1
<1> HIDE DEF S
<1>3. PICK m \in S : \A y \in S : m <= y
  BY <1>2, LeastOf
<1> USE DEF S
<1> DEFINE T == {p \in Proxies : coolUntil[p] = m}
<1>4. T \subseteq Nat /\ T # {}
  BY <1>0, <1>3
<1> HIDE DEF T
<1>5. PICK p \in T : \A y \in T : p <= y
  BY <1>4, LeastOf
<1> USE DEF T
<1>6. ASSUME NEW q \in Proxies
      PROVE  coolUntil[p] < coolUntil[q] \/ (coolUntil[p] = coolUntil[q] /\ p <= q)
  <2>1. coolUntil[q] \in S /\ coolUntil[p] = m /\ m \in Nat /\ coolUntil[q] \in Nat
    BY <1>1, <1>2, <1>5
  <2>2. m <= coolUntil[q]
    BY <1>3, <2>1
  <2>3. coolUntil[q] = m => p <= q
    BY <1>5
  <2> HIDE DEF S, T
  <2> QED BY <2>1, <2>2, <2>3
<1>7. \E x \in Proxies : \A q \in Proxies :
         coolUntil[x] < coolUntil[q] \/ (coolUntil[x] = coolUntil[q] /\ x <= q)
  BY <1>5, <1>6
<1> QED BY <1>7 DEF Earliest

LEMMA BackoffRests ==
  ASSUME NEW fails \in 1..MaxFails
  PROVE  /\ BackoffSecs(fails) \in Int
         /\ IF fails + 4 < Width THEN BackoffSecs(fails) \in 2 * Base..Cap ELSE BackoffSecs(fails) <= 0
<1>1. /\ Base \in Nat /\ Cap \in Nat /\ 2 * Base <= Cap
      /\ Shifted(fails) \in Int
      /\ IF fails + 4 < Width THEN Shifted(fails) >= 2 * Base ELSE Shifted(fails) <= 0
  BY ProxyAssumption
<1> QED BY <1>1 DEF BackoffSecs

-----------------------------------------------------------------------------
LEMMA ProxyInitInv == LoadProxies => ProxyInv
<1> SUFFICES ASSUME LoadProxies PROVE ProxyInv
  OBVIOUS
<1>1. NumProxies \in Nat \ {0} /\ MaxFails \in Nat /\ MaxCalls \in Nat /\ 0 \in Proxies
  BY ProxyAssumption DEF Proxies
<1>2. ProxyTypes
  BY <1>1 DEF LoadProxies, ProxyTypes
<1>3. TurnsOK
  <2> SUFFICES ASSUME NEW p \in Proxies PROVE waits[p] + Rank(p) <= NumProxies - 1
    BY DEF TurnsOK
  <2>1. waits[p] = 0 /\ Rank(p) = Dist(p, proxyIndex) /\ proxyIndex \in Proxies
    BY <1>1 DEF LoadProxies, Rank, Dist
  <2>2. Rank(p) \in 0..(NumProxies - 1)
    BY <2>1, RankBound
  <2> QED BY <1>1, <2>1, <2>2
<1>4. CooldownsOK
  BY DEF LoadProxies, CooldownsOK
<1> QED BY <1>2, <1>3, <1>4 DEF ProxyInv

LEMMA GetNextProxyStep ==
  ASSUME ProxyInv, NEW u \in Users, GetNextProxy(u)
  PROVE  ProxyInv'
<1> DEFINE free == {p \in Proxies : Available(p) /\ Turn(p)}
<1>0. NumProxies \in Nat \ {0} /\ MaxCalls \in Nat
  BY ProxyAssumption
<1>1. ProxyTypes /\ TurnsOK /\ CooldownsOK
  BY DEF ProxyInv
<1>2. PICK p : p = IF free = {} THEN Earliest ELSE CHOOSE q \in free : TRUE
  OBVIOUS
<1>3. /\ inUse' = [inUse EXCEPT ![u] = p]
      /\ proxyIndex' = IF free = {} THEN proxyIndex ELSE After(p)
      /\ waits' = [q \in Proxies |-> IF q # p /\ Available(q) THEN waits[q] + 1 ELSE 0]
      /\ calls < MaxCalls /\ calls' = calls + 1
      /\ failCount' = failCount /\ coolUntil' = coolUntil /\ now' = now /\ failedAt' = failedAt
  BY <1>2 DEF GetNextProxy, After
<1>4. free = {} => \A q \in Proxies : ~Available(q)
  BY <1>1, FirstAvailable
<1>5. p \in Proxies
  <2>1. CASE free = {}
    BY <1>1, <1>2, <1>4, <2>1, EarliestOK
  <2>2. CASE free # {}
    <3>1. p \in free
      BY <1>2, <2>2
    <3> QED BY <3>1
  <2> QED BY <2>1, <2>2
<1>6. free # {} => Turn(p)
  BY <1>2
<1> HIDE DEF free
<1>7. proxyIndex \in Proxies /\ proxyIndex' \in Proxies
  <2>1. After(p) \in Proxies
    BY <1>0, <1>5, AfterOf DEF Proxies
  <2> QED BY <1>1, <1>3, <2>1 DEF ProxyTypes
<1>8. ProxyTypes'
  <2>1. waits' \in [Proxies -> Nat]
    BY <1>1, <1>3 DEF ProxyTypes
  <2>2. inUse' \in [Users -> Proxies \union {-1}]
    BY <1>1, <1>3, <1>5 DEF ProxyTypes
  <2>3. calls' \in 0..MaxCalls
    BY <1>0, <1>1, <1>3 DEF ProxyTypes
  <2> QED BY <1>1, <1>3, <1>7, <2>1, <2>2, <2>3 DEF ProxyTypes
<1>9. TurnsOK'
  <2> SUFFICES ASSUME NEW q \in Proxies PROVE waits'[q] + Dist(q, proxyIndex') <= NumProxies - 1
    BY DEF TurnsOK, Rank, Dist
  <2>1. Dist(q, proxyIndex') \in 0..(NumProxies - 1)
    BY <1>7, RankBound
  <2>2. CASE q = p \/ ~Available(q)
    <3>1. waits'[q] = 0
      BY <1>3, <2>2
    <3> QED BY <1>0, <2>1, <3>1
  <2>3. CASE q # p /\ Available(q)
    <3>1. free # {} /\ proxyIndex' = After(p) /\ Turn(p)
      BY <1>3, <1>4, <1>6, <2>3
    <3>2. waits'[q] = waits[q] + 1 /\ waits[q] \in Nat
      BY <1>1, <1>3, <2>3 DEF ProxyTypes
    <3>3. waits[q] + Dist(q, proxyIndex) <= NumProxies - 1
      BY <1>1 DEF TurnsOK, Rank, Dist
    <3>4. ~(Dist(q, proxyIndex) < Dist(p, proxyIndex))
      BY <2>3, <3>1 DEF Turn, Rank, Dist
    <3>5. /\ Dist(q, proxyIndex) \in 0..(NumProxies - 1)
          /\ Dist(p, proxyIndex) \in 0..(NumProxies - 1)
      BY <1>5, <1>7, RankBound
    <3>6. Dist(q, proxyIndex) # Dist(p, proxyIndex)
      BY <1>5, <1>7, <2>3, SameRank
    <3>7. Dist(p, proxyIndex) < Dist(q, proxyIndex)
      BY <1>0, <3>4, <3>5, <3>6
    <3>8. Dist(q, After(p)) = Dist(q, proxyIndex) - Dist(p, proxyIndex) - 1
      BY <1>5, <1>7, <3>7, TurnPasses DEF Nearer
    <3> QED BY <1>0, <3>1, <3>2, <3>3, <3>5, <3>8
  <2> QED BY <2>2, <2>3
<1>10. CooldownsOK'
  BY <1>1, <1>3 DEF CooldownsOK
<1> QED BY <1>8, <1>9, <1>10 DEF ProxyInv

(* The rotation stands still.                                                *)
LEMMA SameTurns ==
  ASSUME TurnsOK, proxyIndex' = proxyIndex, waits' = waits
  PROVE  TurnsOK'
BY DEF TurnsOK, Rank

LEMMA ReportBlockedStep ==
  ASSUME ProxyInv, NEW u \in Users, ReportBlocked(u)
  PROVE  ProxyInv'
<1> DEFINE p == inUse[u]
           f == failCount[p] + 1
           d == BackoffSecs(f)
<1>0. MaxFails \in Nat
  BY ProxyAssumption
<1>1. ProxyTypes /\ TurnsOK /\ CooldownsOK
  BY DEF ProxyInv
<1>2. /\ p # -1 /\ failCount[p] < MaxFails
      /\ failCount' = [failCount EXCEPT ![p] = failCount[p] + 1]
      /\ coolUntil' = [coolUntil EXCEPT ![p] = now + d]
      /\ failedAt' = [failedAt EXCEPT ![p] = now] /\ inUse' = [inUse EXCEPT ![u] = -1]
      /\ proxyIndex' = proxyIndex /\ now' = now /\ calls' = calls /\ waits' = waits
  BY DEF ReportBlocked
<1>3. p \in Proxies /\ failCount[p] \in 0..MaxFails /\ now \in Nat
  BY <1>1, <1>2 DEF ProxyTypes
<1>4. f \in 1..MaxFails
  BY <1>0, <1>2, <1>3
<1>5. d \in Int
  BY <1>4, BackoffRests
<1>6. failCount' = [failCount EXCEPT ![p] = f]
  BY <1>2
<1> HIDE DEF p, f, d
<1>7. ProxyTypes'
  <2>1. failCount' \in [Proxies -> 0..MaxFails]
    <3>1. f \in 0..MaxFails /\ failCount \in [Proxies -> 0..MaxFails]
      BY <1>0, <1>1, <1>4 DEF ProxyTypes
    <3> QED BY <1>6, <3>1
  <2>2. now + d \in Int
    BY <1>3, <1>5
  <2>3. coolUntil' \in [Proxies -> Int] /\ failedAt' \in [Proxies -> Nat]
    BY <1>1, <1>2, <1>3, <2>2 DEF ProxyTypes
  <2>4. inUse' \in [Users -> Proxies \union {-1}]
    BY <1>1, <1>2 DEF ProxyTypes
  <2> QED BY <1>1, <1>2, <2>1, <2>3, <2>4 DEF ProxyTypes
<1>8. TurnsOK'
  BY <1>1, <1>2, SameTurns
<1>9. CooldownsOK'
  <2> SUFFICES ASSUME NEW q \in Proxies, failCount'[q] > 0
               PROVE  coolUntil'[q] - failedAt'[q] = BackoffSecs(failCount'[q])
    BY DEF CooldownsOK
  <2>1. CASE q = p
    <3>1. failCount'[q] = f /\ coolUntil'[q] = now + d /\ failedAt'[q] = now
      BY <1>1, <1>2, <1>3, <1>6, <2>1 DEF ProxyTypes
    <3>2. (now + d) - now = d
      BY <1>3, <1>5
    <3> QED BY <3>1, <3>2 DEF d
  <2>2. CASE q # p
    <3>1. failCount'[q] = failCount[q] /\ coolUntil'[q] = coolUntil[q] /\ failedAt'[q] = failedAt[q]
      BY <1>1, <1>2, <1>6, <2>2 DEF ProxyTypes
    <3> QED BY <1>1, <3>1 DEF CooldownsOK
  <2> QED BY <2>1, <2>2
<1> QED BY <1>7, <1>8, <1>9 DEF ProxyInv

LEMMA ReportWorkingStep ==
  ASSUME ProxyInv, NEW u \in Users, ReportWorking(u)
  PROVE  ProxyInv'
<1> DEFINE p == inUse[u]
<1>0. MaxFails \in Nat
  BY ProxyAssumption
<1>1. ProxyTypes /\ TurnsOK /\ CooldownsOK
  BY DEF ProxyInv
<1>2. /\ p # -1
      /\ failCount' = [failCount EXCEPT ![p] = 0]
      /\ coolUntil' = [coolUntil EXCEPT ![p] = 0] /\ inUse' = [inUse EXCEPT ![u] = -1]
      /\ proxyIndex' = proxyIndex /\ now' = now /\ calls' = calls /\ waits' = waits
      /\ failedAt' = failedAt
  BY DEF ReportWorking
<1>3. p \in Proxies
  BY <1>1, <1>2 DEF ProxyTypes
<1> HIDE DEF p
<1>4. ProxyTypes'
  <2>1. failCount' \in [Proxies -> 0..MaxFails]
    <3> DEFINE z == 0
    <3>1. z \in 0..MaxFails /\ failCount \in [Proxies -> 0..MaxFails]
      BY <1>0, <1>1 DEF ProxyTypes
    <3>2. failCount' = [failCount EXCEPT ![p] = z]
      BY <1>2
    <3> HIDE DEF z
    <3> QED BY <3>1, <3>2
  <2>2. coolUntil' \in [Proxies -> Int]
    <3> DEFINE z == 0
    <3>1. z \in Int /\ coolUntil \in [Proxies -> Int]
      BY <1>1 DEF ProxyTypes
    <3>2. coolUntil' = [coolUntil EXCEPT ![p] = z]
      BY <1>2
    <3> HIDE DEF z
    <3> QED BY <3>1, <3>2
  <2>3. inUse' \in [Users -> Proxies \union {-1}]
    BY <1>1, <1>2 DEF ProxyTypes
  <2> QED BY <1>1, <1>2, <2>1, <2>2, <2>3 DEF ProxyTypes
<1>5. TurnsOK'
  BY <1>1, <1>2, SameTurns
<1>6. CooldownsOK'
  <2> SUFFICES ASSUME NEW q \in Proxies, failCount'[q] > 0
               PROVE  coolUntil'[q] - failedAt'[q] = BackoffSecs(failCount'[q])
    BY DEF CooldownsOK
  <2>1. q # p
    BY <1>1, <1>2, <1>3 DEF ProxyTypes
  <2>2. failCount'[q] = failCount[q] /\ coolUntil'[q] = coolUntil[q]
    BY <1>1, <1>2, <2>1 DEF ProxyTypes
  <2> QED BY <1>1, <1>2, <2>2 DEF CooldownsOK
<1> QED BY <1>4, <1>5, <1>6 DEF ProxyInv

LEMMA TickStep ==
  ASSUME ProxyInv, Tick
  PROVE  ProxyInv'
<1> DEFINE S == {coolUntil[p] : p \in {q \in Proxies : coolUntil[q] >= now}}
<1>1. ProxyTypes /\ TurnsOK /\ CooldownsOK
  BY DEF ProxyInv
<1>2. /\ S # {} /\ now' = Min(S) + 1
      /\ proxyIndex' = proxyIndex /\ failCount' = failCount /\ coolUntil' = coolUntil
      /\ inUse' = inUse /\ calls' = calls /\ waits' = waits /\ failedAt' = failedAt
  BY DEF Tick
<1>3. S \subseteq Nat
  BY <1>1 DEF ProxyTypes
<1> HIDE DEF S
<1>4. Min(S) \in Nat
  <2>1. \E x \in S : \A y \in S : x <= y
    BY <1>2, <1>3, LeastOf
  <2> QED BY <1>3, <2>1 DEF Min
<1>5. ProxyTypes'
  BY <1>1, <1>2, <1>4 DEF ProxyTypes
<1>6. TurnsOK' /\ CooldownsOK'
  BY <1>1, <1>2, SameTurns DEF CooldownsOK
<1> QED BY <1>5, <1>6 DEF ProxyInv

LEMMA ProxyInvStep == ProxyInv /\ [ProxyNext]_proxyVars => ProxyInv'
<1> SUFFICES ASSUME ProxyInv, [ProxyNext]_proxyVars PROVE ProxyInv'
  OBVIOUS
<1>1. CASE UNCHANGED proxyVars
  BY <1>1 DEF proxyVars, ProxyInv, ProxyTypes, TurnsOK, Rank, CooldownsOK
<1>2. ASSUME NEW u \in Users, GetNextProxy(u) \/ ReportBlocked(u) \/ ReportWorking(u) PROVE ProxyInv'
  BY <1>2, GetNextProxyStep, ReportBlockedStep, ReportWorkingStep
<1>3. CASE Tick
  BY <1>3, TickStep
<1> QED BY <1>1, <1>2, <1>3 DEF ProxyNext

LEMMA ProxyInvImpliesRotate == ProxyInv => ProxiesRotate
<1> SUFFICES ASSUME ProxyInv PROVE ProxiesRotate
  OBVIOUS
<1>1. ProxyTypes /\ TurnsOK /\ CooldownsOK
  BY DEF ProxyInv
<1>2. ProxyTypeOK
  BY <1>1 DEF ProxyTypes, ProxyTypeOK
<1>3. ProxyFairTurn
  <2> SUFFICES ASSUME NEW p \in Proxies PROVE waits[p] < NumProxies
    BY DEF ProxyFairTurn
  <2>1. waits[p] + Rank(p) <= NumProxies - 1 /\ waits[p] \in Nat
    BY <1>1 DEF TurnsOK, ProxyTypes
  <2>2. Rank(p) \in 0..(NumProxies - 1) /\ NumProxies \in Nat
    BY <1>1, RankBound, ProxyAssumption DEF Rank, Dist, ProxyTypes
  <2> QED BY <2>1, <2>2
<1>4. ProxyRests
  <2> SUFFICES ASSUME NEW p \in Proxies, failCount[p] > 0
               PROVE  LET rest == coolUntil[p] - failedAt[p] IN
                      IF failCount[p] + 4 < Width THEN rest \in 2 * Base..Cap ELSE rest <= 0
    BY DEF ProxyRests
  <2>1. failCount[p] \in 1..MaxFails
    BY <1>1, ProxyAssumption DEF ProxyTypes
  <2>2. coolUntil[p] - failedAt[p] = BackoffSecs(failCount[p])
    BY <1>1 DEF CooldownsOK
  <2> QED BY <2>1, <2>2, BackoffRests
<1> QED BY <1>2, <1>3, <1>4 DEF ProxiesRotate

-----------------------------------------------------------------------------
(* A proxy waits for its turn no longer than the index has come nearer to it, *)
(* and a cooldown is the delay of the last failure, in whatever order the     *)
(* users of the proxies report (GetNextProxy, ReportProxyStatus).             *)
THEOREM ProxyInvariant == ProxySafety => []ProxyInv
BY ProxyInitInv, ProxyInvStep, PTL DEF ProxySafety

(* The rotation's invariant of the run (ProxiesRotate), for any number of     *)
(* proxies, requests in flight, failures and calls.                           *)
THEOREM ProxiesDoRotate == ProxySafety => []ProxiesRotate
BY ProxyInvariant, ProxyInvImpliesRotate, PTL
=============================================================================

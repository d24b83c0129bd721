------------------------------ MODULE HttpFraming ------------------------------
(* parseRawResponse of pkg/httpclient/client.go byte by byte: where a read    *)
(* may be cut, how the end of the headers and of the body are found, how the  *)
(* chunks are put together and the content codings undone, and whether the    *)
(* connection is said to have nothing left of this answer.  HttpClient.tla    *)
(* models the pool around it.                                                 *)
EXTENDS Integers, Sequences, FiniteSets, SequencesExt

CONSTANTS
    Answers,      \* what servers may send
    MaxBodySize,  \* bound on the bytes read
    KnownCodings  \* codings that can be undone: gzip, deflate, br and their aliases

(* An answer has the header fields that frame it (http10, status, head: it    *)
(* answers a HEAD request, te and lengths, the lists of Transfer-Encoding and *)
(* Content-Length values, -1 for one that is no number), the declared content *)
(* codings and those really applied, its bytes (header, body), the content    *)
(* the server means, bytes that come after the answer and belong to none      *)
(* (surplus), and whether the server closes after it.  The bytes "r" and "n"  *)
(* end a line, "0", "1", "2" are digits, others are text.                     *)
VARIABLES answer, got, headerEnd, sepLen, framing, state, bodyComplete, response

framingVars == <<answer, got, headerEnd, sepLen, framing, state, bodyComplete, response>>

Wire == answer.header \o answer.body \o answer.surplus
Buf(n) == SubSeq(Wire, 1, n)

(* body[from:to] of what is there, and bytes.Index: the first place of t in   *)
(* s, or 0.                                                                   *)
Slice(s, from, to) == SubSeq(s, from, IF to < Len(s) THEN to ELSE Len(s))
Index(s, t) ==
    LET at == {i \in 1..(Len(s) - Len(t) + 1) : SubSeq(s, i, i + Len(t) - 1) = t}
    IN IF at = {} THEN 0 ELSE CHOOSE i \in at : \A j \in at : i <= j
ContainsBytes(s, t) == Index(s, t) # 0
CRLF == <<"r", "n">>
LF == <<"n">>

(* The blank line is searched in what is new and the four bytes before it.    *)
SearchStart(prev) == IF prev > 4 THEN prev - 4 ELSE 0
FindHeaderEnd(n, prev) ==
    LET from == SearchStart(prev)
        window == SubSeq(Wire, from + 1, n)
        crlf == Index(window, CRLF \o CRLF)
        lf == Index(window, LF \o LF)
    IN IF crlf # 0 THEN [at |-> from + crlf - 1, sep |-> 4]
       ELSE IF lf # 0 THEN [at |-> from + lf - 1, sep |-> 2]
       ELSE [at |-> -1, sep |-> 4]

(* transferEncodingChunkedFinal: chunked at most once, and then last.         *)
transferEncodingChunkedFinal(te) ==
    IF \E i \in DOMAIN te : te[i] = "" \/ (te[i] = "chunked" /\ i # Len(te)) THEN "error"
    ELSE IF Last(te) = "chunked" THEN "chunked" ELSE "close"
parseConsistentContentLength(values) ==
    IF values[1] >= 0 /\ \A i \in DOMAIN values : values[i] = values[1] THEN values[1] ELSE -1

(* How the answer is framed: "chunked", "length", "close", "none" when it has *)
(* no body, or "error".                                                       *)
responseHasNoBody == answer.head \/ answer.status \in 100..199 \cup {204, 304}
Framing ==
    IF answer.te # <<>> /\ answer.lengths # <<>> THEN "error"
    ELSE IF answer.te # <<>> THEN transferEncodingChunkedFinal(answer.te)
    ELSE IF answer.lengths # <<>>
         THEN IF parseConsistentContentLength(answer.lengths) = -1 THEN "error" ELSE "length"
    ELSE "close"

(* hasCompleteChunkedBody: a last chunk at the start of the body or after any *)
(* line end, and an empty line after it, with either kind of line end.        *)
hasCompleteChunkedBodyWithEOL(body, eol) ==
    LET zero == <<"0">> \o eol
        starts == (IF IsPrefix(zero, body) THEN {1} ELSE {}) \cup
                  {i + Len(eol) : i \in {i \in 1..Len(body) :
                        Slice(body, i, i + Len(eol) + Len(zero) - 1) = eol \o zero}}
    IN \E i \in starts :
          LET rest == SubSeq(body, i + Len(zero), Len(body))
          IN IsPrefix(eol, rest) \/ ContainsBytes(rest, eol \o eol)
CrlfOnly(body) == hasCompleteChunkedBodyWithEOL(body, CRLF)
hasCompleteChunkedBody(body) ==
    hasCompleteChunkedBodyWithEOL(body, CRLF) \/ hasCompleteChunkedBodyWithEOL(body, LF)

(* dechunkBody: size lines and data until the last chunk; what cannot be read *)
(* on ends it, and a body that starts with no chunk is left as it is.         *)
IsHex(line) == Len(line) > 0 /\ \A i \in DOMAIN line : line[i] \in {"0", "1", "2"}
Size(line) == IF line = <<"1">> THEN 1 ELSE IF line = <<"2">> THEN 2
              ELSE IF \A i \in DOMAIN line : line[i] = "0" THEN 0 ELSE 16
NextLine(body, from) ==
    LET n == Index(SubSeq(body, from, Len(body)), LF)
        line == SubSeq(body, from, from + n - 2)
    IN [found |-> n # 0, next |-> from + n,
        text |-> IF n > 1 /\ Last(line) = "r" THEN Front(line) ELSE line]
Chunks(body) ==
    LET f[from \in 1..(Len(body) + 1)] ==
            LET line == NextLine(body, from)
                after == Slice(body, line.next, line.next + Size(line.text) - 1)
                end == NextLine(body, line.next + Size(line.text))
            IN IF ~line.found THEN [data |-> <<>>, last |-> FALSE]
               ELSE IF line.text = <<>> THEN f[line.next]
               ELSE IF ~IsHex(line.text) THEN [data |-> <<>>, last |-> FALSE]
               ELSE IF Size(line.text) = 0 THEN [data |-> <<>>, last |-> TRUE]
               ELSE IF ~end.found THEN [data |-> after, last |-> FALSE]
               ELSE [data |-> after \o f[end.next].data, last |-> f[end.next].last]
    IN f[1]
dechunkBody(body) ==
    LET all == Chunks(body) IN IF all.last \/ all.data # <<>> THEN all.data ELSE body

(* Content-Encoding names the codings in the order they were applied; they    *)
(* are undone from the last, up to one that fails or is not known.            *)
Decode(declared, applied) ==
    LET undo(r, c) ==
            IF r.encoded \/ c = "identity" THEN r
            ELSE IF c \in KnownCodings /\ r.left # <<>> /\ Last(r.left) = c
                 THEN [left |-> Front(r.left), encoded |-> FALSE]
            ELSE [left |-> r.left, encoded |-> TRUE]
    IN FoldLeft(undo, [left |-> applied, encoded |-> FALSE], Reverse(declared))

FramingInit ==
    /\ answer \in Answers /\ got = 0 /\ headerEnd = -1 /\ sepLen = 4
    /\ framing = "unknown" /\ state = "reading" /\ bodyComplete = FALSE
    /\ response = [body |-> <<>>, left |-> <<>>, encoded |-> FALSE]

-----------------------------------------------------------------------------
BodyIn(n, at, sep) == SubSeq(Wire, at + sep + 1, n)
HasAll(n, at, sep, fr) ==
    \/ responseHasNoBody
    \/ fr = "chunked" /\ hasCompleteChunkedBody(BodyIn(n, at, sep))
    \/ fr = "length" /\ n - (at + sep) >= parseConsistentContentLength(answer.lengths)

(* After the loop: what is complete, and what the caller gets.                *)
Complete(n, at, sep, fr) ==
    IF responseHasNoBody THEN n = at + sep ELSE HasAll(n, at, sep, fr)
Cut(body) == IF Len(body) > MaxBodySize THEN SubSeq(body, 1, MaxBodySize) ELSE body
Finish(n, at, sep, fr, err) ==
    LET whole == IF at = -1 THEN Buf(n) ELSE IF responseHasNoBody THEN <<>> ELSE BodyIn(n, at, sep)
        body == IF fr = "chunked" THEN dechunkBody(Cut(whole)) ELSE Cut(whole)
        decoded == Decode(answer.declared, answer.applied)
        http10EOF == answer.http10 /\ fr = "close" /\ err = "eof" /\ at # -1
    IN /\ state' = "done"
       /\ bodyComplete' = ( /\ at # -1 /\ Len(whole) <= MaxBodySize
                            /\ IF err = "none" THEN Complete(n, at, sep, fr) ELSE http10EOF)
       /\ response' = [body |-> body,
                       left |-> IF body = answer.content THEN decoded.left ELSE answer.applied,
                       encoded |-> decoded.encoded]

(* One turn of the loop after conn.Read has returned k bytes, the last ones   *)
(* perhaps with the EOF.                                                      *)
Read(k, err) ==
    LET n == got + k
        end == IF headerEnd # -1 THEN [at |-> headerEnd, sep |-> sepLen] ELSE FindHeaderEnd(n, got)
        fr == IF end.at = -1 THEN "unknown" ELSE Framing
    IN
    /\ state = "reading" /\ n <= Len(Wire)
    /\ err = "eof" => answer.closes /\ n = Len(Wire)
    /\ got' = n /\ headerEnd' = end.at /\ sepLen' = end.sep /\ framing' = fr
    /\ IF fr = "error" THEN state' = "failed" /\ UNCHANGED <<bodyComplete, response>>
       ELSE IF (end.at # -1 /\ HasAll(n, end.at, end.sep, fr)) \/ err # "none" \/ n > MaxBodySize
            THEN Finish(n, end.at, end.sep, fr, err)
            ELSE UNCHANGED <<state, bodyComplete, response>>
    /\ UNCHANGED answer

(* The connection ends or the deadline passes: an EOF once the server that    *)
(* closes has sent everything, or when the connection breaks before that.     *)
ReadFails(err) ==
    /\ state = "reading"
    /\ err = "eof" => answer.closes \/ got < Len(Wire)
    /\ IF got = 0 THEN state' = "failed" /\ UNCHANGED <<bodyComplete, response>>
       ELSE Finish(got, headerEnd, sepLen, framing, err)
    /\ UNCHANGED <<answer, got, headerEnd, sepLen, framing>>

FramingNext ==
    \/ \E k \in 1..(Len(Wire) - got), err \in {"none", "eof"} : Read(k, err)
    \/ \E err \in {"eof", "timeout"} : ReadFails(err)

-----------------------------------------------------------------------------
FramingTypeOK ==
    /\ answer \in Answers /\ got \in 0..Len(Wire) /\ headerEnd \in -1..Len(Wire) /\ sepLen \in {2, 4}
    /\ framing \in {"unknown", "chunked", "length", "close", "error"}
    /\ state \in {"reading", "done", "failed"} /\ bodyComplete \in BOOLEAN
    /\ bodyComplete => state = "done"

(* The chunks of the answer do not bear what ends a chunked body.             *)
PlainChunks ==
    \A n \in 1..(Len(answer.body) - 1) : ~hasCompleteChunkedBody(SubSeq(answer.body, 1, n))

(* Where the answer itself ends on the connection.                            *)
End == Len(answer.header) + (IF responseHasNoBody THEN 0 ELSE Len(answer.body))

(* However the bytes are cut into reads, the end of the headers is seen as    *)
(* soon as it is there (the search looks back four bytes), and where it is.   *)
(* Only headers that end their lines with LF alone can be taken for longer:   *)
(* a read that also brings CRLF CRLF of the body puts their end there.        *)
HeaderEndsIn(n) == headerEnd + sepLen = n
HeaderFound ==
    IF got < Len(answer.header) THEN headerEnd = -1
    ELSE state # "failed" =>
            \/ HeaderEndsIn(Len(answer.header))
            \/ /\ ~IsSuffix(CRLF \o CRLF, answer.header)
               /\ \E n \in (Len(answer.header) + 1)..got :
                     HeaderEndsIn(n) /\ IsSuffix(CRLF \o CRLF, Buf(n))

(* An answer that is said to be complete was read to its end, and what the    *)
(* caller gets is the server's content; no broken or endless answer is        *)
(* complete.  Bytes after the answer do not undo that: those that came with   *)
(* its last read are kept in a body of given length, dropped after the last   *)
(* chunk, and make only an answer without body incomplete.  Of HTTP/1.0 only  *)
(* the end of the connection is a sign.  (Chunks that bear an end of body     *)
(* themselves: BodyIsConsumed.)                                               *)
CompleteIsWhole ==
    /\ bodyComplete
    /\ HeaderEndsIn(Len(answer.header))
    /\ framing = "chunked" => PlainChunks
    /\ ~(answer.http10 /\ framing = "close")
    =>
    /\ got >= End
    /\ responseHasNoBody => got = End
    /\ response.body = answer.content \o
          (IF framing = "length" THEN SubSeq(Wire, End + 1, got) ELSE <<>>)

(* The answer of a server that keeps to the rules is complete once every byte *)
(* of it was read: no read cut hides its end, and the connection is kept.     *)
WholeIsComplete ==
    /\ got >= End /\ state = "done" /\ answer.regular /\ got <= MaxBodySize
    /\ HeaderEndsIn(Len(answer.header))
    => bodyComplete

(* Two lengths, a chunked coding that is not the last, or both kinds of       *)
(* framing are refused as soon as the headers are read, and nothing else is.  *)
Ambiguous ==
    \/ answer.te # <<>> /\ answer.lengths # <<>>
    \/ \E i \in DOMAIN answer.te : answer.te[i] = "" \/ (answer.te[i] = "chunked" /\ i < Len(answer.te))
    \/ \E i, j \in DOMAIN answer.lengths : answer.lengths[i] # answer.lengths[j] \/ answer.lengths[i] < 0
FramingUnambiguous ==
    /\ state = "failed" => got = 0 \/ Ambiguous
    /\ state # "failed" /\ headerEnd # -1 => ~Ambiguous

(* A body that is not marked as encoded is the plain content: every coding    *)
(* that was applied and declared is undone, in the reverse order.             *)
DecodedIsPlain ==
    bodyComplete /\ ~response.encoded /\ response.body = answer.content
        /\ answer.declared = answer.applied
    => response.left = <<>>

(* The comment at client.go:1251: the reader determines whether it "actually  *)
(* consumed the entire body from the connection".                             *)
BodyIsConsumed ==
    bodyComplete /\ framing = "chunked" => got = Len(Wire)
=============================================================================

----------------------------- MODULE MCVerdicts ------------------------------
(* What is made of the answers and how it is shown, for TLC: the bytes of an  *)
(* answer, the filters, clusters and signatures, the retries of blocked       *)
(* requests, the search for hidden parameters, replays under several roles    *)
(* and the timing oracle; the result list, repeater, log panel and keys of    *)
(* the terminal screen.  They share no state; a behaviour moves one of them.  *)
EXTENDS Verdict, WafEvasion, Findings, TuiRepeater, TuiScreen, TuiLogs, TuiList, TLC

VARIABLES part
VARIABLES answer, got, headerEnd, sepLen, framing, state, bodyComplete, response

-----------------------------------------------------------------------------
(* Answers of servers: chunked ones, some with the look of an end inside,     *)
(* others with a length, with two, without body, or that end with the         *)
(* connection; codings, declared truly or not; bytes after the end; and       *)
(* headers with LF alone before a body with a blank line.                     *)
rn == <<"r", "n">>
n == <<"n">>
Base == [http10 |-> FALSE, status |-> 200, head |-> FALSE, te |-> <<>>, lengths |-> <<>>,
         declared |-> <<>>, applied |-> <<>>, header |-> <<"h">> \o rn \o rn, body |-> <<>>,
         content |-> <<>>, surplus |-> <<>>, closes |-> FALSE, regular |-> TRUE]
Chunked(eol, chunks, trailer) ==
    [Base EXCEPT !.te = <<"chunked">>, !.header = <<"h">> \o eol \o eol,
                 !.content = FlattenSeq(chunks),
                 !.body = FlattenSeq([i \in DOMAIN chunks |->
                                <<ToString(Len(chunks[i]))>> \o eol \o chunks[i] \o eol])
                          \o <<"0">> \o eol \o trailer \o eol]
ChunkedAnswers ==
    {Chunked(eol, chunks, <<>>) : eol \in {rn, n},
        chunks \in {<<>>, << <<"x">> >>, << <<"x", "y">>, <<"0">> >>, << <<"0", "x">> >>,
                    << <<"n", "n">> >>, << rn, <<"x">> >>, << <<"0">> >>,
                    << <<"0">>, rn, <<"x">> >>}}
    \cup {Chunked(rn, << <<"x", "y">> >>, <<"t">> \o rn)}
    \cup {[Chunked(rn, << <<"x">> >>, <<>>) EXCEPT !.te = te, !.regular = FALSE] :
            te \in {<<"chunked", "chunked">>, <<"chunked", "gzip">>, <<"gzip", "chunked">>,
                    <<"gzip">>, <<"">>}}
WithLength(body, lengths) == [Base EXCEPT !.lengths = lengths, !.body = body, !.content = body]
LengthAnswers ==
    {WithLength(body, <<Len(body)>>) :
        body \in {<<>>, <<"x">>, <<"x">> \o rn \o rn \o <<"y">>, [i \in 1..26 |-> "x"]}}
    \cup {WithLength(<<"x">>, lengths) : lengths \in {<<1, 1>>, <<1, 2>>, <<-1>>}}
    \cup {[WithLength(<<"x">>, <<1>>) EXCEPT !.te = <<"chunked">>]}
    \cup {[WithLength(<<"x">>, <<1>>) EXCEPT !.declared = declared, !.applied = applied] :
            declared \in {<<"gzip">>, <<"gzip", "br">>, <<"zstd">>, <<"identity", "gzip">>},
            applied \in {<<>>, <<"gzip">>, <<"gzip", "br">>, <<"zstd">>}}
OtherAnswers ==
    {[Base EXCEPT !.body = body, !.content = body, !.closes = TRUE, !.http10 = old, !.regular = FALSE] :
        body \in {<<>>, <<"x", "0", "n">>}, old \in BOOLEAN}
    \cup {[Base EXCEPT !.body = body, !.head = s = 200, !.status = s, !.lengths = <<5>>,
                       !.regular = body = <<>>] : body \in {<<>>, <<"x">>}, s \in {100, 200, 204, 304}}
SurplusAnswers ==
    {[a EXCEPT !.surplus = after, !.closes = closes, !.regular = ~closes] :
        a \in {WithLength(<<>>, <<0>>), WithLength(<<"x", "y">>, <<2>>),
               Chunked(rn, << <<"x">> >>, <<>>), Chunked(n, <<>>, <<>>),
               [Base EXCEPT !.status = 204]},
        after \in {<<"z">>, rn, <<"h">> \o rn \o rn}, closes \in BOOLEAN}
LfHeaderAnswers ==
    {[a EXCEPT !.header = <<"h">> \o n \o n] :
        a \in {WithLength(body, <<Len(body)>>) :
                   body \in {<<"x">>, <<"x">> \o rn \o rn \o <<"y">>, rn \o rn}}
              \cup {Chunked(rn, chunks, <<>>) : chunks \in {<<>>, << <<"x">> >>}}}

Answers == ChunkedAnswers \cup LengthAnswers \cup OtherAnswers
           \cup {a \in SurplusAnswers : a.status = 204 => ~a.regular}
           \cup LfHeaderAnswers
Frame == INSTANCE HttpFraming WITH
    MaxBodySize <- 24,
    KnownCodings <- {"gzip", "br", "deflate"}

-----------------------------------------------------------------------------
(* Five sites: one with soft 404 pages, one that mirrors itself, one with a   *)
(* crowd of like pages, one that redirects, and one with answers to HEAD, a   *)
(* slow page, one that stays encoded and one that is cut.                     *)
Page(status, body, size) ==
    [status |-> status, body |-> body, size |-> size, type |-> "html",
     head |-> FALSE, whole |-> TRUE, slow |-> FALSE]
HeadPage(status, size) == [Page(status, 0, size) EXCEPT !.head = TRUE]
MCSitePaths == {<<"a">>, <<"b">>, <<"a", "a">>, <<"a", "b">>, <<"a", "a", "b">>}
Site(a, b, aa, ab, aab, missing, wild) ==
    [resp |-> (<<"a">> :> a) @@ (<<"b">> :> b) @@ (<<"a", "a">> :> aa) @@ (<<"a", "b">> :> ab)
              @@ (<<"a", "a", "b">> :> aab),
     missing |-> missing, unknown |-> [p \in MCSitePaths |-> IF p \in DOMAIN wild THEN wild[p] ELSE 404]]
NotFound == <<Page(404, 1, 1), Page(404, 1, 1)>>
Soft == Site(Page(200, 50, 5), Page(200, 11, 2), Page(200, 10, 1), Page(200, 52, 5),
             Page(200, 53, 5), <<Page(200, 10, 1), Page(200, 12, 1)>>, <<>>)
Mirror == Site(Page(200, 30, 3), Page(500, 0, 0), Page(200, 30, 3), Page(200, 30, 3),
               Page(200, 40, 4), NotFound, <<"b">> :> 0)
Crowd == Site(Page(200, 30, 3), Page(200, 31, 3), Page(200, 32, 3), Page(200, 32, 3),
              [Page(403, 32, 3) EXCEPT !.type = "static"], NotFound, <<"b">> :> 200)
Redirects == Site(Page(200, 50, 5), Page(302, 0, 0), Page(302, 0, 0), Page(302, 0, 0),
                  Page(302, 0, 0), <<Page(302, 0, 0), Page(302, 0, 0)>>,
                  (<<"b">> :> 302) @@ (<<"a", "b">> :> 401))
Mixed == Site(HeadPage(200, 3), [Page(404, 10, 1) EXCEPT !.slow = TRUE], HeadPage(200, 3),
              [Page(200, 10, -1) EXCEPT !.whole = FALSE], [Page(200, 12, 2) EXCEPT !.whole = FALSE],
              <<Page(200, 10, 1), Page(200, 12, 1)>>, <<>>)

MCSites == {Soft, Mirror, Crowd, Redirects, Mixed}
-----------------------------------------------------------------------------
(* Two jobs for one blocked path.                                             *)
MCPathOf == [j \in {"j1", "j2"} |-> "/a"]
MCMarks == "/a" :> {"modsecurity", "nginx"}
MCReplies ==
    (<<"/a", "double-slash">> :> "error") @@ (<<"/a", "null-byte">> :> "other")
    @@ (<<"/a", "chunked-encoding">> :> "granted") @@ (<<"/a", "t1">> :> "copy")
    @@ (<<"/a", "t2">> :> "granted") @@ (<<"/a", "t3">> :> "granted")
MCTechniques == <<"t1", "t2", "t3">>

-----------------------------------------------------------------------------
ParamPage(known, missing, picky, catchAll) ==
    [known |-> known, missing |-> missing, picky |-> picky, catchAll |-> catchAll]
MCParamPages ==
    {ParamPage(known, missing, {}, all) :
        known \in {{}, {"a"}, {"c", "d"}, {"e"}, {"b", "g"}, {"z"}},
        missing \in {{}, {"b"}}, all \in BOOLEAN}
    \cup {ParamPage({"d", "e"}, {}, {"d"}, FALSE),
          ParamPage({"a", "b", "c", "d", "e", "f", "g"}, {}, {}, FALSE)}
MCNames == {"a", "b", "c", "d", "e", "f", "g", "y", "z"}
MCControls == {"y", "z"}
MCWordlists == {{}, MCNames \ MCControls, MCNames \ {"y"}}
MCHintSets == {{}, MCControls}
MCUniqueStrings ==
    [S \in SUBSET MCNames |->
        SelectSeq(<<"a", "b", "c", "d", "e", "f", "g", "y", "z">>, LAMBDA name : name \in S)]
MCHalvings == <<0, 1, 2, 2, 3>>

-----------------------------------------------------------------------------
(* Three roles and two of the same level, and too few of them.                *)
Role(name, level) == [name |-> name, level |-> level]
Served(status, body) == [status |-> status, body |-> body]
Replay(admin, guest, user, boss) ==
    [admin |-> admin, page |-> ("guest" :> guest) @@ ("user" :> user) @@ ("member" :> user)
                               @@ ("boss" :> boss)]
MCMatrices ==
    {{Role("guest", 0), Role("user", 1), Role("member", 1), Role("boss", 2)},
     {Role("guest", 0), Role("boss", 2)}, {Role("user", 1), Role("boss", 2)}, {Role("user", 1)}}
MCReplays ==
    {Replay(admin, Served(401, "no"), user, boss) : admin \in BOOLEAN,
        user \in {Served(403, "no"), Served(200, "a")},
        boss \in {Served(200, "a"), Served(200, "b"), Served(403, "no")}}

-----------------------------------------------------------------------------
(* Calibrations of few samples, two with an outlier.                          *)
MCBaselines == {<<1, 1, 1, 1>>, <<2, 1, 20, 1, 2>>, <<1, 4, 2>>, <<4, 20, 20, 4>>}

-----------------------------------------------------------------------------
frameVars == <<answer, got, headerEnd, sepLen, framing, state, bodyComplete, response>>
answerVars == <<frameVars, verdictVars, evasionVars, discoveryVars>>
moreVars == <<authVars, timingVars>>
tuiVars == <<listVars, repeaterVars, logVars, screenVars>>

(* The parts that do not move start in one of their initial states.           *)
Init ==
    /\ part \in {"frame", "judge", "evade", "discover", "auth", "timing",
                "list", "repeater", "log", "screen"}
    /\ Frame!FramingInit /\ (part = "frame" \/ answer = WithLength(<<>>, <<0>>))
    /\ VerdictInit /\ (part = "judge" \/ (site = Soft /\ older = <<>> /\ filterSizes = {}))
    /\ older = <<>> \/ site \in {Mirror, Redirects} \/ (older = <<Mixed, Mixed>> /\ raw)   \* bound
    /\ EvasionInit
    /\ DiscoveryInit
    /\ part = "discover" \/ ( /\ page = ParamPage({}, {}, {}, FALSE) /\ method = "GET"
                              /\ wordlist = {} /\ hints = {})
    /\ AuthInit
    /\ part = "auth" \/ ( /\ roles = <<Role("user", 1)>>
                          /\ path = Replay(TRUE, Served(401, "no"), Served(403, "no"), Served(403, "no")))
    /\ ListInit /\ (part = "list" \/ appendMode)
    /\ RepeaterInit /\ LogsInit /\ ScreenInit
    /\ TimingInit /\ (part = "timing" \/ (trim /\ repeatN = 1))

Next ==
    \/ part = "frame" /\ Frame!FramingNext
       /\ UNCHANGED <<part, verdictVars, evasionVars, discoveryVars, moreVars, tuiVars>>
    \/ part = "judge" /\ VerdictNext
       /\ UNCHANGED <<part, frameVars, evasionVars, discoveryVars, moreVars, tuiVars>>
    \/ part = "evade" /\ EvasionNext
       /\ UNCHANGED <<part, frameVars, verdictVars, discoveryVars, moreVars, tuiVars>>
    \/ part = "discover" /\ ProbeHiddenParams
       /\ UNCHANGED <<part, frameVars, verdictVars, evasionVars, moreVars, tuiVars>>
    \/ part = "auth" /\ AuthNext
       /\ UNCHANGED <<part, answerVars, timingVars, tuiVars>>
    \/ part = "timing" /\ TimingNext
       /\ UNCHANGED <<part, answerVars, authVars, tuiVars>>
    \/ part = "list" /\ ListNext
       /\ UNCHANGED <<part, answerVars, moreVars, repeaterVars, logVars, screenVars>>
    \/ part = "repeater" /\ RepeaterNext
       /\ UNCHANGED <<part, answerVars, moreVars, listVars, logVars, screenVars>>
    \/ part = "log" /\ LogsNext
       /\ UNCHANGED <<part, answerVars, moreVars, listVars, repeaterVars, screenVars>>
    \/ part = "screen" /\ ScreenNext
       /\ UNCHANGED <<part, answerVars, moreVars, listVars, repeaterVars, logVars>>

vars == <<part, answerVars, moreVars, tuiVars>>
Spec == Init /\ [][Next]_vars

-----------------------------------------------------------------------------
(* However its bytes are cut, an answer that counts as complete is the        *)
(* server's content and was read to its end, a regular one is complete, and   *)
(* ambiguous framing and unknown codings are not taken for plain content.     *)
FramingSound ==
    part = "frame" => /\ Frame!FramingTypeOK /\ Frame!HeaderFound /\ Frame!CompleteIsWhole
                      /\ Frame!WholeIsComplete /\ Frame!FramingUnambiguous
                      /\ Frame!DecodedIsPlain
=============================================================================

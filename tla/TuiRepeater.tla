---------------------------- MODULE TuiRepeater ----------------------------
(* The repeater of the terminal screen (pkg/tui): tabs with a request, its    *)
(* last answer and a history to walk through; one copy of the active tab in   *)
(* the input fields; requests that run in goroutines of their own and answer  *)
(* by message whenever they end, cancelled or not, their tab open or not; and *)
(* the side file the tabs are saved to and read from after a restart.         *)
EXTENDS Integers, Sequences, FiniteSets, Functions, SequencesExt

CONSTANTS Requests,     \* texts a request can have
          Found,        \* those the findings of the list give
          MaxHistory,   \* entries a tab remembers (15)
          MaxSessions,  \* bound: tabs open at once
          MaxOpened,    \* bound: tabs opened in all
          MaxSends,     \* bound: requests sent
          MaxStarts     \* bound: starts of the program

\* A tab remembers an entry at least, and one tab may be open.
ASSUME RepeaterAssumption ==
    /\ Found \subseteq Requests
    /\ MaxHistory \in Nat \ {0} /\ MaxSessions \in Nat \ {0}
    /\ MaxOpened \in Nat /\ MaxSends \in Nat /\ MaxStarts \in Nat

VARIABLES screen,       \* "list" or "repeater"
          sessions,     \* the tabs, in order
          activeTab,    \* position of the active tab, from zero
          ui,           \* the fields on the screen
          nextID,       \* nextRepeaterSessionID
          inFlight,     \* requests whose message has not been handled
          sends,
          saved,        \* the side file
          dirty,        \* uiStateDirty
          starts

repeaterVars == <<screen, sessions, activeTab, ui, nextID, inFlight, sends, saved, dirty, starts>>

Smaller(a, b) == IF a < b THEN a ELSE b

NoRequest == "none"
NoCancel == 0                             \* CancelFn = nil

\* What a tab and the screen have in common; cancel names the request that
\* CancelFn would end.
Empty == [req |-> NoRequest, sending |-> FALSE, cancel |-> NoCancel, hist |-> <<>>, hidx |-> 0]
Fields(s) == [f \in DOMAIN Empty |-> s[f]]

RepeaterInit ==
    /\ screen = "list" /\ sessions = <<>> /\ activeTab = 0 /\ ui = Empty
    /\ nextID = 1 /\ inFlight = {} /\ sends = 0
    /\ saved = [tabs |-> <<>>, active |-> 0] /\ dirty = FALSE /\ starts = 1

IsOpen(sid) == \E i \in DOMAIN sessions : sessions[i].id = sid
Position(sid) == CHOOSE i \in DOMAIN sessions : sessions[i].id = sid

\* The tabs after the active one took over the screen, unless no tab is active.
syncActiveRepeaterSessionFromUI ==
    IF activeTab >= Len(sessions) THEN sessions
    ELSE [sessions EXCEPT ![activeTab + 1] = [f \in DOMAIN @ |-> IF f \in DOMAIN ui THEN ui[f] ELSE @[f]]]

\* The screen shows the tab at position idx of ss.
loadRepeaterSessionIntoUI(ss, idx) ==
    /\ sessions' = ss
    /\ activeTab' = idx
    /\ ui' = Fields(ss[idx + 1])

\* r on a finding of the list.
openRepeaterSession(req) ==
    /\ screen = "list" /\ Len(sessions) < MaxSessions /\ nextID <= MaxOpened
    /\ LET tab == [id |-> nextID, req |-> req, sending |-> FALSE, cancel |-> NoCancel,
                   hist |-> <<req>>, hidx |-> 0]
           ss == Append(syncActiveRepeaterSessionFromUI, tab)
       IN  loadRepeaterSessionIntoUI(ss, Len(ss) - 1)
    /\ nextID' = nextID + 1
    /\ screen' = "repeater" /\ dirty' = TRUE
    /\ UNCHANGED <<inFlight, sends, saved, starts>>

InRepeater == screen = "repeater" /\ sessions # <<>>

\* Typing: every key is taken over by the tab.
Edit(req) ==
    /\ InRepeater /\ req # ui.req
    /\ ui' = [ui EXCEPT !.req = req]
    /\ sessions' = [sessions EXCEPT ![activeTab + 1].req = req]
    /\ dirty' = TRUE
    /\ UNCHANGED <<screen, activeTab, nextID, inFlight, sends, saved, starts>>

\* ctrl+p and ctrl+n: a neighbouring entry of the history is shown.
WalkHistory(delta) ==
    LET to == ui.hidx + delta
    IN  /\ InRepeater /\ to \in 0 .. Len(ui.hist) - 1
        /\ ui' = [ui EXCEPT !.hidx = to, !.req = ui.hist[to + 1]]
        /\ sessions' = [sessions EXCEPT ![activeTab + 1].hidx = to,
                                        ![activeTab + 1].req = ui.hist[to + 1]]
        /\ dirty' = TRUE
        /\ UNCHANGED <<screen, activeTab, nextID, inFlight, sends, saved, starts>>

\* Mutation: an answer is shown by whichever tab is on the screen.
IsShownAlways(i) == TRUE

\* Is the tab at position i (from one) the one on the screen?
IsShown(i) == i = activeTab + 1

\* ctrl+r: the request leaves in a goroutine with a context of its own.
Send ==
    /\ InRepeater /\ ~ui.sending /\ sends < MaxSends
    /\ sends' = sends + 1
    /\ inFlight' = inFlight \cup {[call |-> sends + 1, sid |-> sessions[activeTab + 1].id, cancelled |-> FALSE]}
    /\ ui' = [ui EXCEPT !.sending = TRUE, !.cancel = sends + 1]
    /\ sessions' = [sessions EXCEPT ![activeTab + 1].sending = TRUE, ![activeTab + 1].cancel = sends + 1]
    /\ UNCHANGED <<screen, activeTab, nextID, saved, dirty, starts>>

\* Calling CancelFn: the request ends soon, with an error or just answered.
Cancelled(call) == {[r EXCEPT !.cancelled = @ \/ r.call = call] : r \in inFlight}

\* The history after an answer: what lay ahead is forgotten, the oldest entry
\* too when there are too many. The entry names the request the tab has by
\* then, which may have been edited since it was sent.
Answered(s) ==
    LET kept == SubSeq(s.hist, 1, Smaller(s.hidx + 1, Len(s.hist)))
        grown == Append(kept, s.req)
    IN  IF Len(grown) > MaxHistory THEN Tail(grown) ELSE grown

\* The position moves to the new entry.
TakeHistory(s, h) == [s EXCEPT !.hist = h, !.hidx = Len(h) - 1]

\* RepeaterResultMsg: the tab that sent the request takes the answer or the
\* error; the screen follows if it shows that tab; a closed tab loses it.
RepeaterResultMsg(r, ok) ==
    /\ inFlight' = inFlight \ {r}
    /\ IF IsOpen(r.sid)
       THEN LET i == Position(r.sid)
                rest == [sessions[i] EXCEPT !.sending = FALSE, !.cancel = NoCancel]
                s == IF ok THEN TakeHistory(rest, Answered(rest)) ELSE rest
            IN  /\ sessions' = [sessions EXCEPT ![i] = s]
                /\ ui' = IF IsShown(i) THEN Fields(s) ELSE ui
                /\ dirty' = TRUE
       ELSE UNCHANGED <<sessions, ui, dirty>>
    /\ UNCHANGED <<screen, activeTab, nextID, sends, saved, starts>>

\* [ and ]: the neighbouring tab, round the ends.
cycleRepeaterSession(delta) ==
    /\ InRepeater /\ Len(sessions) > 1
    /\ loadRepeaterSessionIntoUI(syncActiveRepeaterSessionFromUI, (activeTab + delta) % Len(sessions))
    /\ dirty' = TRUE
    /\ UNCHANGED <<screen, nextID, inFlight, sends, saved, starts>>

\* ctrl+w: the request of the tab is cancelled and the tab goes. With the last
\* tab the repeater closes, and nothing is marked for saving.
closeActiveRepeaterSession ==
    /\ InRepeater
    /\ inFlight' = Cancelled(sessions[activeTab + 1].cancel)
    /\ LET ss == RemoveAt(sessions, activeTab + 1)
       IN  IF ss = <<>>
           THEN /\ sessions' = ss /\ activeTab' = 0 /\ ui' = Empty
                /\ screen' = "list" /\ UNCHANGED dirty
           ELSE /\ loadRepeaterSessionIntoUI(ss, Smaller(activeTab, Len(ss) - 1))
                /\ dirty' = TRUE /\ UNCHANGED screen
    /\ UNCHANGED <<nextID, sends, saved, starts>>

\* esc: back to the list; the request of the active tab is cancelled.
Leave ==
    /\ InRepeater
    /\ sessions' = syncActiveRepeaterSessionFromUI
    /\ inFlight' = Cancelled(ui.cancel)
    /\ screen' = "list" /\ dirty' = TRUE
    /\ UNCHANGED <<activeTab, ui, nextID, sends, saved, starts>>

\* What a tab is in the side file: no request is running there.
Persisted(s) == [s EXCEPT !.sending = FALSE, !.cancel = NoCancel]
buildPersistedUIState ==
    [tabs |-> [i \in DOMAIN sessions |-> Persisted(syncActiveRepeaterSessionFromUI[i])],
     active |-> activeTab]

\* A tick after the screen rested for a second.
Flush ==
    /\ dirty
    /\ saved' = buildPersistedUIState
    /\ sessions' = syncActiveRepeaterSessionFromUI
    /\ dirty' = FALSE
    /\ UNCHANGED <<screen, activeTab, ui, nextID, inFlight, sends, starts>>

\* The identifier after the largest one in use.
NextAfter(tabs) == 1 + Max({0} \cup {s.id : s \in Range(tabs)})

\* The program ends, after a save or by a crash, and starts again.
Restart(clean) ==
    /\ starts < MaxStarts /\ starts' = starts + 1
    /\ LET file == IF clean THEN buildPersistedUIState ELSE saved
       IN  /\ saved' = file
           /\ nextID' = NextAfter(file.tabs)
           /\ IF file.tabs = <<>>
              THEN sessions' = <<>> /\ activeTab' = 0 /\ ui' = Empty
              ELSE loadRepeaterSessionIntoUI(file.tabs, Smaller(file.active, Len(file.tabs) - 1))
    /\ screen' = "list" /\ inFlight' = {} /\ dirty' = FALSE
    /\ UNCHANGED sends

RepeaterNext ==
    \/ (\E req \in Found : openRepeaterSession(req)) \/ (\E req \in Requests : Edit(req))
    \/ \E delta \in {-1, 1} : WalkHistory(delta) \/ cycleRepeaterSession(delta)
    \/ Send \/ closeActiveRepeaterSession \/ Leave \/ Flush
    \/ \E r \in inFlight, ok \in BOOLEAN : RepeaterResultMsg(r, ok)
    \/ \E clean \in BOOLEAN : Restart(clean)

----------------------------------------------------------------------------

RepeaterTypeOK ==
    /\ screen \in {"list", "repeater"}
    /\ Len(sessions) <= MaxSessions
    /\ activeTab \in 0 .. MaxSessions - 1
    /\ ui.req \in Requests \cup {NoRequest}
    /\ \A r \in inFlight : r.call \in 1 .. sends /\ r.cancelled \in BOOLEAN
    /\ dirty \in BOOLEAN

\* The screen and the active tab are one: their request, history and running
\* call agree after every key and every message, so neither copy can overwrite
\* news of the other (syncActiveRepeaterSessionFromUI and
\* loadRepeaterSessionIntoUI).
RepeaterScreenIsTab ==
    sessions # <<>> => activeTab < Len(sessions) /\ ui = Fields(sessions[activeTab + 1])

\* A tab says "Sending" exactly while one request of its own is running, and
\* its CancelFn is that request's: switching, closing and reordering tabs never
\* leaves a tab that can send no more or a request nobody can cancel (ctrl+r,
\* RepeaterResultMsg).
RepeaterSendingIsRunning ==
    \A i \in DOMAIN sessions :
        LET s == sessions[i]
            running == {r \in inFlight : r.sid = s.id}
        IN  IF s.sending THEN \E r \in running : running = {r} /\ s.cancel = r.call
            ELSE running = {} /\ s.cancel = NoCancel

\* The request of a tab that is no longer open has been cancelled
\* (closeActiveRepeaterSession).
RepeaterClosedIsCancelled ==
    \A r \in inFlight : ~IsOpen(r.sid) => r.cancelled

\* The position in a history is one of its entries, whatever was forgotten
\* ahead of it or at its start (ctrl+p and ctrl+n index by it), and no two tabs
\* share the identifier that answers are routed by, restarts included.
RepeaterHistoryInRange ==
    /\ \A i \in DOMAIN sessions :
           Len(sessions[i].hist) <= MaxHistory /\ sessions[i].hidx \in 0 .. Len(sessions[i].hist) - 1
    /\ \A i, j \in DOMAIN sessions : sessions[i].id = sessions[j].id => i = j

\* While nothing waits to be saved, the side file has the tabs of the screen,
\* except after the last tab was closed (markUIStateDirty is not called then).
RepeaterSaved ==
    (~dirty /\ sessions # <<>>) =>
        saved = [tabs |-> [i \in DOMAIN sessions |-> Persisted(sessions[i])], active |-> activeTab]

\* A tab says it is sending exactly while its request runs, a closed tab's
\* request is cancelled, and screen, history and side file are the tab's.
RepeaterSound ==
    /\ RepeaterTypeOK /\ RepeaterScreenIsTab /\ RepeaterSendingIsRunning
    /\ RepeaterClosedIsCancelled /\ RepeaterHistoryInRange /\ RepeaterSaved
=============================================================================

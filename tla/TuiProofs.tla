----------------------------- MODULE TuiProofs -----------------------------
(* What the terminal screen shows, for any number of tabs, entries, lines and *)
(* findings: the repeater's tabs and requests agree, keys find their view,    *)
(* the log panel shows the newest entries, and the list keeps cursor, marks   *)
(* and merged findings in place.                                              *)
EXTENDS TuiRepeater, TuiScreen, TuiLogs, TuiList, FiniteSetTheorems, SequenceTheorems,
        WellFoundedInduction, TLAPS

-----------------------------------------------------------------------------
(* The repeater's tabs.                                                       *)

RepeaterSafety == RepeaterInit /\ [][RepeaterNext]_repeaterVars

Tab == [id : Nat \ {0}, req : Requests, sending : BOOLEAN, cancel : Nat,
        hist : Seq(Requests), hidx : Nat]
TabOK(s, n) == s \in Tab /\ s.id < n /\ Len(s.hist) <= MaxHistory /\ s.hidx < Len(s.hist)

(* Tabs on the screen or in the side file: each has its place in its history,
   and an identifier of its own below n.                                      *)
TabsOK(ss, n) ==
    /\ ss \in Seq(Tab) /\ Len(ss) <= MaxSessions
    /\ \A i \in DOMAIN ss : TabOK(ss[i], n)
    /\ \A i, j \in DOMAIN ss : ss[i].id = ss[j].id => i = j

RepTypes ==
    /\ screen \in {"list", "repeater"} /\ dirty \in BOOLEAN
    /\ sends \in Nat /\ nextID \in Nat \ {0} /\ TabsOK(sessions, nextID)
    /\ sessions = <<>> => ui = Empty /\ activeTab = 0
    /\ sessions # <<>> => activeTab \in 0..(Len(sessions) - 1) /\ ui = Fields(sessions[activeTab + 1])
RepFile ==
    /\ TabsOK(saved.tabs, nextID)
    /\ \A i \in DOMAIN saved.tabs : Persisted(saved.tabs[i]) = saved.tabs[i]
    /\ saved = [tabs |-> saved.tabs, active |-> saved.active]
    /\ saved.active \in Nat
    /\ saved.tabs # <<>> => saved.active < Len(saved.tabs)

InStep(s, F) ==
    LET running == {r \in F : r.sid = s.id}
    IN  IF s.sending THEN \E r \in running : running = {r} /\ s.cancel = r.call
        ELSE running = {} /\ s.cancel = NoCancel
RepSending == \A i \in DOMAIN sessions : InStep(sessions[i], inFlight)
FlightOK(F) ==
    /\ \A r \in F : r \in [call : 1..sends, sid : Nat, cancelled : BOOLEAN] /\ r.sid < nextID
    /\ \A r, q \in F : r.call = q.call => r = q

RepeaterInv == RepTypes /\ FlightOK(inFlight) /\ RepFile /\ RepSending /\ RepeaterClosedIsCancelled /\ RepeaterSaved

-----------------------------------------------------------------------------
LEMMA FieldsAre ==
  ASSUME NEW s
  PROVE  Fields(s) = [req |-> s.req, sending |-> s.sending, cancel |-> s.cancel, hist |-> s.hist,
                      hidx |-> s.hidx]
  BY DEF Fields, Empty

LEMMA Synced == ASSUME RepTypes PROVE syncActiveRepeaterSessionFromUI = sessions
<1>1. CASE sessions = <<>>
  BY <1>1 DEF RepTypes, syncActiveRepeaterSessionFromUI
<1>2. CASE sessions # <<>>
  <2> DEFINE k == activeTab + 1
             s == sessions[k]
  <2>1. k \in DOMAIN sessions /\ s \in Tab /\ ui = Fields(s) /\ sessions \in Seq(Tab)
        /\ ~(activeTab >= Len(sessions))
    BY <1>2 DEF RepTypes, TabsOK
  <2>2. [f \in DOMAIN s |-> IF f \in DOMAIN ui THEN ui[f] ELSE s[f]] = s
    <3>1. \A f \in DOMAIN ui : ui[f] = s[f]
      BY <2>1 DEF Fields
    <3> HIDE DEF s
    <3>2. s = [f \in DOMAIN s |-> s[f]]
      BY <2>1 DEF Tab
    <3> QED BY <3>1, <3>2
  <2>3. syncActiveRepeaterSessionFromUI = [sessions EXCEPT ![k] = s]
    BY <2>1, <2>2 DEF syncActiveRepeaterSessionFromUI
  <2> HIDE DEF k
  <2> QED BY <2>1, <2>3
<1> QED BY <1>1, <1>2

(* The largest of some naturals below a bound exists.                         *)
LEMMA MaxOf ==
  ASSUME NEW S, S \subseteq Nat, S # {}, NEW b \in Nat, \A x \in S : x < b
  PROVE  Max(S) \in S /\ \A x \in S : Max(S) >= x
<1> DEFINE U == {n \in Nat : \A x \in S : x <= n}
<1>1. b \in U
  OBVIOUS
<1>2. PICK u \in U : \A n \in U : ~(n < u)
  <2>1. IsWellFoundedOn(OpToRel(<, Nat), Nat)
    BY NatLessThanWellFounded
  <2>2. U \subseteq Nat /\ U # {}
    BY <1>1
  <2> HIDE DEF U
  <2>3. PICK u \in U : \A n \in U : ~(<<n, u>> \in OpToRel(<, Nat))
    BY <2>1, <2>2, WFMin
  <2> QED BY <2>2, <2>3 DEF OpToRel
<1>3. u \in S
  <2> SUFFICES ASSUME u \notin S PROVE FALSE
    OBVIOUS
  <2>1. \A x \in S : x < u
    BY <1>2
  <2>2. u > 0
    <3>1. PICK x \in S : TRUE
      OBVIOUS
    <3> QED BY <2>1, <3>1
  <2>3. u - 1 \in U
    BY <2>1, <2>2
  <2> QED BY <1>2, <2>2, <2>3
<1>4. \A x \in S : u >= x
  BY <1>2
<1> QED BY <1>3, <1>4 DEF Max

LEMMA NextIsFree ==
  ASSUME NEW tabs, NEW n \in Nat \ {0}, TabsOK(tabs, n)
  PROVE  NextAfter(tabs) \in Nat \ {0} /\ TabsOK(tabs, NextAfter(tabs))
<1> DEFINE S == {0} \cup {s.id : s \in Range(tabs)}
<1>1. Range(tabs) = {tabs[i] : i \in DOMAIN tabs}
  BY DEF Range
<1>2. S \subseteq Nat /\ \A x \in S : x < n
  BY <1>1, SMTT(30) DEF TabsOK, TabOK, Tab
<1>3. \A i \in DOMAIN tabs : tabs[i].id \in S
  BY <1>1
<1>4. NextAfter(tabs) = 1 + Max(S)
  BY DEF NextAfter
<1>5. 0 \in S
  OBVIOUS
<1> HIDE DEF S
<1>6. Max(S) \in S /\ \A x \in S : Max(S) >= x
  BY <1>2, <1>5, MaxOf
<1>7. \A i \in DOMAIN tabs : tabs[i].id < NextAfter(tabs)
  <2> TAKE i \in DOMAIN tabs
  <2>1. tabs[i].id \in S /\ Max(S) \in Nat
    BY <1>2, <1>3, <1>6
  <2>2. tabs[i].id <= Max(S) /\ tabs[i].id \in Nat
    BY <1>2, <1>6, <2>1
  <2> QED BY <1>4, <2>1, <2>2
<1>8. NextAfter(tabs) \in Nat \ {0}
  <2>1. Max(S) \in Nat
    BY <1>2, <1>6
  <2> QED BY <1>4, <2>1
<1> HIDE DEF NextAfter
<1> QED BY <1>7, <1>8 DEF TabsOK, TabOK

LEMMA RepeaterInvInit == RepeaterInit => RepeaterInv
<1> SUFFICES ASSUME RepeaterInit PROVE RepeaterInv
  OBVIOUS
<1> USE DEF RepeaterInit
<1>1. \A n : TabsOK(<<>>, n)
  BY RepeaterAssumption DEF TabsOK
<1>2. RepTypes
  <2>1. TabsOK(sessions, nextID)
    BY <1>1
  <2>2. dirty \in BOOLEAN
    OBVIOUS
  <2>3. sends \in Nat /\ nextID \in Nat \ {0}
    OBVIOUS
  <2>4. sessions = <<>> /\ ui = Empty /\ activeTab = 0 /\ screen \in {"list", "repeater"}
    OBVIOUS
  <2> QED BY ONLY <2>1, <2>2, <2>3, <2>4 DEF RepTypes
<1>3. RepFile
  BY <1>1 DEF RepFile
<1> QED BY <1>2, <1>3 DEF RepeaterInv, FlightOK, RepSending, RepeaterClosedIsCancelled, RepeaterSaved

(* One tab changes and keeps its identifier.                                 *)
LEMMA OneTab ==
  ASSUME NEW ss, NEW n, TabsOK(ss, n), NEW k \in DOMAIN ss, NEW s, TabOK(s, n), s.id = ss[k].id,
         NEW tt \in Seq(Tab), Len(tt) = Len(ss), tt[k] = s,
         \A i \in DOMAIN ss : i # k => tt[i] = ss[i]
  PROVE  TabsOK(tt, n) /\ \A i \in DOMAIN ss : tt[i].id = ss[i].id
<1>1. ss \in Seq(Tab) /\ s \in Tab
  BY DEF TabsOK, TabOK
<1>2. DOMAIN tt = DOMAIN ss
  BY <1>1
<1>3. \A i \in DOMAIN ss : tt[i].id = ss[i].id
  BY <1>2
<1>4. \A i \in DOMAIN ss : TabOK(tt[i], n)
  BY DEF TabsOK
<1> QED BY <1>2, <1>3, <1>4 DEF TabsOK

Rewrites(k, s) == sessions' = [sessions EXCEPT ![k] = s]

(* A step on the tab at k that keeps screen and file: what is to be shown.     *)
LEMMA TabStep ==
  ASSUME RepeaterInv, NEW k \in DOMAIN sessions, NEW s, TabOK(s, nextID), s.id = sessions[k].id,
         Rewrites(k, s),
         ui' = IF k = activeTab + 1 THEN Fields(s) ELSE ui,
         UNCHANGED <<screen, activeTab, nextID, saved>>, 
         dirty' = TRUE \/ (dirty' = dirty /\ Persisted(s) = Persisted(sessions[k])), sends' \in Nat,
         FlightOK(inFlight)', InStep(s, inFlight'),
         \A i \in DOMAIN sessions : i # k => InStep(sessions[i], inFlight'),
         \A r \in inFlight' : r \in inFlight \/ r.cancelled \/ r.sid = s.id
  PROVE  RepeaterInv'
<1> USE DEF RepeaterInv, Rewrites
<1>1. /\ TabsOK(sessions', nextID) /\ Len(sessions') = Len(sessions)
      /\ DOMAIN sessions' = DOMAIN sessions /\ sessions'[k] = s
      /\ \A i \in DOMAIN sessions : sessions'[i].id = sessions[i].id /\ (i # k => sessions'[i] = sessions[i])
  <2>1. TabsOK(sessions, nextID)
    BY DEF RepTypes
  <2>2. sessions \in Seq(Tab) /\ s \in Tab
    BY <2>1 DEF TabsOK, TabOK
  <2>3. /\ sessions' \in Seq(Tab) /\ Len(sessions') = Len(sessions) /\ DOMAIN sessions' = DOMAIN sessions
        /\ sessions'[k] = s /\ \A i \in DOMAIN sessions : i # k => sessions'[i] = sessions[i]
    BY <2>2
  <2> HIDE DEF RepeaterInv
  <2> QED BY <2>1, <2>3, OneTab
<1>2. RepTypes'
  <2>1. sessions # <<>> /\ sessions' # <<>> /\ activeTab \in 0..(Len(sessions) - 1)
        /\ ui = Fields(sessions[activeTab + 1]) /\ activeTab + 1 \in DOMAIN sessions
    BY <1>1 DEF RepTypes, TabsOK
  <2>2. ui' = Fields(sessions'[activeTab + 1])
    BY <1>1, <2>1
  <2> QED BY <1>1, <2>1, <2>2 DEF RepTypes, Fields
<1>3. RepFile'
  BY DEF RepFile, TabsOK, Persisted
<1>4. RepSending'
  BY <1>1 DEF RepSending, InStep
<1>5. RepeaterClosedIsCancelled'
  <2>1. \A sid : IsOpen(sid)' <=> IsOpen(sid)
    BY <1>1 DEF IsOpen
  <2>2. IsOpen(s.id)
    BY DEF IsOpen
  <2> QED BY <2>1, <2>2 DEF RepeaterClosedIsCancelled
<1>6. RepeaterSaved'
  <2> SUFFICES ASSUME ~dirty'
               PROVE  saved = [tabs |-> [i \in DOMAIN sessions' |-> Persisted(sessions'[i])],
                               active |-> activeTab]
    BY DEF RepeaterSaved, Persisted
  <2>1. ~dirty /\ Persisted(s) = Persisted(sessions[k]) /\ sessions # <<>>
    BY DEF RepTypes, TabsOK
  <2>2. saved = [tabs |-> [i \in DOMAIN sessions |-> Persisted(sessions[i])], active |-> activeTab]
    BY <2>1 DEF RepeaterSaved
  <2>3. \A i \in DOMAIN sessions : Persisted(sessions'[i]) = Persisted(sessions[i])
    BY <1>1, <2>1
  <2>4. [i \in DOMAIN sessions' |-> Persisted(sessions'[i])] = [i \in DOMAIN sessions |-> Persisted(sessions[i])]
    BY <1>1, <2>3
  <2> QED BY <2>2, <2>4
<1> QED BY <1>2, <1>3, <1>4, <1>5, <1>6

LEMMA EditStep == ASSUME RepeaterInv, NEW req \in Requests, Edit(req) PROVE RepeaterInv'
<1> DEFINE k == activeTab + 1
           s == [sessions[k] EXCEPT !.req = req]
<1>1. k \in DOMAIN sessions /\ TabOK(sessions[k], nextID) /\ ui = Fields(sessions[k])
  BY DEF RepeaterInv, RepTypes, TabsOK, Edit, InRepeater
<1>2. TabOK(s, nextID) /\ s.id = sessions[k].id /\ InStep(s, inFlight) /\ Fields(s) = ui'
  <2>1. ui' = [Fields(sessions[k]) EXCEPT !.req = req]
    BY <1>1 DEF Edit
  <2> QED BY <1>1, <2>1, FieldsAre DEF TabOK, Tab, RepeaterInv, RepSending, InStep
<1>3. Rewrites(k, s)
  BY DEF Edit, Rewrites
<1>4. /\ UNCHANGED <<screen, activeTab, nextID, saved, inFlight, sends>> /\ dirty' = TRUE
      /\ sends \in Nat /\ FlightOK(inFlight)
      /\ \A i \in DOMAIN sessions : InStep(sessions[i], inFlight)
  BY DEF Edit, RepeaterInv, RepTypes, RepSending
<1>5. FlightOK(inFlight)'
  BY <1>4 DEF FlightOK
<1> HIDE DEF s, k
<1>6. ui' = IF k = activeTab + 1 THEN Fields(s) ELSE ui
  BY <1>2 DEF k
<1>7. /\ dirty' = TRUE \/ (dirty' = dirty /\ Persisted(s) = Persisted(sessions[k]))
      /\ sends' \in Nat /\ InStep(s, inFlight')
      /\ \A i \in DOMAIN sessions : i # k => InStep(sessions[i], inFlight')
      /\ \A r \in inFlight' : r \in inFlight \/ r.cancelled \/ r.sid = s.id
      /\ UNCHANGED <<screen, activeTab, nextID, saved>>
  BY <1>2, <1>4
<1> QED BY ONLY RepeaterInv, <1>1, <1>2, <1>3, <1>5, <1>6, <1>7, TabStep

LEMMA WalkStep == ASSUME RepeaterInv, NEW delta \in {-1, 1}, WalkHistory(delta) PROVE RepeaterInv'
<1> DEFINE k == activeTab + 1
           to == ui.hidx + delta
           req == ui.hist[to + 1]
           s == [sessions[k] EXCEPT !.hidx = to, !.req = req]
<1>1. k \in DOMAIN sessions /\ TabOK(sessions[k], nextID) /\ ui = Fields(sessions[k])
  BY DEF RepeaterInv, RepTypes, TabsOK, WalkHistory, InRepeater
<1>a. ui.hist = sessions[k].hist /\ ui.hidx = sessions[k].hidx
  <2> HIDE DEF k
  <2> QED BY <1>1, FieldsAre
<1>b. to \in 0..(Len(sessions[k].hist) - 1) /\ to \in Nat /\ req \in Requests
  <2>1. to \in 0..(Len(ui.hist) - 1)
    BY DEF WalkHistory
  <2>2. sessions[k].hist \in Seq(Requests)
    BY <1>1 DEF TabOK, Tab
  <2> HIDE DEF to, k
  <2> QED BY <1>a, <2>1, <2>2
<1>2. TabOK(s, nextID) /\ s.id = sessions[k].id /\ InStep(s, inFlight) /\ Fields(s) = ui'
  <2>1. ui' = [Fields(sessions[k]) EXCEPT !.hidx = to, !.req = req]
    BY <1>1 DEF WalkHistory
  <2>2. to < Len(sessions[k].hist)
    BY <1>1, <1>b DEF TabOK, Tab
  <2> HIDE DEF to, req, k
  <2>3. s \in Tab /\ s.hist = sessions[k].hist /\ s.hidx = to /\ s.id = sessions[k].id
    BY <1>1, <1>b DEF TabOK, Tab
  <2>4. TabOK(s, nextID)
    BY <1>1, <2>2, <2>3 DEF TabOK
  <2>5. Fields(s) = ui'
    BY <2>1, <1>1, FieldsAre DEF TabOK, Tab
  <2>6. InStep(s, inFlight)
    BY <1>1 DEF RepeaterInv, RepSending, InStep, TabOK, Tab
  <2> QED BY <2>3, <2>4, <2>5, <2>6
<1>3. Rewrites(k, s)
  BY DEF WalkHistory, Rewrites
<1>4. /\ UNCHANGED <<screen, activeTab, nextID, saved, inFlight, sends>> /\ dirty' = TRUE
      /\ sends \in Nat /\ FlightOK(inFlight)
      /\ \A i \in DOMAIN sessions : InStep(sessions[i], inFlight)
  BY DEF WalkHistory, RepeaterInv, RepTypes, RepSending
<1>5. FlightOK(inFlight)'
  BY <1>4 DEF FlightOK
<1> HIDE DEF s, k
<1>6. ui' = IF k = activeTab + 1 THEN Fields(s) ELSE ui
  BY <1>2 DEF k
<1>7. /\ dirty' = TRUE \/ (dirty' = dirty /\ Persisted(s) = Persisted(sessions[k]))
      /\ sends' \in Nat /\ InStep(s, inFlight')
      /\ \A i \in DOMAIN sessions : i # k => InStep(sessions[i], inFlight')
      /\ \A r \in inFlight' : r \in inFlight \/ r.cancelled \/ r.sid = s.id
      /\ UNCHANGED <<screen, activeTab, nextID, saved>>
  BY <1>2, <1>4
<1> QED BY ONLY RepeaterInv, <1>1, <1>2, <1>3, <1>5, <1>6, <1>7, TabStep

(* A tab at rest sends: its call is new, and the only one of its own.         *)
LEMMA SendStep == ASSUME RepeaterInv, Send PROVE RepeaterInv'
<1> DEFINE k == activeTab + 1
           r == [call |-> sends + 1, sid |-> sessions[k].id, cancelled |-> FALSE]
           s == [sessions[k] EXCEPT !.sending = TRUE, !.cancel = sends + 1]
<1>1. k \in DOMAIN sessions /\ TabOK(sessions[k], nextID) /\ ui = Fields(sessions[k])
      /\ TabsOK(sessions, nextID)
  BY DEF RepeaterInv, RepTypes, TabsOK, Send, InRepeater
<1>2. sends \in Nat /\ FlightOK(inFlight) /\ \A i \in DOMAIN sessions : InStep(sessions[i], inFlight)
  BY DEF RepeaterInv, RepTypes, RepSending
<1>3. Rewrites(k, s) /\ inFlight' = inFlight \cup {r} /\ sends' = sends + 1
      /\ UNCHANGED <<screen, activeTab, nextID, saved, dirty>>
  BY DEF Send, Rewrites
<1>4. TabOK(s, nextID) /\ s.id = sessions[k].id /\ Fields(s) = ui'
  <2>1. ui' = [Fields(sessions[k]) EXCEPT !.sending = TRUE, !.cancel = sends + 1]
    BY <1>1 DEF Send
  <2> HIDE DEF k
  <2>2. sends + 1 \in Nat /\ sessions[k] \in Tab
    BY <1>1, <1>2 DEF TabOK
  <2>3. s \in Tab /\ s.hist = sessions[k].hist /\ s.hidx = sessions[k].hidx /\ s.id = sessions[k].id
    BY <2>2 DEF Tab
  <2>4. Fields(s) = ui'
    BY <2>1, <2>2, FieldsAre DEF Tab
  <2> HIDE DEF s
  <2> QED BY <1>1, <2>3, <2>4 DEF TabOK
<1>5. Persisted(s) = Persisted(sessions[k])
  <2> HIDE DEF k
  <2> QED BY <1>1 DEF Persisted, TabOK, Tab
<1>6. FlightOK(inFlight)'
  <2>1. r \in [call : 1..(sends + 1), sid : Nat, cancelled : BOOLEAN] /\ r.sid < nextID
    BY <1>1, <1>2 DEF TabOK, Tab
  <2>2. \A q \in inFlight : q \in [call : 1..(sends + 1), sid : Nat, cancelled : BOOLEAN] /\ q.call # sends + 1
    BY <1>2 DEF FlightOK
  <2>3. r.call = sends + 1
    OBVIOUS
  <2> HIDE DEF r
  <2> QED BY <1>2, <1>3, <2>1, <2>2, <2>3 DEF FlightOK
<1>7. {q \in inFlight : q.sid = sessions[k].id} = {}
  <2>1. ~sessions[k].sending
    <3> HIDE DEF k
    <3> QED BY <1>1, FieldsAre DEF Send
  <2> QED BY <1>1, <1>2, <2>1 DEF InStep
<1>8. InStep(s, inFlight')
  <2>1. r.sid = s.id /\ s.sending /\ s.cancel = r.call
    BY <1>1, <1>4 DEF TabOK, Tab
  <2> HIDE DEF r, s, k
  <2>2. {q \in inFlight' : q.sid = s.id} = {r}
    BY <1>3, <1>4, <1>7, <2>1
  <2> QED BY <2>1, <2>2 DEF InStep
<1>9. ASSUME NEW i \in DOMAIN sessions, i # k PROVE InStep(sessions[i], inFlight')
  <2>1. sessions[i].id # r.sid
    BY <1>1, <1>9 DEF TabsOK
  <2> HIDE DEF r
  <2>2. {q \in inFlight' : q.sid = sessions[i].id} = {q \in inFlight : q.sid = sessions[i].id}
    BY <1>3, <2>1
  <2> QED BY <1>2, <2>2 DEF InStep
<1>10. r.sid = s.id
  BY <1>4
<1> HIDE DEF s, k, r
<1>11. ui' = IF k = activeTab + 1 THEN Fields(s) ELSE ui
  BY <1>4 DEF k
<1>12. /\ dirty' = TRUE \/ (dirty' = dirty /\ Persisted(s) = Persisted(sessions[k]))
       /\ sends' \in Nat
       /\ \A q \in inFlight' : q \in inFlight \/ q.cancelled \/ q.sid = s.id
       /\ UNCHANGED <<screen, activeTab, nextID, saved>>
  BY <1>2, <1>3, <1>5, <1>10
<1> QED BY ONLY RepeaterInv, <1>1, <1>3, <1>4, <1>6, <1>8, <1>9, <1>11, <1>12, TabStep

(* What a tab remembers after an answer fits, and its place is the last.      *)
LEMMA AnswerFits ==
  ASSUME NEW n, NEW s, TabOK(s, n)
  PROVE  LET h == Answered(s) IN
         h \in Seq(Requests) /\ Len(h) \in 1..MaxHistory
<1> DEFINE kept == SubSeq(s.hist, 1, Smaller(s.hidx + 1, Len(s.hist)))
           grown == Append(kept, s.req)
<1>1. s.hist \in Seq(Requests) /\ s.req \in Requests /\ s.hidx \in 0..(Len(s.hist) - 1)
      /\ Len(s.hist) <= MaxHistory /\ Len(s.hist) \in Nat
  BY DEF TabOK, Tab
<1>2. Smaller(s.hidx + 1, Len(s.hist)) = s.hidx + 1
  BY <1>1 DEF Smaller
<1>3. kept \in Seq(Requests) /\ Len(kept) = s.hidx + 1
  BY <1>1, <1>2, SubSeqProperties
<1> HIDE DEF kept
<1>4. grown \in Seq(Requests) /\ Len(grown) = s.hidx + 2
  BY <1>1, <1>3
<1>5. Answered(s) = IF Len(grown) > MaxHistory THEN Tail(grown) ELSE grown
  BY DEF Answered, kept
<1> HIDE DEF grown
<1>6. Tail(grown) \in Seq(Requests) /\ Len(Tail(grown)) = s.hidx + 1
  <2>1. grown # <<>>
    BY <1>1, <1>4
  <2> QED BY <1>1, <1>4, <2>1, HeadTailProperties
<1> QED BY <1>1, <1>4, <1>5, <1>6, RepeaterAssumption, SMTT(30)

(* An answer: the tab's one call is over.                                     *)
LEMMA ResultStep ==
  ASSUME RepeaterInv, NEW r \in inFlight, NEW ok \in BOOLEAN, RepeaterResultMsg(r, ok)
  PROVE  RepeaterInv'
<1>1. sends \in Nat /\ FlightOK(inFlight) /\ (\A i \in DOMAIN sessions : InStep(sessions[i], inFlight))
      /\ TabsOK(sessions, nextID)
  BY DEF RepeaterInv, RepTypes, RepSending
<1>2. inFlight' = inFlight \ {r} /\ UNCHANGED <<screen, activeTab, nextID, sends, saved, starts>>
  BY DEF RepeaterResultMsg
<1>3. FlightOK(inFlight)'
  BY <1>1, <1>2 DEF FlightOK
<1>4. ASSUME NEW i \in DOMAIN sessions, sessions[i].id # r.sid
      PROVE  InStep(sessions[i], inFlight')
  <2>1. {q \in inFlight' : q.sid = sessions[i].id} = {q \in inFlight : q.sid = sessions[i].id}
    BY <1>2, <1>4
  <2> QED BY <1>1, <2>1 DEF InStep
<1>5. CASE IsOpen(r.sid)
  <2> DEFINE k == Position(r.sid)
             rest == [sessions[k] EXCEPT !.sending = FALSE, !.cancel = NoCancel]
             s == IF ok THEN TakeHistory(rest, Answered(rest)) ELSE rest
  <2>1. k \in DOMAIN sessions /\ sessions[k].id = r.sid
    BY <1>5 DEF IsOpen, Position
  <2>2. /\ Rewrites(k, s) /\ dirty' = TRUE
        /\ ui' = IF k = activeTab + 1 THEN Fields(s) ELSE ui
    BY <1>5 DEF RepeaterResultMsg, Rewrites, IsShown
  <2> HIDE DEF k
  <2>3. TabOK(sessions[k], nextID)
    BY <1>1, <2>1 DEF TabsOK
  <2>4. /\ rest \in Tab /\ rest.hist = sessions[k].hist /\ rest.hidx = sessions[k].hidx
        /\ rest.id = r.sid /\ ~rest.sending /\ rest.cancel = NoCancel
    BY <2>1, <2>3 DEF TabOK, Tab, NoCancel
  <2>5. TabOK(rest, nextID)
    BY <2>1, <2>3, <2>4 DEF TabOK
  <2> HIDE DEF rest
  <2>6. TabOK(s, nextID) /\ s.id = r.sid /\ ~s.sending /\ s.cancel = NoCancel
    <3>1. CASE ok
      <4> DEFINE h == Answered(rest)
      <4>1. h \in Seq(Requests) /\ Len(h) \in 1..MaxHistory
        BY <2>5, AnswerFits
      <4>2. Len(h) - 1 \in Nat /\ Len(h) - 1 < Len(h) /\ Len(h) <= MaxHistory
        BY <4>1, RepeaterAssumption
      <4>3. s = [rest EXCEPT !.hist = h, !.hidx = Len(h) - 1]
        BY <3>1 DEF TakeHistory
      <4> HIDE DEF h, s
      <4>4. s \in Tab /\ s.hist = h /\ s.hidx = Len(h) - 1 /\ s.id = r.sid /\ ~s.sending /\ s.cancel = NoCancel
        BY <2>4, <4>1, <4>2, <4>3 DEF Tab
      <4> QED BY <2>5, <2>4, <4>2, <4>4 DEF TabOK
    <3>2. CASE ~ok
      BY <2>4, <2>5, <3>2
    <3> QED BY <3>1, <3>2
  <2> HIDE DEF s
  <2>7. InStep(s, inFlight')
    <3>1. {q \in inFlight : q.sid = r.sid} = {r}
      <4>1. r \in {q \in inFlight : q.sid = r.sid}
        OBVIOUS
      <4>2. InStep(sessions[k], inFlight)
        BY <1>1, <2>1
      <4> QED BY <2>1, <4>1, <4>2 DEF InStep
    <3>2. {q \in inFlight' : q.sid = s.id} = {}
      BY <1>2, <2>6, <3>1
    <3> QED BY <2>6, <3>2 DEF InStep
  <2>8. \A i \in DOMAIN sessions : i # k => InStep(sessions[i], inFlight')
    BY <1>1, <1>4, <2>1 DEF TabsOK
  <2>9. /\ dirty' = TRUE \/ (dirty' = dirty /\ Persisted(s) = Persisted(sessions[k]))
        /\ sends' \in Nat /\ s.id = sessions[k].id
        /\ \A q \in inFlight' : q \in inFlight \/ q.cancelled \/ q.sid = s.id
        /\ UNCHANGED <<screen, activeTab, nextID, saved>>
    BY <1>1, <1>2, <2>1, <2>2, <2>6
  <2> QED BY ONLY RepeaterInv, <1>3, <2>1, <2>2, <2>6, <2>7, <2>8, <2>9, TabStep
<1>6. CASE ~IsOpen(r.sid)
  <2>1. UNCHANGED <<sessions, ui, dirty>>
    BY <1>6 DEF RepeaterResultMsg
  <2>2. \A i \in DOMAIN sessions : InStep(sessions[i], inFlight')
    BY <1>4, <1>6 DEF IsOpen
  <2>3. RepTypes' /\ RepFile' /\ RepeaterSaved'
    BY <1>2, <2>1 DEF RepeaterInv, RepTypes, RepFile, RepeaterSaved, TabsOK, Fields, Persisted
  <2>4. RepSending' /\ RepeaterClosedIsCancelled'
    BY <1>2, <2>1, <2>2 DEF RepSending, InStep, RepeaterInv, RepeaterClosedIsCancelled, IsOpen
  <2> QED BY <1>3, <2>3, <2>4 DEF RepeaterInv
<1> QED BY <1>5, <1>6

(* Tabs, calls and identifiers as they were.                                 *)
LEMMA TabsRest ==
  ASSUME RepeaterInv, UNCHANGED <<sessions, nextID, sends, inFlight>>
  PROVE  TabsOK(sessions', nextID') /\ FlightOK(inFlight)' /\ RepSending' /\ RepeaterClosedIsCancelled'
<1>1. TabsOK(sessions, nextID)
  BY DEF RepeaterInv, RepTypes
<1>2. TabsOK(sessions', nextID')
  BY <1>1
<1>3. FlightOK(inFlight)' /\ RepSending'
  BY DEF RepeaterInv, FlightOK, RepSending, InStep
<1>4. RepeaterClosedIsCancelled'
  BY DEF RepeaterInv, RepeaterClosedIsCancelled, IsOpen
<1> QED BY <1>2, <1>3, <1>4

LEMMA CycleStep == ASSUME RepeaterInv, NEW delta \in {-1, 1}, cycleRepeaterSession(delta) PROVE RepeaterInv'
<1> DEFINE to == (activeTab + delta) % Len(sessions)
<1>1. /\ sessions' = sessions /\ activeTab' = to /\ ui' = Fields(sessions[to + 1])
      /\ dirty' = TRUE /\ UNCHANGED <<screen, nextID, inFlight, sends, saved, starts>>
      /\ sessions # <<>>
  BY Synced DEF cycleRepeaterSession, InRepeater, loadRepeaterSessionIntoUI, RepeaterInv
<1>2. to \in 0..(Len(sessions) - 1)
  <2>1. Len(sessions) \in Nat \ {0} /\ activeTab \in Int
    BY <1>1 DEF RepeaterInv, RepTypes, TabsOK
  <2> QED BY <2>1
<1> HIDE DEF to
<1>3. RepTypes'
  BY <1>1, <1>2, TabsRest DEF RepTypes, RepeaterInv, Fields
<1>4. RepFile' /\ RepeaterSaved'
  BY <1>1 DEF RepFile, RepeaterSaved, RepeaterInv, TabsOK, Persisted
<1> QED BY <1>1, <1>3, <1>4, TabsRest DEF RepeaterInv

(* A new tab: no call has its identifier.                                    *)
LEMMA OpenStep == ASSUME RepeaterInv, NEW req \in Found, openRepeaterSession(req) PROVE RepeaterInv'
<1> DEFINE s == [id |-> nextID, req |-> req, sending |-> FALSE, cancel |-> NoCancel,
                 hist |-> <<req>>, hidx |-> 0]
           n == Len(sessions)
<1>1. /\ sessions' = Append(sessions, s) /\ Len(sessions) < MaxSessions
      /\ activeTab' = Len(Append(sessions, s)) - 1
      /\ ui' = Fields(Append(sessions, s)[Len(Append(sessions, s)) - 1 + 1])
      /\ nextID' = nextID + 1 /\ screen' = "repeater" /\ dirty' = TRUE
      /\ UNCHANGED <<inFlight, sends, saved, starts>>
  BY Synced DEF openRepeaterSession, loadRepeaterSessionIntoUI, RepeaterInv
<1>2. /\ TabsOK(sessions, nextID) /\ TabsOK(saved.tabs, nextID) /\ nextID \in Nat \ {0} /\ sends \in Nat
      /\ FlightOK(inFlight) /\ \A i \in DOMAIN sessions : InStep(sessions[i], inFlight)
  BY DEF RepeaterInv, RepTypes, RepFile, RepSending
<1>3. s \in Tab /\ s.id = nextID /\ Len(s.hist) = 1 /\ s.hidx = 0 /\ ~s.sending /\ s.cancel = NoCancel
  BY <1>2, RepeaterAssumption DEF Tab, NoCancel
<1> HIDE DEF s
<1>4. /\ sessions' \in Seq(Tab) /\ Len(sessions') = n + 1 /\ n \in Nat
      /\ \A i \in DOMAIN sessions : i \in DOMAIN sessions' /\ sessions'[i] = sessions[i]
      /\ DOMAIN sessions' = DOMAIN sessions \cup {n + 1} /\ sessions'[n + 1] = s
      /\ n + 1 \notin DOMAIN sessions
  BY <1>1, <1>2, <1>3 DEF TabsOK
<1>5. \A t : TabOK(t, nextID) => TabOK(t, nextID')
  BY <1>1, <1>2 DEF TabOK, Tab
<1>6. TabOK(s, nextID')
  BY <1>1, <1>2, <1>3, RepeaterAssumption DEF TabOK
<1>7. TabsOK(sessions', nextID')
  <2>1. \A i \in DOMAIN sessions' : TabOK(sessions'[i], nextID')
    BY <1>2, <1>4, <1>5, <1>6 DEF TabsOK
  <2>2. \A i \in DOMAIN sessions : sessions[i].id < nextID /\ sessions[i].id \in Nat
    BY <1>2 DEF TabsOK, TabOK, Tab
  <2>3. \A i \in DOMAIN sessions : sessions[i].id # s.id
    BY <1>2, <1>3, <2>2
  <2>4. \A i, j \in DOMAIN sessions' : sessions'[i].id = sessions'[j].id => i = j
    BY <1>2, <1>4, <2>3 DEF TabsOK
  <2>5. Len(sessions') <= MaxSessions
    BY <1>1, <1>4, RepeaterAssumption
  <2> QED BY <1>4, <2>1, <2>4, <2>5 DEF TabsOK
<1>8. TabsOK(saved'.tabs, nextID')
  BY <1>1, <1>2, <1>5 DEF TabsOK
<1> HIDE DEF n
<1>9. RepTypes'
  <2>1. Append(sessions, s) = sessions'
    BY <1>1
  <2>2. sessions' # <<>> /\ activeTab' = n /\ ui' = Fields(sessions'[n + 1]) /\ activeTab' + 1 = n + 1
    <3>1. activeTab' = n
      BY <1>1, <1>4
    <3>2. Len(sessions') - 1 + 1 = n + 1
      BY <1>4
    <3> QED BY <1>1, <1>4, <2>1, <3>1, <3>2
  <2>3. nextID' \in Nat \ {0} /\ sends' \in Nat /\ activeTab' \in 0..(Len(sessions') - 1)
    BY <1>1, <1>2, <1>4, <2>2
  <2>4. ui' = Fields(sessions'[activeTab' + 1])
    BY <2>2
  <2>5. screen' \in {"list", "repeater"} /\ dirty' \in BOOLEAN
    BY <1>1
  <2> QED BY <1>7, <2>2, <2>3, <2>4, <2>5 DEF RepTypes, Fields
<1>10. FlightOK(inFlight)'
  BY <1>1, <1>2 DEF FlightOK
<1>11. RepSending'
  <2>1. {r \in inFlight : r.sid = s.id} = {}
    BY <1>2, <1>3 DEF FlightOK
  <2>2. InStep(s, inFlight)
    BY <1>3, <2>1 DEF InStep
  <2>3. \A i \in DOMAIN sessions' : InStep(sessions'[i], inFlight)
    BY <1>2, <1>4, <2>2
  <2> QED BY <1>1, <2>3 DEF RepSending, InStep
<1>12. RepeaterClosedIsCancelled'
  <2>1. \A sid : IsOpen(sid) => IsOpen(sid)'
    BY <1>4 DEF IsOpen
  <2> QED BY <1>1, <2>1 DEF RepeaterClosedIsCancelled, RepeaterInv
<1>13. RepFile' /\ RepeaterSaved'
  BY <1>1, <1>8 DEF RepFile, RepeaterSaved, RepeaterInv, Persisted
<1> QED BY <1>9, <1>10, <1>11, <1>12, <1>13 DEF RepeaterInv

(* Calling a CancelFn changes the flags of the calls and nothing else.        *)
LEMMA CancelOne ==
  ASSUME FlightOK(inFlight), NEW c
  PROVE  LET F == Cancelled(c) IN
         /\ FlightOK(F)
         /\ \A q \in F : \E r \in inFlight : q.sid = r.sid /\ q.call = r.call
                                             /\ (q.cancelled <=> (r.cancelled \/ r.call = c))
         /\ \A s : InStep(s, inFlight) => InStep(s, F)
<1> DEFINE F == Cancelled(c)
           mark(r) == [r EXCEPT !.cancelled = @ \/ r.call = c]
<1>1. \A r \in inFlight : /\ mark(r) \in [call : 1..sends, sid : Nat, cancelled : BOOLEAN]
                          /\ mark(r).call = r.call /\ mark(r).sid = r.sid
                          /\ (mark(r).cancelled <=> (r.cancelled \/ r.call = c))
  <2> TAKE r \in inFlight
  <2>1. r \in [call : 1..sends, sid : Nat, cancelled : BOOLEAN]
    BY DEF FlightOK
  <2>2. (r.cancelled \/ r.call = c) \in BOOLEAN
    OBVIOUS
  <2> QED BY <2>1, <2>2
<1>2. F = {mark(r) : r \in inFlight}
  BY DEF Cancelled
<1> HIDE DEF F, mark
<1>3. \A q \in F : \E r \in inFlight : q = mark(r)
  BY <1>2
<1>4. \A r \in inFlight : mark(r) \in F
  BY <1>2
<1>5. FlightOK(F)
  BY <1>1, <1>3 DEF FlightOK
<1>6. ASSUME NEW s, InStep(s, inFlight) PROVE InStep(s, F)
  <2>1. CASE s.sending
    <3>1. PICK r \in inFlight : {q \in inFlight : q.sid = s.id} = {r} /\ s.cancel = r.call
      BY <1>6, <2>1 DEF InStep
    <3>2. {q \in F : q.sid = s.id} = {mark(r)}
      BY <1>1, <1>3, <1>4, <3>1
    <3> QED BY <1>1, <2>1, <3>1, <3>2 DEF InStep
  <2>2. CASE ~s.sending
    <3>1. {q \in inFlight : q.sid = s.id} = {}
      BY <1>6, <2>2 DEF InStep
    <3>2. {q \in F : q.sid = s.id} = {}
      BY <1>1, <1>3, <3>1
    <3> QED BY <1>6, <2>2, <3>2 DEF InStep
  <2> QED BY <2>1, <2>2
<1>7. \A q \in F : \E r \in inFlight : q.sid = r.sid /\ q.call = r.call
                                       /\ (q.cancelled <=> (r.cancelled \/ r.call = c))
  BY <1>1, <1>3
<1> QED BY <1>5, <1>6, <1>7 DEF F

LEMMA LeaveStep == ASSUME RepeaterInv, Leave PROVE RepeaterInv'
<1>1. /\ sessions' = sessions /\ inFlight' = Cancelled(ui.cancel) /\ screen' = "list" /\ dirty' = TRUE
      /\ UNCHANGED <<activeTab, ui, nextID, sends, saved, starts>>
  BY Synced DEF Leave, RepeaterInv
<1>2. /\ FlightOK(inFlight)'
      /\ \A q \in inFlight' : \E r \in inFlight : q.sid = r.sid /\ q.call = r.call
                                                 /\ (r.cancelled => q.cancelled)
      /\ \A s : InStep(s, inFlight) => InStep(s, inFlight')
  <2>1. FlightOK(Cancelled(ui.cancel))
    BY CancelOne DEF RepeaterInv
  <2>2. FlightOK(inFlight')
    BY <1>1, <2>1
  <2> QED BY <1>1, <2>2, CancelOne DEF RepeaterInv, FlightOK
<1>3. RepTypes' /\ RepFile' /\ RepeaterSaved'
  BY <1>1 DEF RepeaterInv, RepTypes, RepFile, RepeaterSaved, TabsOK, Fields, Persisted
<1>4. RepSending'
  BY <1>1, <1>2 DEF RepeaterInv, RepSending
<1>5. RepeaterClosedIsCancelled'
  BY <1>1, <1>2 DEF RepeaterInv, RepeaterClosedIsCancelled, IsOpen
<1> QED BY <1>2, <1>3, <1>4, <1>5 DEF RepeaterInv

LEMMA Removed ==
  ASSUME NEW ss, NEW n, TabsOK(ss, n), NEW k \in DOMAIN ss
  PROVE  LET tt == RemoveAt(ss, k) IN
         /\ TabsOK(tt, n) /\ Len(tt) = Len(ss) - 1
         /\ \A i \in DOMAIN tt : \E j \in DOMAIN ss : tt[i] = ss[j]
         /\ \A j \in DOMAIN ss : j # k => \E i \in DOMAIN tt : tt[i] = ss[j]
<1> DEFINE tt == RemoveAt(ss, k)
           back == SubSeq(ss, 1, k - 1)
           rest == SubSeq(ss, k + 1, Len(ss))
           from(i) == IF i < k THEN i ELSE i + 1
<1>1. ss \in Seq(Tab) /\ Len(ss) \in Nat /\ k \in 1..Len(ss) /\ DOMAIN ss = 1..Len(ss)
  BY DEF TabsOK
<1>2. back \in Seq(Tab) /\ Len(back) = k - 1 /\ \A i \in 1..(k - 1) : back[i] = ss[i]
  BY <1>1, SubSeqProperties
<1>3. rest \in Seq(Tab) /\ Len(rest) = Len(ss) - k /\ \A i \in 1..(Len(ss) - k) : rest[i] = ss[k + i]
  <2>1. /\ rest \in Seq(Tab) /\ Len(rest) = Len(ss) - k
        /\ \A i \in 1..Len(rest) : rest[i] = ss[k + 1 + i - 1]
    BY <1>1, SubSeqProperties
  <2>2. \A i \in 1..(Len(ss) - k) : k + 1 + i - 1 = k + i
    BY <1>1
  <2> HIDE DEF rest
  <2> QED BY <2>1, <2>2
<1>4. tt = back \o rest
  BY DEF RemoveAt
<1> HIDE DEF tt, back, rest
<1>5. tt \in Seq(Tab) /\ Len(tt) = Len(ss) - 1
  <2>1. tt \in Seq(Tab) /\ Len(tt) = Len(back) + Len(rest)
    BY <1>2, <1>3, <1>4, ConcatProperties
  <2> QED BY <1>1, <1>2, <1>3, <2>1
<1>6. \A i \in 1..(Len(ss) - 1) : tt[i] = ss[from(i)] /\ from(i) \in DOMAIN ss
  <2> TAKE i \in 1..(Len(ss) - 1)
  <2>1. CASE i < k
    BY <1>1, <1>2, <1>3, <1>4, <2>1
  <2>2. CASE ~(i < k)
    <3> DEFINE e == i - (k - 1)
    <3>1. e \in 1..(Len(ss) - k) /\ k + e = i + 1 /\ i + 1 \in DOMAIN ss
      BY <1>1, <2>2
    <3>2. tt[i] = rest[e]
      BY <1>1, <1>2, <1>3, <1>4, <2>2, SMTT(30)
    <3> HIDE DEF e
    <3>3. rest[e] = ss[i + 1]
      BY <1>3, <3>1
    <3> QED BY <2>2, <3>1, <3>2, <3>3
  <2> QED BY <2>1, <2>2
<1>7. DOMAIN tt = 1..(Len(ss) - 1)
  BY <1>1, <1>5
<1>8. \A i, j \in DOMAIN tt : from(i) = from(j) => i = j
  BY <1>1, <1>7
<1>9. \A j \in DOMAIN ss : j # k => \E i \in DOMAIN tt : from(i) = j
  <2> TAKE j \in DOMAIN ss
  <2>1. j < k => j \in DOMAIN tt /\ from(j) = j
    BY <1>1, <1>7
  <2>2. j > k => j - 1 \in DOMAIN tt /\ from(j - 1) = j
    BY <1>1, <1>7
  <2> HIDE DEF from
  <2> QED BY <1>1, <2>1, <2>2
<1>10. Len(tt) <= MaxSessions
  BY <1>1, <1>5, RepeaterAssumption DEF TabsOK
<1> HIDE DEF from
<1>11. TabsOK(tt, n)
  <2>1. \A i \in DOMAIN tt : TabOK(tt[i], n)
    BY <1>6, <1>7 DEF TabsOK
  <2>2. \A i, j \in DOMAIN tt : tt[i].id = tt[j].id => from(i) = from(j)
    BY <1>6, <1>7 DEF TabsOK
  <2>3. \A i, j \in DOMAIN tt : tt[i].id = tt[j].id => i = j
    BY <1>8, <2>2
  <2> QED BY <1>5, <1>10, <2>1, <2>3 DEF TabsOK
<1>12. \A j \in DOMAIN ss : j # k => \E i \in DOMAIN tt : tt[i] = ss[j]
  BY <1>6, <1>7, <1>9
<1> QED BY <1>5, <1>6, <1>7, <1>11, <1>12 DEF tt

LEMMA CloseStep == ASSUME RepeaterInv, closeActiveRepeaterSession PROVE RepeaterInv'
<1> DEFINE k == activeTab + 1
           c == sessions[k].cancel
           ss == RemoveAt(sessions, k)
           to == Smaller(activeTab, Len(ss) - 1)
<1>1. /\ inFlight' = Cancelled(c) /\ sessions' = ss
      /\ UNCHANGED <<nextID, sends, saved, starts>>
      /\ \/ ss = <<>> /\ activeTab' = 0 /\ ui' = Empty /\ screen' = "list" /\ dirty' = dirty
         \/ ss # <<>> /\ activeTab' = to /\ ui' = Fields(ss[to + 1]) /\ dirty' = TRUE /\ screen' = screen
  BY DEF closeActiveRepeaterSession, loadRepeaterSessionIntoUI
<1>2. k \in DOMAIN sessions /\ TabsOK(sessions, nextID) /\ activeTab \in Nat /\ InStep(sessions[k], inFlight)
  BY DEF RepeaterInv, RepTypes, RepSending, TabsOK, closeActiveRepeaterSession, InRepeater
<1> HIDE DEF k
<1>3. /\ TabsOK(ss, nextID) /\ Len(ss) = Len(sessions) - 1
      /\ \A i \in DOMAIN ss : \E j \in DOMAIN sessions : ss[i] = sessions[j]
      /\ \A j \in DOMAIN sessions : j # k => \E i \in DOMAIN ss : ss[i] = sessions[j]
  BY <1>2, Removed
<1> HIDE DEF ss
<1>4. /\ FlightOK(inFlight)'
      /\ \A q \in inFlight' : \E r \in inFlight : q.sid = r.sid /\ q.call = r.call
                                                 /\ (q.cancelled <=> (r.cancelled \/ r.call = c))
      /\ \A s : InStep(s, inFlight) => InStep(s, inFlight')
  <2>1. FlightOK(Cancelled(c))
    BY CancelOne DEF RepeaterInv
  <2>2. FlightOK(inFlight')
    BY <1>1, <2>1
  <2> HIDE DEF c
  <2> QED BY <1>1, <2>2, CancelOne DEF RepeaterInv, FlightOK
<1>5. RepTypes'
  <2>1. TabsOK(sessions', nextID')
    BY <1>1, <1>3
  <2>2. ss # <<>> => to \in 0..(Len(ss) - 1)
    BY <1>2, <1>3 DEF Smaller, TabsOK
  <2> HIDE DEF to
  <2>3. screen' \in {"list", "repeater"} /\ dirty' \in BOOLEAN
    BY <1>1 DEF RepeaterInv, RepTypes
  <2>4. sends' \in Nat /\ nextID' \in Nat \ {0}
    BY <1>1 DEF RepeaterInv, RepTypes
  <2>5. /\ sessions' = <<>> => ui' = Empty /\ activeTab' = 0
        /\ sessions' # <<>> => activeTab' \in 0..(Len(sessions') - 1) /\ ui' = Fields(sessions'[activeTab' + 1])
    BY <1>1, <2>2
  <2> QED BY <2>1, <2>3, <2>4, <2>5 DEF RepTypes, Fields, Empty
<1>6. RepSending'
  BY <1>1, <1>3, <1>4 DEF RepSending, RepeaterInv
<1>7. RepeaterClosedIsCancelled'
  <2> SUFFICES ASSUME NEW q \in inFlight', ~(\E i \in DOMAIN ss : ss[i].id = q.sid)
               PROVE  q.cancelled
    BY <1>1 DEF RepeaterClosedIsCancelled, IsOpen
  <2>1. PICK r \in inFlight : q.sid = r.sid /\ q.call = r.call
                              /\ (q.cancelled <=> (r.cancelled \/ r.call = c))
    BY <1>4
  <2>2. CASE r.sid = sessions[k].id
    <3>1. r.call = c
      BY <1>2, <2>2 DEF InStep
    <3> QED BY <2>1, <3>1
  <2>3. CASE r.sid # sessions[k].id
    <3>1. ~IsOpen(r.sid)
      BY <1>3, <2>1, <2>3 DEF IsOpen
    <3>2. r.cancelled
      BY <3>1 DEF RepeaterInv, RepeaterClosedIsCancelled
    <3> QED BY <2>1, <3>2
  <2> QED BY <2>2, <2>3
<1>8. RepFile'
  BY <1>1 DEF RepeaterInv, RepFile, TabsOK, Persisted
<1>9. RepeaterSaved'
  BY <1>1 DEF RepeaterSaved
<1> QED BY <1>4, <1>5, <1>6, <1>7, <1>8, <1>9 DEF RepeaterInv

(* What the side file gets: the tabs as they are, without their calls.        *)
LEMMA FileOf ==
  ASSUME RepeaterInv
  PROVE  LET file == buildPersistedUIState IN
         /\ TabsOK(file.tabs, nextID)
         /\ \A i \in DOMAIN file.tabs : Persisted(file.tabs[i]) = file.tabs[i]
         /\ file.active = activeTab /\ file.active \in Nat /\ file = [tabs |-> file.tabs, active |-> file.active]
         /\ file.tabs # <<>> => file.active < Len(file.tabs)
         /\ file = [tabs |-> [i \in DOMAIN sessions |-> Persisted(sessions[i])], active |-> activeTab]
<1> DEFINE tt == [i \in DOMAIN sessions |-> Persisted(sessions[i])]
<1>1. buildPersistedUIState = [tabs |-> tt, active |-> activeTab]
  BY Synced DEF buildPersistedUIState, RepeaterInv
<1>2. TabsOK(sessions, nextID)
  BY DEF RepeaterInv, RepTypes
<1>3. \A s \in Tab : /\ Persisted(s) \in Tab /\ Persisted(s).id = s.id /\ Persisted(Persisted(s)) = Persisted(s)
                     /\ Persisted(s).hist = s.hist /\ Persisted(s).hidx = s.hidx
  BY DEF Persisted, Tab, NoCancel
<1>4. \A i \in DOMAIN sessions : sessions[i] \in Tab
  BY <1>2 DEF TabsOK
<1>5. tt \in Seq(Tab) /\ Len(tt) = Len(sessions) /\ DOMAIN tt = DOMAIN sessions
  <2>1. Len(sessions) \in Nat /\ DOMAIN sessions = 1..Len(sessions)
    BY <1>2 DEF TabsOK
  <2>2. tt \in [1..Len(sessions) -> Tab]
    BY <1>3, <1>4, <2>1
  <2> HIDE DEF tt
  <2> QED BY <2>1, <2>2, IsASeq, LenProperties
<1>6. \A i \in DOMAIN sessions : tt[i] = Persisted(sessions[i])
  OBVIOUS
<1> HIDE DEF tt
<1>7. TabsOK(tt, nextID)
  <2>1. \A i \in DOMAIN tt : TabOK(tt[i], nextID)
    BY <1>2, <1>3, <1>4, <1>5, <1>6 DEF TabsOK, TabOK
  <2> QED BY <1>2, <1>3, <1>4, <1>5, <1>6, <2>1 DEF TabsOK
<1>8. \A i \in DOMAIN tt : Persisted(tt[i]) = tt[i]
  BY <1>3, <1>4, <1>5, <1>6
<1>9. activeTab \in Nat /\ (tt # <<>> => activeTab < Len(tt))
  BY <1>2, <1>5 DEF RepeaterInv, RepTypes, TabsOK
<1>10. /\ buildPersistedUIState.tabs = tt /\ buildPersistedUIState.active = activeTab
       /\ buildPersistedUIState = [tabs |-> tt, active |-> activeTab]
  BY <1>1
<1> QED BY <1>7, <1>8, <1>9, <1>10 DEF tt

LEMMA FlushStep == ASSUME RepeaterInv, Flush PROVE RepeaterInv'
<1> DEFINE file == buildPersistedUIState
<1>1. /\ saved' = file /\ sessions' = sessions /\ dirty' = FALSE
      /\ UNCHANGED <<screen, activeTab, ui, nextID, inFlight, sends, starts>>
  BY Synced DEF Flush, RepeaterInv
<1>2. /\ TabsOK(file.tabs, nextID)
      /\ \A i \in DOMAIN file.tabs : Persisted(file.tabs[i]) = file.tabs[i]
      /\ file.active \in Nat /\ file = [tabs |-> file.tabs, active |-> file.active]
      /\ file.tabs # <<>> => file.active < Len(file.tabs)
      /\ file = [tabs |-> [i \in DOMAIN sessions |-> Persisted(sessions[i])], active |-> activeTab]
  BY FileOf
<1> HIDE DEF file
<1>3. RepFile'
  <2>1. TabsOK(saved'.tabs, nextID')
    BY <1>1, <1>2
  <2> QED BY <1>1, <1>2, <2>1 DEF RepFile, TabsOK, Persisted
<1>4. RepeaterSaved'
  BY <1>1, <1>2 DEF RepeaterSaved, Persisted
<1>5. RepTypes'
  BY <1>1 DEF RepeaterInv, RepTypes, TabsOK, Fields
<1> QED BY <1>1, <1>3, <1>4, <1>5, TabsRest DEF RepeaterInv

(* A start takes the tabs of the file over; no call survives it.              *)
LEMMA RestartStep == ASSUME RepeaterInv, NEW clean \in BOOLEAN, Restart(clean) PROVE RepeaterInv'
<1> DEFINE file == IF clean THEN buildPersistedUIState ELSE saved
           to == Smaller(file.active, Len(file.tabs) - 1)
<1>1. /\ saved' = file /\ nextID' = NextAfter(file.tabs)
      /\ \/ file.tabs = <<>> /\ sessions' = <<>> /\ activeTab' = 0 /\ ui' = Empty
         \/ /\ file.tabs # <<>> /\ sessions' = file.tabs /\ activeTab' = to
            /\ ui' = Fields(file.tabs[to + 1])
      /\ screen' = "list" /\ inFlight' = {} /\ dirty' = FALSE /\ sends' = sends
  BY DEF Restart, loadRepeaterSessionIntoUI
<1>2. /\ TabsOK(file.tabs, nextID)
      /\ \A i \in DOMAIN file.tabs : Persisted(file.tabs[i]) = file.tabs[i]
      /\ file.active \in Nat /\ file = [tabs |-> file.tabs, active |-> file.active]
      /\ file.tabs # <<>> => file.active < Len(file.tabs)
  BY FileOf DEF RepeaterInv, RepFile
<1> HIDE DEF file
<1>3. nextID' \in Nat \ {0} /\ TabsOK(file.tabs, nextID')
  BY <1>1, <1>2, NextIsFree DEF RepeaterInv, RepTypes
<1>4. sessions' = file.tabs
  BY <1>1
<1>5. \A i \in DOMAIN file.tabs : ~file.tabs[i].sending /\ file.tabs[i].cancel = NoCancel
  <2> TAKE i \in DOMAIN file.tabs
  <2>1. file.tabs[i] \in Tab
    BY <1>2 DEF TabsOK
  <2> QED BY <1>2, <2>1 DEF Tab, Persisted
<1>6. file.tabs # <<>> => to = file.active /\ to \in 0..(Len(file.tabs) - 1)
  BY <1>2 DEF Smaller, TabsOK
<1> HIDE DEF to
<1>7. RepTypes'
  <2>1. screen' \in {"list", "repeater"} /\ dirty' \in BOOLEAN
    BY <1>1
  <2>2. sends' \in Nat
    BY <1>1 DEF RepeaterInv, RepTypes
  <2>3. TabsOK(sessions', nextID')
    BY <1>3, <1>4
  <2>4. /\ sessions' = <<>> => ui' = Empty /\ activeTab' = 0
        /\ sessions' # <<>> => activeTab' \in 0..(Len(sessions') - 1) /\ ui' = Fields(sessions'[activeTab' + 1])
    BY <1>1, <1>4, <1>6
  <2> QED BY <1>3, <2>1, <2>2, <2>3, <2>4 DEF RepTypes, Fields, Empty
<1>8. FlightOK(inFlight)' /\ RepSending' /\ RepeaterClosedIsCancelled'
  BY <1>1, <1>4, <1>5 DEF FlightOK, RepSending, InStep, RepeaterClosedIsCancelled
<1>9. RepFile'
  BY <1>1, <1>2, <1>3 DEF RepFile, TabsOK, Persisted
<1>10. RepeaterSaved'
  <2> SUFFICES ASSUME sessions' # <<>>
               PROVE  saved' = [tabs |-> [i \in DOMAIN sessions' |-> Persisted(sessions'[i])],
                                active |-> activeTab']
    BY DEF RepeaterSaved, Persisted
  <2>1. file.tabs \in Seq(Tab)
    BY <1>2 DEF TabsOK
  <2>2. [i \in DOMAIN file.tabs |-> Persisted(file.tabs[i])] = file.tabs
    BY <1>2, <2>1
  <2> QED BY <1>1, <1>2, <1>4, <1>6, <2>2
<1> QED BY <1>7, <1>8, <1>9, <1>10 DEF RepeaterInv

LEMMA RepeaterInvStep == RepeaterInv /\ [RepeaterNext]_repeaterVars => RepeaterInv'
<1> SUFFICES ASSUME RepeaterInv, [RepeaterNext]_repeaterVars PROVE RepeaterInv'
  OBVIOUS
<1>1. ASSUME NEW req \in Found, openRepeaterSession(req) PROVE RepeaterInv'
  BY <1>1, OpenStep
<1>2. ASSUME NEW req \in Requests, Edit(req) PROVE RepeaterInv'
  BY <1>2, EditStep
<1>3. ASSUME NEW delta \in {-1, 1}, WalkHistory(delta) \/ cycleRepeaterSession(delta) PROVE RepeaterInv'
  BY <1>3, WalkStep, CycleStep
<1>4. CASE Send \/ closeActiveRepeaterSession \/ Leave \/ Flush
  BY <1>4, SendStep, CloseStep, LeaveStep, FlushStep
<1>5. ASSUME NEW r \in inFlight, NEW ok \in BOOLEAN, RepeaterResultMsg(r, ok) PROVE RepeaterInv'
  BY <1>5, ResultStep
<1>6. ASSUME NEW clean \in BOOLEAN, Restart(clean) PROVE RepeaterInv'
  BY <1>6, RestartStep
<1>7. CASE UNCHANGED repeaterVars
  BY <1>7, TabsRest DEF repeaterVars, RepeaterInv, RepTypes, RepFile, RepeaterSaved, TabsOK, Fields, Persisted
<1> QED BY <1>1, <1>2, <1>3, <1>4, <1>5, <1>6, <1>7 DEF RepeaterNext

LEMMA RepeaterInvImpliesSound == RepeaterInv => RepeaterSound
<1> SUFFICES ASSUME RepeaterInv PROVE RepeaterSound
  OBVIOUS
<1> USE DEF RepeaterInv
<1>1. TabsOK(sessions, nextID)
  BY DEF RepTypes
<1>2. RepeaterTypeOK
  <2>1. activeTab \in 0..(MaxSessions - 1) /\ Len(sessions) <= MaxSessions
    BY <1>1, RepeaterAssumption DEF RepTypes, TabsOK
  <2>2. ui.req \in Requests \cup {NoRequest}
    <3>1. CASE sessions = <<>>
      BY <3>1 DEF RepTypes, Empty
    <3>2. CASE sessions # <<>>
      <4>1. ui.req = sessions[activeTab + 1].req /\ sessions[activeTab + 1] \in Tab
        BY <1>1, <3>2, FieldsAre DEF RepTypes, TabsOK
      <4> QED BY <4>1 DEF Tab
    <3> QED BY <3>1, <3>2
  <2>3. \A r \in inFlight : r.call \in 1..sends /\ r.cancelled \in BOOLEAN
    BY DEF FlightOK
  <2> QED BY <2>1, <2>2, <2>3 DEF RepeaterTypeOK, RepTypes
<1>3. RepeaterScreenIsTab
  BY <1>1 DEF RepeaterScreenIsTab, RepTypes, TabsOK
<1>4. RepeaterSendingIsRunning
  BY DEF RepeaterSendingIsRunning, RepSending, InStep
<1>5. RepeaterHistoryInRange
  BY <1>1 DEF RepeaterHistoryInRange, TabsOK, TabOK, Tab
<1> QED BY <1>2, <1>3, <1>4, <1>5 DEF RepeaterSound

THEOREM RepeaterInvariant == RepeaterSafety => []RepeaterInv
  BY RepeaterInvInit, RepeaterInvStep, PTL DEF RepeaterSafety

(* A tab says it is sending exactly while its request runs, a closed tab's
   request is cancelled, and screen, history and side file are the tab's.     *)
THEOREM RepeaterIsSound == RepeaterSafety => []RepeaterSound
  BY RepeaterInvariant, RepeaterInvImpliesSound, PTL

-----------------------------------------------------------------------------
(* Keys and commands.                                                         *)

ScreenSafety == ScreenInit /\ [][ScreenNext]_screenVars

Scr(s) ==
    /\ DOMAIN s = {"view", "previous", "logs", "command", "suggestions", "chosen", "history",
                   "recalled", "reference", "current", "quitting"}
    /\ s.view \in Views /\ s.previous \in Views
    /\ s.suggestions \in Nat /\ s.chosen \in Nat /\ s.history \in 0..MaxCommands /\ s.recalled \in Nat

(* What every screen has in common, the views it can go back to included.     *)
ScrOK(s) ==
    /\ Scr(s)
    /\ s.suggestions > 0 => s.chosen < s.suggestions
    /\ s.recalled <= s.history
    /\ "diff" \in {s.view, s.previous} => s.reference /\ s.current
Modal(s) == s.command <=> s.view = "command"

ScreenInv ==
    /\ ScrOK(scr) /\ Modal(scr)
    /\ scanned \in {"old", "new"} /\ pendingTarget \in BOOLEAN
    /\ snapshot = config /\ DOMAIN config = Settings
    /\ scr.previous = "command" => scr.view \notin {"graph", "logs"}

-----------------------------------------------------------------------------
(* A key keeps the flag of the command line and its view together.            *)
LEMMA PressKeeps ==
  ASSUME NEW s, ScrOK(s), Modal(s), NEW key \in KeySet, NEW hit \in BOOLEAN,
         s.previous = "command" => s.view \notin {"graph", "logs"}
  PROVE  LET t == Press(s, key, hit) IN
         ScrOK(t) /\ Modal(t) /\ (t.previous = "command" => t.view \notin {"graph", "logs"})
<1> DEFINE Keeps(t) == ScrOK(t) /\ Modal(t) /\ (t.previous = "command" => t.view \notin {"graph", "logs"})
<1> USE DEF ScrOK, Modal, Scr, Views
<1>1. Keeps(KeyEsc(s))
  BY SMTT(10) DEF KeyEsc, Pages
<1>2. Keeps(KeyEnter(s, hit))
  BY DEF KeyEnter
<1>3. Keeps(KeyQ(s))
  BY DEF KeyQ, Pages
<1>4. Keeps(KeyColon(s))
  BY SMTT(10) DEF KeyColon
<1>5. Keeps(toggleDashboardView(s)) \/ s.command
  BY DEF toggleDashboardView
<1>6. Keeps(cycleMetricsView(s)) \/ s.command
  BY <1>5, SMTT(10) DEF cycleMetricsView
<1>7. Keeps(toggleLogsPanel(s)) \/ s.command
  BY SMTT(10) DEF toggleLogsPanel
<1>8. Keeps(toggleGraphView(s)) \/ s.command
  BY DEF toggleGraphView
<1>9. Keeps(openHexView(s, hit)) /\ Keeps(saveDiffReference(s, hit))
  BY SMTT(10) DEF openHexView, saveDiffReference, OnHit
<1>10. \A b \in BOOLEAN : Keeps(openDiffView(s, hit, b))
  BY DEF openDiffView, OnHit
<1>11. Keeps(openRepeater(s, hit))
  BY DEF openRepeater
<1>12. Keeps(s)
  OBVIOUS
<1> HIDE DEF Keeps, ScrOK, Modal, Scr, Views
<1>13. Keeps(Press(s, key, hit))
  <2>1. CASE key = "esc"
    BY <1>1, <2>1 DEF Press
  <2>2. CASE key # "esc" /\ (s.command \/ s.view = "repeater")
    BY <1>12, <2>2 DEF Press
  <2>3. CASE ~s.command /\ s.view # "repeater" /\ key = "enter"
    BY <1>2, <2>3 DEF Press
  <2>4. CASE ~s.command /\ s.view # "repeater" /\ key \in {"q", ":", "m", "L", "g"}
    BY <1>3, <1>4, <1>6, <1>7, <1>8, <2>4 DEF Press
  <2>5. CASE ~s.command /\ s.view # "repeater" /\ key \in {"h", "R", "d", "D", "r"}
    BY <1>9, <1>10, <1>11, <2>5 DEF Press
  <2> QED BY <2>1, <2>2, <2>3, <2>4, <2>5 DEF KeySet
<1> QED BY <1>13 DEF Keeps

(* A command leaves its own view behind and the command line open.            *)
LEMMA CommandKeeps ==
  ASSUME NEW s, ScrOK(s), s.history < MaxCommands
  PROVE  LET t == AfterCommand(s) IN ScrOK(t) /\ Modal(t) /\ t.view = "command"
<1> USE DEF ScrOK, Scr, Views, Modal
<1>1. s.history + 1 \in 0..MaxCommands
  BY ScreenAssumption
<1> QED BY <1>1 DEF AfterCommand

LEMMA ExecuteKeeps ==
  ASSUME ScreenInv, NEW s, ScrOK(s), s.history = scr.history, executeCommand(s)
  PROVE  ScrOK(scr') /\ Modal(scr)' /\ scr'.view = "command"
<1>1. s.history < MaxCommands /\ scr' = AfterCommand(s)
  BY DEF executeCommand
<1> QED BY <1>1, CommandKeeps DEF Modal

LEMMA ScreenInvInit == ScreenInit => ScreenInv
<1> SUFFICES ASSUME ScreenInit PROVE ScreenInv
  OBVIOUS
<1>1. ScrOK(scr) /\ Modal(scr) /\ scr.previous # "command"
  BY ScreenAssumption DEF ScreenInit, ScrOK, Scr, Views, Modal
<1>2. pendingTarget \in BOOLEAN
  BY DEF ScreenInit
<1> QED BY <1>1, <1>2 DEF ScreenInit, ScreenInv

(* The index of a suggestion goes round among them.                          *)
LEMMA ArrowKeeps ==
  ASSUME NEW s, ScrOK(s), NEW t \in {Forward(s), Backward(s)}
  PROVE  ScrOK(t) /\ t.view = s.view /\ t.previous = s.previous /\ t.command = s.command
<1> USE DEF ScrOK, Scr
<1>1. CASE s.suggestions > 0
  <2>1. /\ (s.chosen + 1) % s.suggestions \in 0..(s.suggestions - 1)
        /\ (s.chosen + s.suggestions - 1) % s.suggestions \in 0..(s.suggestions - 1)
    BY <1>1
  <2>2. \E n \in 0..(s.suggestions - 1) : t = [s EXCEPT !.chosen = n]
    BY <1>1, <2>1 DEF Forward, Backward
  <2>3. PICK n \in 0..(s.suggestions - 1) : t = [s EXCEPT !.chosen = n]
    BY <2>2
  <2> QED BY <2>3
<1>2. CASE ~(s.suggestions > 0)
  <2>1. t = s \/ (s.recalled < s.history - 1 /\ t = [s EXCEPT !.recalled = s.recalled + 1])
              \/ (s.recalled > 0 /\ t = [s EXCEPT !.recalled = s.recalled - 1])
    BY <1>2 DEF Forward, Backward
  <2> QED BY <1>2, <2>1
<1> QED BY <1>1, <1>2

LEMMA ScreenInvStep == ScreenInv /\ [ScreenNext]_screenVars => ScreenInv'
<1> SUFFICES ASSUME ScreenInv, [ScreenNext]_screenVars PROVE ScreenInv'
  OBVIOUS
<1>0. ScrOK(scr) /\ Modal(scr) /\ scr.view \in Views
  BY DEF ScreenInv, ScrOK, Scr
<1>1. ASSUME NEW key \in KeySet, NEW hit \in BOOLEAN, Key(key, hit) PROVE ScreenInv'
  <2>1. ScrOK(scr') /\ Modal(scr') /\ (scr'.previous = "command" => scr'.view \notin {"graph", "logs"})
    BY <1>1, PressKeeps DEF Key, ScreenInv
  <2> QED BY <1>1, <2>1 DEF Key, ScreenInv, ScrOK, Scr, Modal
<1>2. ASSUME NEW n \in 0..MaxSuggestions, updateSuggestions(n) PROVE ScreenInv'
  <2>1. scr' = [scr EXCEPT !.suggestions = n, !.chosen = IF n = 0 THEN scr.chosen ELSE 0]
    BY <1>2 DEF updateSuggestions
  <2>2. ScrOK(scr') /\ Modal(scr') /\ (scr'.previous = "command" => scr'.view \notin {"graph", "logs"})
    BY <2>1, ScreenAssumption DEF ScreenInv, ScrOK, Scr, Modal
  <2> QED BY <1>2, <2>2 DEF updateSuggestions, ScreenInv, ScrOK, Scr, Modal
<1>3. CASE Arrow
  <2>1. ScrOK(scr') /\ scr'.view = scr.view /\ scr'.previous = scr.previous /\ scr'.command = scr.command
    BY <1>0, <1>3, ArrowKeeps DEF Arrow
  <2> QED BY <1>3, <2>1 DEF Arrow, ScreenInv, ScrOK, Scr, Modal
<1>4. ASSUME NEW s, ScrOK(s), s.history = scr.history, executeCommand(s),
             scanned' \in {"old", "new"}, pendingTarget' \in BOOLEAN, snapshot' = config',
             DOMAIN config' = Settings
      PROVE  ScreenInv'
  <2>1. ScrOK(scr') /\ Modal(scr)' /\ scr'.view = "command"
    BY <1>4, ExecuteKeeps
  <2>2. ScrOK(scr)'
    BY <2>1 DEF ScrOK, Scr
  <2> QED BY <1>4, <2>1, <2>2 DEF ScreenInv
<1>5. scanned \in {"old", "new"} /\ pendingTarget \in BOOLEAN /\ snapshot = config /\ DOMAIN config = Settings
  BY DEF ScreenInv
<1>6. CASE ViewCommand
  <2>1. ScrOK(toggleDashboardView(scr)) /\ toggleDashboardView(scr).history = scr.history
    BY <1>0, <1>6 DEF ViewCommand, executeCommand, toggleDashboardView, ScrOK, Scr, Modal, Views
  <2>2. /\ scr.command => ScrOK(SearchCommand(scr))
        /\ SearchCommand(scr).history = scr.history
    BY <1>0 DEF SearchCommand, toggleLogsPanel, ScrOK, Scr, Modal, Views
  <2> QED BY <1>4, <1>5, <1>6, <2>1, <2>2 DEF ViewCommand, executeCommand
<1>7. ASSUME NEW x \in Settings, SettingCommand(x) PROVE ScreenInv'
  <2>1. DOMAIN config' = Settings /\ snapshot' = config'
    BY <1>5, <1>7 DEF SettingCommand
  <2> QED BY <1>0, <1>4, <1>5, <1>7, <2>1 DEF SettingCommand
<1>8. CASE RefusedCommand
  BY <1>0, <1>4, <1>5, <1>8 DEF RefusedCommand
<1>9. CASE QueueTarget
  BY <1>0, <1>4, <1>5, <1>9 DEF QueueTarget
<1>10. ASSUME NEW accepted \in BOOLEAN, RestartScan(accepted) PROVE ScreenInv'
  <2>1. scanned' \in {"old", "new"} /\ pendingTarget' \in BOOLEAN
    BY <1>5, <1>10 DEF RestartScan
  <2> QED BY <1>0, <1>4, <1>5, <1>10, <2>1 DEF RestartScan
<1>11. CASE UNCHANGED screenVars
  BY <1>11 DEF screenVars, ScreenInv, ScrOK, Scr, Modal
<1> QED BY <1>1, <1>2, <1>3, <1>6, <1>7, <1>8, <1>9, <1>10, <1>11 DEF ScreenNext

(* From every view one key or two lead to the list.                          *)
LEMMA WayHome == ASSUME NEW s, ScrOK(s), Modal(s)
  PROVE  \E first, second \in KeySet :
            LET once == Press(s, first, FALSE)
                twice == Press(once, second, FALSE)
            IN  \/ s.quitting
                \/ ~once.quitting /\ once.view = "list"
                \/ ~once.quitting /\ ~twice.quitting /\ twice.view = "list"
<1> DEFINE Home(a, b) == LET once == Press(s, a, FALSE)
                             twice == Press(once, b, FALSE)
                         IN  \/ s.quitting
                             \/ ~once.quitting /\ once.view = "list"
                             \/ ~once.quitting /\ ~twice.quitting /\ twice.view = "list"
<1> USE DEF ScrOK, Modal, Scr, Views
<1>a. "esc" \in KeySet /\ "m" \in KeySet
  BY DEF KeySet
<1>1. CASE s.quitting
  BY <1>a, <1>1
<1>b. \A t : Press(t, "esc", FALSE) = KeyEsc(t)
  BY DEF Press
<1>2. CASE ~s.quitting /\ s.view \in Views \ {"logs", "graph"}
  <2>1. KeyEsc(s).view = "list" /\ ~KeyEsc(s).quitting
    BY <1>2 DEF KeyEsc, Pages
  <2>2. Home("esc", "esc")
    BY <1>b, <2>1
  <2> HIDE DEF Home
  <2>3. \E a, b \in KeySet : Home(a, b)
    BY <1>a, <2>2
  <2> QED BY <2>3 DEF Home
<1>3. CASE ~s.quitting /\ s.view \in {"logs", "graph"}
  <2>1. Press(s, "m", FALSE) = cycleMetricsView(s)
    BY <1>3 DEF Press
  <2>2. CASE s.view = "logs"
    <3>1. cycleMetricsView(s).view = "list" /\ ~cycleMetricsView(s).quitting
      BY <1>3, <2>2 DEF cycleMetricsView
    <3>2. Home("m", "m")
      BY <2>1, <3>1
    <3> HIDE DEF Home
    <3>3. \E a, b \in KeySet : Home(a, b)
      BY <1>a, <3>2
    <3> QED BY <3>3 DEF Home
  <2>3. CASE s.view = "graph"
    <3> DEFINE t == cycleMetricsView(s)
    <3>1. t.view = "dashboard" /\ ~t.quitting /\ ~t.command /\ DOMAIN t = DOMAIN s
      BY <1>3, <2>3 DEF cycleMetricsView, toggleDashboardView
    <3> HIDE DEF t
    <3>2. KeyEsc(t).view = "list" /\ ~KeyEsc(t).quitting
      BY <3>1 DEF KeyEsc, Pages
    <3>3. Home("m", "esc")
      BY <1>b, <2>1, <3>1, <3>2 DEF t
    <3> HIDE DEF Home
    <3>4. \E a, b \in KeySet : Home(a, b)
      BY <1>a, <3>3
    <3> QED BY <3>4 DEF Home
  <2> QED BY <1>3, <2>2, <2>3
<1> QED BY <1>1, <1>2, <1>3

LEMMA ScreenInvImpliesSound == ScreenInv => ScreenSound
<1> SUFFICES ASSUME ScreenInv PROVE ScreenSound
  OBVIOUS
<1> USE DEF ScreenInv
<1>1. ScreenTypeOK /\ ScreenCommandMode /\ ScreenSettingsSeen
  BY DEF ScreenTypeOK, ScreenCommandMode, ScreenSettingsSeen, ScrOK, Scr, Modal
<1>2. ScreenIndexSafe /\ ScreenDiffHasBoth
  BY DEF ScreenIndexSafe, ScreenDiffHasBoth, ScrOK, Scr
<1>3. ScreenWayHome
  BY WayHome DEF ScreenWayHome
<1> QED BY <1>1, <1>2, <1>3 DEF ScreenSound

THEOREM ScreenInvariant == ScreenSafety => []ScreenInv
  BY ScreenInvInit, ScreenInvStep, PTL DEF ScreenSafety

THEOREM ScreenIsSound == ScreenSafety => []ScreenSound
  BY ScreenInvariant, ScreenInvImpliesSound, PTL

-----------------------------------------------------------------------------
(* The log panel.                                                             *)

LogsSafety == LogsInit /\ [][LogsNext]_logVars

Entry == [n : Nat, level : Levels \cup {"none"}, found : BOOLEAN]
PanelOK(p) ==
    /\ DOMAIN p = {"filters", "search", "expanded", "sel", "scroll", "auto"}
    /\ p.filters \subseteq Levels /\ p.sel \in 0..LogCapacity /\ p.scroll \in 0..(2 * LogCapacity)
    /\ p.search \in BOOLEAN /\ p.expanded \in BOOLEAN /\ p.auto \in BOOLEAN

(* The place in the ring that is i after a.                                  *)
Slot(a, i) == (a + i) % LogCapacity

(* The ring has as many of the events as fit, the oldest of them at start,    *)
(* and only a full ring has moved its start.                                  *)
RingOK(r, es) ==
    /\ r \in [entries : [0..(LogCapacity - 1) -> Entry], start : 0..(LogCapacity - 1),
              size : 0..LogCapacity]
    /\ es \in Seq(Entry) /\ r.size = SmallerOf(Len(es), LogCapacity)
    /\ r.size < LogCapacity => r.start = 0
    /\ \A i \in 0..(r.size - 1) :
          r.entries[Slot(r.start, i)] = es[Len(es) - r.size + 1 + i]

(* The cache is right for every panel with its key.                          *)
CacheOK ==
    \A p : (~panelDirty /\ panelCache.key = CacheKey(p)) => panelCache.lines = Window(p)

LogsInv == RingOK(ring, logged) /\ PanelOK(panel) /\ panelDirty \in BOOLEAN /\ CacheOK /\ LogCursorShown

-----------------------------------------------------------------------------
LEMMA SlotOf ==
  ASSUME NEW a \in 0..(LogCapacity - 1), NEW i \in 0..LogCapacity
  PROVE  Slot(a, i) = IF a + i < LogCapacity THEN a + i ELSE a + i - LogCapacity
<1> DEFINE N == LogCapacity
           x == a + i
<1>1. N \in Nat \ {0} /\ x \in 0..(2 * N - 1)
  BY LogsAssumption
<1> HIDE DEF x, N
<1>2. x % N = IF x < N THEN x ELSE x - N
  <2>1. CASE x < N
    BY <1>1, <2>1
  <2>2. CASE ~(x < N)
    BY <1>1, <2>2
  <2> QED BY <2>1, <2>2
<1>3. Slot(a, i) = x % N
  BY DEF Slot, x, N
<1>4. Slot(a, i) = IF x < N THEN x ELSE x - N
  BY <1>2, <1>3
<1> QED BY <1>4, LogsAssumption DEF x, N

Places == 0..(LogCapacity - 1)
OnAfter(a, i, s) ==
    /\ s \in Places /\ Slot(s, i) \in Places
    /\ i = LogCapacity - 1 => Slot(s, i) = a
    /\ i # LogCapacity - 1 => Slot(s, i) = Slot(a, i + 1) /\ Slot(s, i) # a

LEMMA NextSlot ==
  ASSUME NEW a \in Places, NEW i \in Places, NEW s, s = Slot(a, 1)
  PROVE  OnAfter(a, i, s)
<1> DEFINE N == LogCapacity
<1>1. N \in Nat \ {0} /\ 1 \in 0..N /\ i \in 0..N /\ i + 1 \in 0..N
  BY LogsAssumption DEF Places
<1>2. s = IF a + 1 < N THEN a + 1 ELSE 0
  BY <1>1, SlotOf DEF Places
<1>3. s \in 0..(N - 1)
  BY <1>1, <1>2 DEF Places
<1>4. Slot(s, i) = IF s + i < N THEN s + i ELSE s + i - N
  BY <1>1, <1>3, SlotOf
<1>5. Slot(a, i + 1) = IF a + (i + 1) < N THEN a + (i + 1) ELSE a + (i + 1) - N
  BY <1>1, SlotOf DEF Places
<1> HIDE DEF N
<1>6. a \in 0..(N - 1) /\ i \in 0..(N - 1)
  BY DEF N, Places
<1> QED BY <1>1, <1>2, <1>3, <1>4, <1>5, <1>6 DEF N, OnAfter, Places

LEMMA AppendKeeps ==
  ASSUME NEW r, NEW es, RingOK(r, es), NEW e \in Entry
  PROVE  RingOK(ringAppend(r, e), Append(es, e))
<1> DEFINE N == LogCapacity
           t == ringAppend(r, e)
           L == Len(es)
<1>1. /\ N \in Nat \ {0} /\ r.start \in 0..(N - 1) /\ r.size \in 0..N /\ es \in Seq(Entry) /\ L \in Nat
      /\ r.size = SmallerOf(L, N) /\ (r.size < N => r.start = 0)
      /\ r.entries \in [0..(N - 1) -> Entry]
      /\ r \in [entries : [0..(LogCapacity - 1) -> Entry], start : 0..(LogCapacity - 1),
                size : 0..LogCapacity]
      /\ \A i \in 0..(r.size - 1) : r.entries[Slot(r.start, i)] = es[L - r.size + 1 + i]
  BY LogsAssumption DEF RingOK
<1>2. /\ Append(es, e) \in Seq(Entry) /\ Len(Append(es, e)) = L + 1 /\ Append(es, e)[L + 1] = e
      /\ \A i \in 1..L : Append(es, e)[i] = es[i]
  BY <1>1
<1>3. CASE r.size < N
  <2>1. Slot(r.start, r.size) = r.size /\ r.start = 0 /\ r.size = L
    BY <1>1, <1>3, SlotOf DEF SmallerOf
  <2>2. t = [r EXCEPT !.entries[r.size] = e, !.size = r.size + 1]
    BY <1>3, <2>1 DEF ringAppend, Slot
  <2>3. /\ t \in [entries : [0..(LogCapacity - 1) -> Entry], start : 0..(LogCapacity - 1),
                  size : 0..LogCapacity]
        /\ t.start = 0 /\ t.size = L + 1 /\ t.entries = [r.entries EXCEPT ![L] = e]
    <3>1. r.size + 1 \in 0..LogCapacity
      BY <1>1, <1>3
    <3> HIDE DEF t
    <3> QED BY <1>1, <2>1, <2>2, <3>1
  <2> HIDE DEF t
  <2>4. t.size = SmallerOf(Len(Append(es, e)), LogCapacity)
    BY <1>1, <1>2, <1>3, <2>1, <2>3 DEF SmallerOf
  <2>5. ASSUME NEW i \in 0..(t.size - 1)
        PROVE  t.entries[Slot(t.start, i)] = Append(es, e)[Len(Append(es, e)) - t.size + 1 + i]
    <3>1. i \in 0..L /\ L < N /\ i < N /\ i \in Nat
      BY <1>1, <1>3, <2>1, <2>3
    <3>2. Slot(t.start, i) = i /\ Len(Append(es, e)) - t.size + 1 + i = i + 1
      BY <1>1, <1>2, <2>3, <3>1, SlotOf
    <3>3. CASE i = L
      BY <1>1, <1>2, <2>3, <3>1, <3>2, <3>3
    <3>4. CASE i # L
      <4>1. i \in 0..(r.size - 1) /\ i + 1 \in 1..L
        BY <2>1, <3>1, <3>4
      <4>2. Slot(r.start, i) = i /\ L - r.size + 1 + i = i + 1
        BY <1>1, <2>1, <3>1, SlotOf
      <4>3. r.entries[i] = es[i + 1]
        BY <1>1, <4>1, <4>2
      <4>4. t.entries[i] = r.entries[i]
        BY <1>1, <2>3, <3>1, <3>4
      <4> QED BY <1>2, <3>2, <4>1, <4>3, <4>4
    <3> QED BY <3>3, <3>4
  <2>6. t.start = 0
    BY <2>3
  <2> QED BY <1>2, <2>3, <2>4, <2>5, <2>6 DEF RingOK, t
<1>4. CASE ~(r.size < N)
  <2>1. r.size = N /\ L >= N
    BY <1>1, <1>4 DEF SmallerOf
  <2> DEFINE s == Slot(r.start, 1)
  <2>2. t = [r EXCEPT !.entries[r.start] = e, !.start = s]
    BY <1>4 DEF ringAppend, Slot
  <2>3. s \in 0..(N - 1)
    <3>1. r.start \in Places /\ 0 \in Places
      BY <1>1 DEF Places
    <3>2. OnAfter(r.start, 0, s)
      BY <3>1, NextSlot
    <3> QED BY <3>2 DEF OnAfter, Places
  <2>s. s = Slot(r.start, 1)
    OBVIOUS
  <2> HIDE DEF s
  <2>4. /\ t \in [entries : [0..(LogCapacity - 1) -> Entry], start : 0..(LogCapacity - 1),
                  size : 0..LogCapacity]
        /\ t.start = s /\ t.size = N /\ t.entries = [r.entries EXCEPT ![r.start] = e]
    <3> HIDE DEF t
    <3> QED BY <1>1, <2>1, <2>2, <2>3
  <2> HIDE DEF t
  <2>5. t.size = SmallerOf(Len(Append(es, e)), LogCapacity)
    BY <1>1, <1>2, <2>1, <2>4 DEF SmallerOf
  <2>6. ASSUME NEW i \in 0..(t.size - 1)
        PROVE  t.entries[Slot(t.start, i)] = Append(es, e)[Len(Append(es, e)) - t.size + 1 + i]
    <3>1. i \in 0..(N - 1) /\ i \in Nat
      BY <1>1, <2>4
    <3>2. Len(Append(es, e)) - t.size + 1 + i = L - N + 2 + i
      BY <1>1, <1>2, <2>4, <3>1
    <3>3. /\ Slot(s, i) \in 0..(N - 1)
          /\ i = N - 1 => Slot(s, i) = r.start
          /\ i # N - 1 => Slot(s, i) = Slot(r.start, i + 1) /\ Slot(s, i) # r.start
      <4>1. r.start \in Places /\ i \in Places
        BY <1>1, <3>1 DEF Places
      <4>2. OnAfter(r.start, i, s)
        BY <4>1, <2>s, NextSlot
      <4> QED BY <4>2 DEF OnAfter, Places
    <3>4. CASE i = N - 1
      <4>1. L - N + 2 + i = L + 1
        <5> HIDE DEF N, L
        <5> QED BY <1>1, <3>4
      <4> QED BY <1>1, <1>2, <2>4, <3>2, <3>3, <3>4, <4>1
    <3>5. CASE i # N - 1
      <4>1. i + 1 \in 0..(N - 1)
        BY <1>1, <3>1, <3>5
      <4>2. r.entries[Slot(r.start, i + 1)] = es[L - N + 1 + (i + 1)]
        BY <1>1, <2>1, <4>1
      <4>3. t.entries[Slot(s, i)] = r.entries[Slot(s, i)]
        BY <1>1, <2>4, <3>3, <3>5
      <4>4. L - N + 1 + (i + 1) = L - N + 2 + i /\ L - N + 2 + i \in 1..L
        <5> HIDE DEF N, L
        <5> QED BY <1>1, <2>1, <3>1, <4>1
      <4> QED BY <1>2, <2>4, <3>2, <3>3, <3>5, <4>2, <4>3, <4>4
    <3> QED BY <3>4, <3>5
  <2>7. t.start \in 0..(LogCapacity - 1) /\ ~(t.size < LogCapacity)
    BY <1>1, <2>3, <2>4
  <2>8. RingOK(t, Append(es, e))
    <3> HIDE DEF N, L
    <3> QED BY <1>2, <2>4, <2>5, <2>6, <2>7 DEF RingOK, N
  <2> QED BY <2>8 DEF t
<1> QED BY <1>3, <1>4

LEMMA RingIsNewest == RingOK(ring, logged) => LogRingKeepsNewest
<1> SUFFICES ASSUME RingOK(ring, logged) PROVE LogRingKeepsNewest
  OBVIOUS
<1> DEFINE m == BiggerOf(0, Len(logged) - LogCapacity) + 1
<1>1. /\ ring.size \in Nat /\ Len(logged) \in Nat /\ logged \in Seq(Entry)
      /\ m = Len(logged) - ring.size + 1 /\ m \in 1..(Len(logged) + 1)
  BY LogsAssumption DEF RingOK, SmallerOf, BiggerOf
<1> HIDE DEF m
<1>2. /\ SubSeq(logged, m, Len(logged)) \in Seq(Entry) /\ Len(SubSeq(logged, m, Len(logged))) = ring.size
      /\ \A i \in 1..ring.size : SubSeq(logged, m, Len(logged))[i] = logged[m + i - 1]
  <2>1. \A i \in m..Len(logged) : logged[i] \in Entry
    BY <1>1
  <2>2. /\ SubSeq(logged, m, Len(logged)) \in Seq(Entry)
        /\ Len(SubSeq(logged, m, Len(logged))) = IF m <= Len(logged) THEN Len(logged) - m + 1 ELSE 0
        /\ \A i \in 1..(Len(logged) - m + 1) : SubSeq(logged, m, Len(logged))[i] = logged[m + i - 1]
    <3>1. m \in Int /\ Len(logged) \in Int
      BY <1>1
    <3> DEFINE k == Len(logged)
               S == Entry
               q == SubSeq(logged, m, k)
    <3>2. k \in Int /\ \A i \in m..k : logged[i] \in S
      BY <2>1, <3>1
    <3> HIDE DEF k, S
    <3>3. /\ q \in Seq(S) /\ Len(q) = IF m <= k THEN k - m + 1 ELSE 0
          /\ \A i \in 1..(k - m + 1) : q[i] = logged[m + i - 1]
      BY ONLY <3>1, <3>2, SubSeqProperties DEF q
    <3> QED BY <3>3 DEF q, k, S
  <2>4. Len(logged) - m + 1 = ring.size
    BY <1>1
  <2> QED BY <1>1, <2>2, <2>4, SMTT(30)
<1>3. \A i \in 1..ring.size : ringSnapshot(ring)[i] = logged[m + i - 1]
  <2> TAKE i \in 1..ring.size
  <2>1. i - 1 \in 0..(ring.size - 1) /\ ring.start + i - 1 = ring.start + (i - 1)
        /\ Len(logged) - ring.size + 1 + (i - 1) = m + i - 1
    BY <1>1 DEF RingOK
  <2>2. ring.entries[Slot(ring.start, i - 1)] = logged[Len(logged) - ring.size + 1 + (i - 1)]
    BY <2>1 DEF RingOK
  <2> QED BY <2>1, <2>2 DEF ringSnapshot, Slot
<1>4. ringSnapshot(ring) = [i \in 1..ring.size |-> logged[m + i - 1]]
  BY <1>3 DEF ringSnapshot
<1>5. SubSeq(logged, m, Len(logged)) = [i \in 1..ring.size |-> logged[m + i - 1]]
  BY <1>2
<1> QED BY <1>4, <1>5 DEF LogRingKeepsNewest, m

-----------------------------------------------------------------------------
(* What is shown is what the ring has at some of its places, and the panel    *)
(* has one line or as many as the entries take.                               *)
LEMMA ShownCount ==
  ASSUME NEW p, ring.size \in 0..LogCapacity
  PROVE  /\ Len(visibleSystemLogEntries(p)) \in 0..LogCapacity
         /\ visibleSystemLogEntries(p) = <<>> <=> Len(visibleSystemLogEntries(p)) = 0
<1> DEFINE S == Shown(p.filters, p.search)
           c == Cardinality(S)
           es == visibleSystemLogEntries(p)
<1>1. LogCapacity \in Nat /\ ring.size \in Nat /\ ring.size <= LogCapacity
  BY LogsAssumption
<1>2. S \in SUBSET (1..ring.size)
  BY DEF Shown
<1>3. IsFiniteSet(1..ring.size) /\ Cardinality(1..ring.size) = ring.size
  BY <1>1, FS_Interval
<1> HIDE DEF S
<1>4. c \in Nat /\ c <= ring.size
  BY <1>2, <1>3, FS_Subset, FS_CardinalityType
<1>5. es = [k \in 1..c |-> ringSnapshot(ring)[Nth(S, k)]]
  BY DEF visibleSystemLogEntries, S
<1> HIDE DEF c, es
<1>6. Len(es) = c /\ (es = <<>> <=> c = 0)
  BY <1>4, <1>5
<1> QED BY <1>1, <1>4, <1>6 DEF es

LEMMA LinesCount ==
  ASSUME NEW p, ring.size \in 0..LogCapacity
  PROVE  /\ LinesPerEntry(p) \in {1, 2}
         /\ Len(PanelLines(p)) = IF visibleSystemLogEntries(p) = <<>> THEN 1
                                 ELSE Len(visibleSystemLogEntries(p)) * LinesPerEntry(p)
         /\ Len(PanelLines(p)) \in 1..(2 * LogCapacity)
<1> DEFINE es == visibleSystemLogEntries(p)
           n == Len(es)
           k == LinesPerEntry(p)
<1>1. n \in 0..LogCapacity /\ (es = <<>> <=> n = 0) /\ LogCapacity \in Nat \ {0}
  BY ShownCount, LogsAssumption
<1>2. k \in {1, 2}
  BY DEF LinesPerEntry
<1> HIDE DEF n, k
<1>3. PanelLines(p) = IF es = <<>> THEN <<0>> ELSE [i \in 1..(n * k) |-> es[(i - 1) \div k + 1].n]
  BY DEF PanelLines, n, k
<1> HIDE DEF es
<1>4. CASE es = <<>>
  BY <1>1, <1>2, <1>3, <1>4 DEF n, k, es
<1>5. CASE es # <<>>
  <2>1. n * k \in 1..(2 * LogCapacity)
    <3>1. CASE k = 1
      BY <1>1, <1>5, <3>1
    <3>2. CASE k = 2
      BY <1>1, <1>5, <3>2
    <3> QED BY <1>2, <3>1, <3>2
  <2>2. Len(PanelLines(p)) = n * k
    BY <1>3, <1>5, <2>1
  <2> QED BY <1>2, <1>5, <2>1, <2>2 DEF n, k, es
<1> QED BY <1>4, <1>5

(* Drawing keeps what is shown, puts the panel in range and the cursor's line *)
(* in the window.                                                             *)
InView(p) ==
    LET es == visibleSystemLogEntries(p)
    IN  es # <<>> => /\ p.sel < Len(es)
                     /\ p.sel * LinesPerEntry(p) \in p.scroll .. p.scroll + LogHeight - 1

LEMMA SettledOK ==
  ASSUME NEW p, PanelOK(p), ring.size \in 0..LogCapacity
  PROVE  PanelOK(Settled(p)) /\ InView(Settled(p))
<1> DEFINE es == visibleSystemLogEntries(p)
           n == Len(es)
           k == LinesPerEntry(p)
           len == Len(PanelLines(p))
           maxOffset == BiggerOf(0, len - LogHeight)
           atEnd == p.auto \/ p.scroll > maxOffset
           first == IF atEnd THEN maxOffset ELSE p.scroll
           cursor == SmallerOf(p.sel, n - 1)
           line == cursor * k
           top == SmallerOf(maxOffset, FollowCursor(line, first))
           q == Settled(p)
<1>1. /\ n \in 0..LogCapacity /\ (es = <<>> <=> n = 0) /\ k \in {1, 2} /\ len \in 1..(2 * LogCapacity)
      /\ es # <<>> => len = n * k
      /\ LogCapacity \in Nat \ {0} /\ LogHeight \in Nat \ {0}
  BY ShownCount, LinesCount, LogsAssumption
<1>2. /\ p.sel \in 0..LogCapacity /\ p.scroll \in 0..(2 * LogCapacity)
      /\ p.auto \in BOOLEAN
  BY DEF PanelOK
<1>3. q = IF es = <<>> THEN [p EXCEPT !.auto = atEnd, !.scroll = first]
          ELSE [p EXCEPT !.auto = atEnd, !.sel = cursor, !.scroll = top]
  BY DEF Settled
<1>4. /\ DOMAIN q = DOMAIN p /\ q.filters = p.filters /\ q.search = p.search /\ q.expanded = p.expanded
      /\ q.auto = atEnd
      /\ es = <<>> => q.sel = p.sel /\ q.scroll = first
      /\ es # <<>> => q.sel = cursor /\ q.scroll = top
  <2> HIDE DEF q, es, n, atEnd, first, cursor, top
  <2> QED BY <1>3 DEF PanelOK
<1> HIDE DEF q, es, n, k, len
<1>5. maxOffset \in 0..(2 * LogCapacity) /\ first \in 0..maxOffset
  <2>1. maxOffset \in 0..(2 * LogCapacity)
    BY <1>1 DEF BiggerOf
  <2> QED BY <1>2, <2>1
<1>6. ASSUME es # <<>>
      PROVE  /\ cursor \in 0..LogCapacity /\ cursor < n /\ top \in 0..(2 * LogCapacity)
             /\ line \in top .. top + LogHeight - 1
  <2>1. cursor \in 0..(n - 1) /\ n >= 1
    BY <1>1, <1>2, <1>6 DEF SmallerOf
  <2> HIDE DEF cursor
  <2>2. line \in Nat /\ line + 1 <= len
    <3>1. CASE k = 1
      BY <1>1, <1>6, <2>1, <3>1
    <3>2. CASE k = 2
      BY <1>1, <1>6, <2>1, <3>2
    <3> QED BY <1>1, <3>1, <3>2
  <2>3. maxOffset = IF len - LogHeight > 0 THEN len - LogHeight ELSE 0
    BY <1>1 DEF BiggerOf
  <2> HIDE DEF line, first, maxOffset
  <2>4. top \in 0..maxOffset /\ line \in top .. top + LogHeight - 1
    BY <1>1, <1>5, <2>2, <2>3 DEF SmallerOf, FollowCursor
  <2> QED BY <1>1, <1>5, <2>1, <2>4
<1>7. PanelOK(q)
  <2>1. q.auto \in BOOLEAN
    BY <1>2, <1>4
  <2>2. q.sel \in 0..LogCapacity
    BY <1>2, <1>4, <1>6
  <2>3. q.scroll \in 0..(2 * LogCapacity)
    <3> HIDE DEF maxOffset, first, top
    <3>1. first \in 0..(2 * LogCapacity)
      BY <1>1, <1>5
    <3> QED BY <1>4, <1>6, <3>1
  <2> HIDE DEF atEnd, first, top, cursor
  <2> QED BY <1>4, <2>1, <2>2, <2>3 DEF PanelOK
<1>8. visibleSystemLogEntries(q) = es /\ LinesPerEntry(q) = k
  BY <1>4 DEF visibleSystemLogEntries, LinesPerEntry, es, k
<1>9. InView(q)
  <2> HIDE DEF atEnd, first, top, cursor
  <2> QED BY <1>4, <1>6, <1>8 DEF InView, n
<1> QED BY <1>7, <1>9 DEF q

(* What is shown depends on the ring and on what the key tells apart.         *)
LEMMA SameKey ==
  ASSUME NEW p, NEW q, CacheKey(p) = CacheKey(q)
  PROVE  Window(p) = Window(q)
<1>1. p.scroll = q.scroll /\ p.filters = q.filters /\ p.search = q.search /\ p.expanded = q.expanded
  BY DEF CacheKey
<1>2. visibleSystemLogEntries(p) = visibleSystemLogEntries(q) /\ LinesPerEntry(p) = LinesPerEntry(q)
  BY <1>1 DEF visibleSystemLogEntries, LinesPerEntry
<1>3. PanelLines(p) = PanelLines(q)
  BY <1>2 DEF PanelLines
<1> QED BY <1>1, <1>3 DEF Window

LEMMA SameRing ==
  ASSUME NEW p, ring' = ring
  PROVE  /\ visibleSystemLogEntries(p)' = visibleSystemLogEntries(p)
         /\ CacheKey(p)' = CacheKey(p) /\ Window(p)' = Window(p)
<1>1. Shown(p.filters, p.search)' = Shown(p.filters, p.search)
  BY DEF Shown, ringSnapshot
<1>2. visibleSystemLogEntries(p)' = visibleSystemLogEntries(p)
  BY <1>1 DEF visibleSystemLogEntries, ringSnapshot
<1>3. PanelLines(p)' = PanelLines(p)
  BY <1>2 DEF PanelLines
<1> QED BY <1>2, <1>3 DEF CacheKey, Window

-----------------------------------------------------------------------------
LEMMA LogsInitInv == LogsInit => LogsInv
<1> SUFFICES ASSUME LogsInit PROVE LogsInv
  OBVIOUS
<1>0. LogCapacity \in Nat \ {0}
  BY LogsAssumption
<1>1. RingOK(ring, logged)
  <2>1. /\ Blank \in Entry /\ ring \in [entries : [0..(LogCapacity - 1) -> Entry],
                                        start : 0..(LogCapacity - 1), size : 0..LogCapacity]
        /\ ring.size = 0 /\ ring.start = 0 /\ logged = <<>>
    BY <1>0 DEF LogsInit, EmptyRing, Blank, Entry
  <2> QED BY <1>0, <2>1 DEF RingOK, SmallerOf
<1>2. PanelOK(panel) /\ panelDirty \in BOOLEAN
  <2>1. panel = FreshPanel(Levels) /\ panelDirty = FALSE
    BY DEF LogsInit
  <2>2. 0 \in 0..LogCapacity /\ 0 \in 0..(2 * LogCapacity)
    BY <1>0
  <2> QED BY <2>1, <2>2 DEF FreshPanel, PanelOK
<1>3. panelCache = NoPanel /\ panelCache.key = <<>>
  BY DEF LogsInit, NoPanel
<1>4. CacheOK
  <2>1. \A p : CacheKey(p) # <<>>
    BY DEF CacheKey
  <2> QED BY <1>3, <2>1 DEF CacheOK
<1>5. LogCursorShown
  BY <1>3 DEF LogCursorShown
<1> QED BY <1>1, <1>2, <1>4, <1>5 DEF LogsInv

(* A drawing leaves the panel in range, its cursor in the window, and a cache *)
(* that is right: a new one, or one that was right and served.                *)
LEMMA RenderKeeps ==
  ASSUME LogsInv, NEW p, PanelOK(p), NEW stale \in BOOLEAN, ~stale => ~panelDirty,
         renderLogsPanel(p, stale), UNCHANGED <<ring, logged>>
  PROVE  LogsInv'
<1>0. PICK q : q = Settled(p)
  OBVIOUS
<1>1. RingOK(ring, logged) /\ ring' = ring /\ logged' = logged /\ panel' = q /\ panelDirty' = FALSE
  BY <1>0 DEF LogsInv, renderLogsPanel
<1>2. PanelOK(q) /\ InView(q)
  <2>1. PanelOK(Settled(p)) /\ InView(Settled(p))
    BY <1>1, SettledOK DEF RingOK
  <2> QED BY <1>0, <2>1
<1>3. \/ /\ ~stale /\ panelCache' = panelCache
      \/ panelCache' = [key |-> CacheKey(q), lines |-> Window(q)]
  BY <1>0 DEF renderLogsPanel
<1>4. RingOK(ring, logged)'
  BY <1>1 DEF RingOK
<1>5. PanelOK(panel)'
  BY <1>1, <1>2 DEF PanelOK
<1>6. CacheOK'
  <2> SUFFICES ASSUME NEW x, panelCache'.key = CacheKey(x)' PROVE panelCache'.lines = Window(x)'
    BY DEF CacheOK
  <2>1. CacheKey(x)' = CacheKey(x) /\ Window(x)' = Window(x)
    BY <1>1, SameRing
  <2>2. CASE ~stale /\ panelCache' = panelCache
    <3>1. ~panelDirty /\ panelCache.key = CacheKey(x)
      BY <2>1, <2>2
    <3>2. panelCache.lines = Window(x)
      BY <3>1 DEF LogsInv, CacheOK
    <3> QED BY <2>1, <2>2, <3>2
  <2>3. CASE panelCache' = [key |-> CacheKey(q), lines |-> Window(q)]
    <3>1. CacheKey(q) = CacheKey(x) /\ panelCache'.lines = Window(q)
      BY <2>1, <2>3
    <3>2. Window(q) = Window(x)
      BY <3>1, SameKey
    <3> QED BY <2>1, <3>1, <3>2
  <2> QED BY <1>3, <2>2, <2>3
<1>7. LogCursorShown'
  <2>1. visibleSystemLogEntries(q)' = visibleSystemLogEntries(q)
    BY <1>1, SameRing
  <2>2. visibleSystemLogEntries(panel)' = visibleSystemLogEntries(q)
    <3>1. visibleSystemLogEntries(panel)' = visibleSystemLogEntries(q)'
      BY <1>1 DEF visibleSystemLogEntries, Shown, ringSnapshot
    <3> QED BY <2>1, <3>1
  <2>3. LinesPerEntry(panel)' = LinesPerEntry(q)
    BY <1>1 DEF LinesPerEntry
  <2> QED BY <1>1, <1>2, <2>2, <2>3 DEF LogCursorShown, InView
<1> QED BY <1>1, <1>4, <1>5, <1>6, <1>7 DEF LogsInv

(* What marks the panel stale has no drawing to answer for.                   *)
LEMMA DirtyKeeps ==
  ASSUME RingOK(ring, logged)', PanelOK(panel)', panelDirty' = TRUE
  PROVE  LogsInv'
BY DEF LogsInv, CacheOK, LogCursorShown

LEMMA appendSystemLogStep ==
  ASSUME LogsInv, NEW level \in Levels, NEW found \in BOOLEAN, appendSystemLog(level, found)
  PROVE  LogsInv'
<1> DEFINE e == [n |-> Len(logged) + 1, level |-> level, found |-> found]
<1>1. RingOK(ring, logged) /\ PanelOK(panel)
  BY DEF LogsInv
<1>2. e \in Entry
  <2>1. Len(logged) \in Nat
    BY <1>1 DEF RingOK
  <2> QED BY <2>1 DEF Entry
<1>3. /\ ring' = ringAppend(ring, e) /\ logged' = Append(logged, e)
      /\ panel' = panel /\ panelDirty' = TRUE
  BY DEF appendSystemLog, Logged
<1> HIDE DEF e
<1>4. RingOK(ringAppend(ring, e), Append(logged, e))
  BY <1>1, <1>2, AppendKeeps
<1>5. RingOK(ring, logged)'
  BY <1>3, <1>4 DEF RingOK
<1>6. PanelOK(panel)'
  BY <1>1, <1>3 DEF PanelOK
<1> QED BY <1>3, <1>5, <1>6, DirtyKeeps

LEMMA moveLogSelectionStep ==
  ASSUME LogsInv, NEW delta \in {-1, 1}, moveLogSelection(delta)
  PROVE  LogsInv'
<1> DEFINE es == visibleSystemLogEntries(panel)
           n == Len(es)
           sel == BiggerOf(0, SmallerOf(panel.sel + delta, n - 1))
<1>1. /\ RingOK(ring, logged) /\ PanelOK(panel) /\ ring' = ring /\ logged' = logged
      /\ panelCache' = panelCache
  BY DEF LogsInv, moveLogSelection
<1>2. RingOK(ring, logged)'
  BY <1>1 DEF RingOK
<1>3. n \in 0..LogCapacity /\ LogCapacity \in Nat /\ (es = <<>> <=> n = 0)
  BY <1>1, ShownCount, LogsAssumption DEF RingOK
<1>4. CASE es = <<>>
  <2>1. panel' = [panel EXCEPT !.sel = 0, !.scroll = 0] /\ panelDirty' = panelDirty
    BY <1>4 DEF moveLogSelection
  <2>2. /\ DOMAIN panel' = DOMAIN panel /\ panel'.sel = 0 /\ panel'.scroll = 0
        /\ panel'.filters = panel.filters /\ panel'.search = panel.search
        /\ panel'.expanded = panel.expanded /\ panel'.auto = panel.auto
    BY <1>1, <2>1 DEF PanelOK
  <2>3. PanelOK(panel)'
    <3>1. 0 \in 0..LogCapacity /\ 0 \in 0..(2 * LogCapacity)
      BY <1>3
    <3> QED BY <1>1, <2>2, <3>1 DEF PanelOK
  <2>4. CacheOK'
    <3> SUFFICES ASSUME NEW x, ~panelDirty, panelCache.key = CacheKey(x)'
                 PROVE  panelCache.lines = Window(x)'
      BY <1>1, <2>1 DEF CacheOK
    <3>1. CacheKey(x)' = CacheKey(x) /\ Window(x)' = Window(x)
      BY <1>1, SameRing
    <3> QED BY <3>1 DEF LogsInv, CacheOK
  <2>5. visibleSystemLogEntries(panel)' = <<>>
    <3>1. visibleSystemLogEntries(panel)' = es
      BY <1>1, <2>2 DEF visibleSystemLogEntries, Shown, ringSnapshot
    <3> QED BY <1>4, <3>1
  <2>6. LogCursorShown'
    BY <2>5 DEF LogCursorShown
  <2>7. panelDirty' \in BOOLEAN
    BY <2>1 DEF LogsInv
  <2> QED BY <1>2, <2>3, <2>4, <2>6, <2>7 DEF LogsInv
<1>5. CASE es # <<>>
  <2>1. panel' = [panel EXCEPT !.sel = sel, !.auto = FALSE] /\ panelDirty' = TRUE
    BY <1>5 DEF moveLogSelection
  <2>2. sel \in 0..LogCapacity
    <3>1. panel.sel \in 0..LogCapacity
      BY <1>1 DEF PanelOK
    <3> HIDE DEF n
    <3> QED BY <1>3, <3>1 DEF BiggerOf, SmallerOf
  <2> HIDE DEF sel
  <2>3. PanelOK(panel)'
    BY <1>1, <2>1, <2>2 DEF PanelOK
  <2> QED BY <1>2, <2>1, <2>3, DirtyKeeps
<1> QED BY <1>4, <1>5

(* A panel that is changed and drawn at once.                                 *)
LEMMA RedrawsStep ==
  ASSUME LogsInv, NEW p, PanelOK(p), Redraws(p)
  PROVE  LogsInv'
<1>1. renderLogsPanel(p, TRUE) /\ UNCHANGED <<ring, logged>>
  BY DEF Redraws
<1> DEFINE stale == TRUE
<1>2. stale \in BOOLEAN /\ (~stale => ~panelDirty) /\ renderLogsPanel(p, stale)
  BY <1>1
<1> HIDE DEF stale
<1> QED BY <1>1, <1>2, RenderKeeps

LEMMA FilterLogsStep ==
  ASSUME LogsInv, NEW level \in Levels, FilterLogs(level)
  PROVE  LogsInv'
<1> DEFINE fs == IF level \in panel.filters THEN panel.filters \ {level}
                 ELSE panel.filters \cup {level}
           p == [panel EXCEPT !.filters = fs]
<1>1. PanelOK(panel) /\ Redraws(p)
  BY DEF LogsInv, FilterLogs
<1>2. fs \subseteq Levels
  BY <1>1 DEF PanelOK
<1> HIDE DEF fs
<1>3. PanelOK(p)
  BY <1>1, <1>2 DEF PanelOK
<1> HIDE DEF p
<1> QED BY <1>1, <1>3, RedrawsStep

LEMMA ToggleDetailsStep ==
  ASSUME LogsInv, ToggleDetails
  PROVE  LogsInv'
<1> DEFINE x == ~panel.expanded
           p == [panel EXCEPT !.expanded = x]
<1>1. PanelOK(panel) /\ Redraws(p)
  BY DEF LogsInv, ToggleDetails
<1>2. x \in BOOLEAN
  OBVIOUS
<1> HIDE DEF x
<1>3. PanelOK(p)
  BY <1>1, <1>2 DEF PanelOK
<1> HIDE DEF p
<1> QED BY <1>1, <1>3, RedrawsStep

LEMMA SearchLogsStep ==
  ASSUME LogsInv, SearchLogs
  PROVE  LogsInv'
<1> DEFINE x == ~panel.search
<1>1. /\ RingOK(ring, logged) /\ PanelOK(panel) /\ ring' = ring /\ logged' = logged
      /\ panel' = [panel EXCEPT !.search = x, !.sel = 0, !.auto = TRUE] /\ panelDirty' = TRUE
  BY DEF LogsInv, SearchLogs
<1>2. x \in BOOLEAN /\ 0 \in 0..LogCapacity
  BY LogsAssumption
<1> HIDE DEF x
<1>3. RingOK(ring, logged)'
  BY <1>1 DEF RingOK
<1>4. PanelOK(panel)'
  BY <1>1, <1>2 DEF PanelOK
<1> QED BY <1>1, <1>3, <1>4, DirtyKeeps

LEMMA OpenPanelStep ==
  ASSUME LogsInv, OpenPanel
  PROVE  LogsInv'
<1> DEFINE top == BiggerOf(0, ring.size - LogHeight)
           p == [panel EXCEPT !.auto = TRUE, !.scroll = top]
<1>1. PanelOK(panel) /\ panelDirty \in BOOLEAN /\ ring.size \in 0..LogCapacity
  BY DEF LogsInv, RingOK
<1>2. renderLogsPanel(p, panelDirty) /\ UNCHANGED <<ring, logged>>
  BY DEF OpenPanel
<1>3. top \in 0..(2 * LogCapacity)
  BY <1>1, LogsAssumption DEF BiggerOf
<1> HIDE DEF top
<1>4. PanelOK(p)
  BY <1>1, <1>3 DEF PanelOK
<1> HIDE DEF p
<1> DEFINE stale == panelDirty
<1>5. stale \in BOOLEAN /\ (~stale => ~panelDirty) /\ renderLogsPanel(p, stale)
  BY <1>1, <1>2
<1> QED BY <1>2, <1>4, <1>5, RenderKeeps

LEMMA DrawStep ==
  ASSUME LogsInv, Draw
  PROVE  LogsInv'
<1>1. PanelOK(panel) /\ panelDirty \in BOOLEAN
  BY DEF LogsInv
<1>2. renderLogsPanel(panel, panelDirty) /\ UNCHANGED <<ring, logged>>
  BY DEF Draw
<1> QED BY <1>1, <1>2, RenderKeeps

LEMMA ResetLogsStep ==
  ASSUME LogsInv, ResetLogs
  PROVE  LogsInv'
<1>0. LogCapacity \in Nat \ {0}
  BY LogsAssumption
<1>1. /\ PanelOK(panel) /\ ring' = EmptyRing /\ logged' = <<>>
      /\ panel' = FreshPanel(panel.filters) /\ panelDirty' = TRUE
  BY DEF LogsInv, ResetLogs
<1>2. RingOK(ring, logged)'
  <2>1. /\ Blank \in Entry /\ ring' \in [entries : [0..(LogCapacity - 1) -> Entry],
                                         start : 0..(LogCapacity - 1), size : 0..LogCapacity]
        /\ ring'.size = 0 /\ ring'.start = 0
    BY <1>0, <1>1 DEF EmptyRing, Blank, Entry
  <2> QED BY <1>0, <1>1, <2>1 DEF RingOK, SmallerOf
<1>3. PanelOK(panel)'
  BY <1>0, <1>1 DEF FreshPanel, PanelOK
<1> QED BY <1>1, <1>2, <1>3, DirtyKeeps

LEMMA LogsInvStep == LogsInv /\ [LogsNext]_logVars => LogsInv'
<1> SUFFICES ASSUME LogsInv, [LogsNext]_logVars PROVE LogsInv'
  OBVIOUS
<1>1. CASE UNCHANGED logVars
  <2>1. /\ ring' = ring /\ logged' = logged /\ panel' = panel /\ panelDirty' = panelDirty
        /\ panelCache' = panelCache
    BY <1>1 DEF logVars
  <2>2. (RingOK(ring, logged) /\ PanelOK(panel) /\ panelDirty \in BOOLEAN)'
    BY <2>1 DEF LogsInv, RingOK, PanelOK
  <2>3. CacheOK'
    <3> SUFFICES ASSUME NEW x, ~panelDirty, panelCache.key = CacheKey(x)'
                 PROVE  panelCache.lines = Window(x)'
      BY <2>1 DEF CacheOK
    <3>1. CacheKey(x)' = CacheKey(x) /\ Window(x)' = Window(x)
      BY <2>1, SameRing
    <3> QED BY <3>1 DEF LogsInv, CacheOK
  <2>4. visibleSystemLogEntries(panel)' = visibleSystemLogEntries(panel)
    BY <2>1 DEF visibleSystemLogEntries, Shown, ringSnapshot
  <2>5. LogCursorShown'
    BY <2>1, <2>4 DEF LogsInv, LogCursorShown, LinesPerEntry
  <2> QED BY <2>2, <2>3, <2>5 DEF LogsInv
<1>2. ASSUME NEW level \in Levels, NEW found \in BOOLEAN, appendSystemLog(level, found) PROVE LogsInv'
  BY <1>2, appendSystemLogStep
<1>3. ASSUME NEW delta \in {-1, 1}, moveLogSelection(delta) PROVE LogsInv'
  BY <1>3, moveLogSelectionStep
<1>4. ASSUME NEW level \in Levels, FilterLogs(level) PROVE LogsInv'
  BY <1>4, FilterLogsStep
<1>5. SearchLogs \/ ToggleDetails \/ OpenPanel \/ Draw \/ ResetLogs => LogsInv'
  BY SearchLogsStep, ToggleDetailsStep, OpenPanelStep, DrawStep, ResetLogsStep
<1> QED BY <1>1, <1>2, <1>3, <1>4, <1>5 DEF LogsNext

LEMMA LogsInvImpliesSound == LogsInv => LogsSound
<1> SUFFICES ASSUME LogsInv PROVE LogsSound
  OBVIOUS
<1>1. RingOK(ring, logged) /\ PanelOK(panel) /\ panelDirty \in BOOLEAN /\ CacheOK /\ LogCursorShown
  BY DEF LogsInv
<1>2. LogsTypeOK
  BY <1>1 DEF LogsTypeOK, RingOK, PanelOK
<1>3. LogPanelFresh
  BY <1>1 DEF LogPanelFresh, CacheOK
<1> QED BY <1>1, <1>2, <1>3, RingIsNewest DEF LogsSound

-----------------------------------------------------------------------------
(* The system log is the newest events in order, the cache serves only what a *)
(* drawing would show, and the cursor is on an entry the window has           *)
(* (systemLogRingBuffer, renderLogsPanel, moveLogSelection).                  *)
THEOREM LogsInvariant == LogsSafety => []LogsInv
BY LogsInitInv, LogsInvStep, PTL DEF LogsSafety

(* The log panel's invariant of the runs (LogsSound), for every capacity of   *)
(* the ring, height of the window, set of levels and number of events.        *)
THEOREM LogsIsSound == LogsSafety => []LogsSound
BY LogsInvariant, LogsInvImpliesSound, PTL

-----------------------------------------------------------------------------
(* The result list.                                                           *)

ListSafety == ListInit /\ [][ListNext]_listVars

(* The parts of the inductive invariant: what the lines and hits are, where   *)
(* the indexes may point, where the cursor is, and what the run checks.       *)
Index(f) == DOMAIN f \subseteq Keys /\ \A k \in DOMAIN f : f[k] \in Nat
LinesOK(ls) == ls \in Seq(Line) /\ Len(ls) <= MaxLogEntries
HitsOK(hs) == hs \in Seq(Hit) /\ Len(hs) <= MaxLogEntries
Placed(sel, scroll, bottom, n) ==
    /\ sel \in Nat /\ scroll \in Nat /\ bottom \in BOOLEAN
    /\ IF n = 0 THEN sel = 0 ELSE sel < n
CurOK(cur, n) ==
    /\ DOMAIN cur = {"sel", "pos", "scroll", "bottom"}
    /\ Placed(cur.sel, cur.scroll, cur.bottom, n)

ListTypes ==
    /\ view \in {"list", "detail"} /\ markedHitKeys \subseteq Keys /\ received \in 0..MaxResults
    /\ Index(logIndexByKey) /\ Index(hitIndexByKey)
    /\ uiFile \in [marks : SUBSET Keys, only : BOOLEAN]
    /\ anomalyFilterOnly \in BOOLEAN /\ logsChanged \in BOOLEAN /\ appendMode \in BOOLEAN
    /\ uiStateDirty \in BOOLEAN /\ slipped \in BOOLEAN

(* The window has the line under the cursor.                                 *)
Seen(ls, only, sel, scroll) ==
    LET vis == visibleListIndexes(ls, only)
    IN  vis # {} => sel \in vis /\ PosIn(vis, sel) \in scroll .. scroll + Height - 1
SeenOK ==
    view = "list" /\ ~logsChanged => Seen(logs, anomalyFilterOnly, selectedIndex, listScrollIdx)

Marked(l, marks) == l.key # NoHit => (l.marked <=> l.key \in marks)
AllMarked(s, marks) == \A i \in DOMAIN s : Marked(s[i], marks)
Names(index, s) == \A k \in DOMAIN index : index[k] < Len(s) /\ s[index[k] + 1].key = k
Named(index, s) ==
    \A i \in DOMAIN s : s[i].key # NoHit => s[i].key \in DOMAIN index /\ index[s[i].key] = i - 1

ListInv ==
    /\ LinesOK(logs) /\ HitsOK(hits) /\ ListTypes
    /\ Placed(selectedIndex, listScrollIdx, atBottom, Len(logs)) /\ SeenOK
    /\ AllMarked(logs, markedHitKeys) /\ AllMarked(hits, markedHitKeys)
    /\ appendMode => Names(hitIndexByKey, hits) /\ (~slipped => Named(logIndexByKey, logs))
    /\ ListFlushed

-----------------------------------------------------------------------------
(* What is shown, and the place of one of the lines shown.                    *)
LEMMA VisibleOK ==
  ASSUME NEW ls \in Seq(Line), NEW only
  PROVE  LET vis == visibleListIndexes(ls, only) IN
         /\ vis \subseteq 0..(Len(ls) - 1)
         /\ IsFiniteSet(vis) /\ Cardinality(vis) \in Nat
         /\ \A i \in vis : PosIn(vis, i) \in 0..(Cardinality(vis) - 1)
<1> DEFINE vis == visibleListIndexes(ls, only)
<1>1. vis \subseteq 0..(Len(ls) - 1)
  BY DEF visibleListIndexes
<1> HIDE DEF vis
<1>2. Len(ls) \in Nat
  OBVIOUS
<1>3. IsFiniteSet(vis) /\ Cardinality(vis) \in Nat
  <2>1. IsFiniteSet(0..(Len(ls) - 1))
    BY <1>2, FS_Interval
  <2> QED BY <1>1, <2>1, FS_Subset, FS_CardinalityType
<1>4. ASSUME NEW i \in vis PROVE PosIn(vis, i) \in 0..(Cardinality(vis) - 1)
  <2> DEFINE T == {j \in vis : j < i}
             R == vis \ {i}
  <2>1. i \in Int
    BY <1>1
  <2>2. T \subseteq R
    BY <2>1
  <2>3. IsFiniteSet(R) /\ Cardinality(R) = Cardinality(vis) - 1
    BY <1>3, FS_RemoveElement
  <2>4. PosIn(vis, i) = Cardinality(T)
    BY DEF PosIn
  <2> HIDE DEF T, R
  <2>5. IsFiniteSet(T) /\ Cardinality(T) \in Nat /\ Cardinality(T) <= Cardinality(R)
    BY <2>2, <2>3, FS_Subset, FS_CardinalityType
  <2> QED BY <1>3, <2>3, <2>4, <2>5
<1> QED BY <1>1, <1>3, <1>4 DEF vis

LEMMA LeastIndex ==
  ASSUME NEW S, S \subseteq Nat, S # {}
  PROVE  \E x \in S : \A y \in S : x <= y
<1>1. IsWellFoundedOn(OpToRel(<, Nat), Nat)
  BY NatLessThanWellFounded
<1>2. PICK x \in S : \A y \in S : ~(<<y, x>> \in OpToRel(<, Nat))
  BY <1>1, WFMin
<1>3. \A y \in S : ~(y < x)
  BY <1>2 DEF OpToRel
<1> QED BY <1>3

LEMMA FirstShown ==
  ASSUME NEW vis, vis \subseteq Nat, vis # {}
  PROVE  AtPos(vis, 0) \in vis /\ PosIn(vis, AtPos(vis, 0)) = 0
<1>1. PICK x \in vis : \A y \in vis : x <= y
  BY LeastIndex
<1>2. {j \in vis : j < x} = {}
  <2>1. ASSUME NEW j \in vis PROVE ~(j < x)
    BY <1>1
  <2> QED BY <2>1
<1>3. PosIn(vis, x) = 0
  BY <1>2, FS_EmptySet DEF PosIn
<1> QED BY <1>3 DEF AtPos

-----------------------------------------------------------------------------
(* Drawing: the cursor is on a line that is shown, and in the window.         *)
LEMMA SyncOK ==
  ASSUME NEW vis, NEW cur, DOMAIN cur = {"sel", "pos", "scroll", "bottom"},
         cur.scroll \in Nat, Cardinality(vis) \in Nat, cur.pos \in 0..(Cardinality(vis) - 1)
  PROVE  LET c == syncVisibleScroll(vis, cur) IN
         /\ DOMAIN c = DOMAIN cur /\ c.sel = cur.sel /\ c.pos = cur.pos
         /\ c.scroll \in Nat /\ c.bottom \in BOOLEAN
         /\ cur.pos \in c.scroll .. c.scroll + Height - 1
<1> DEFINE n == Cardinality(vis)
           maxScroll == Higher(0, n - Height)
           clamped == Higher(0, Lower(cur.scroll, maxScroll))
           reached == IF cur.pos < clamped THEN cur.pos
                      ELSE IF cur.pos >= clamped + Height THEN cur.pos - Height + 1
                      ELSE clamped
           top == Higher(0, Lower(reached, maxScroll))
           bottom == cur.pos = n - 1
           c == syncVisibleScroll(vis, cur)
<1>1. c = [cur EXCEPT !.scroll = top, !.bottom = bottom]
  BY DEF syncVisibleScroll
<1>2. Height \in Nat \ {0} /\ n \in Nat /\ cur.pos \in 0..(n - 1) /\ cur.scroll \in Nat
  BY ListAssumption
<1>3. bottom \in BOOLEAN
  OBVIOUS
<1>4. top \in Nat /\ cur.pos \in top .. top + Height - 1
  <2> HIDE DEF n
  <2>1. maxScroll = IF n - Height > 0 THEN n - Height ELSE 0
    BY <1>2 DEF Higher
  <2> HIDE DEF maxScroll
  <2>2. clamped = IF cur.scroll < maxScroll THEN cur.scroll ELSE maxScroll
    BY <1>2, <2>1 DEF Higher, Lower
  <2> HIDE DEF clamped
  <2> QED BY <1>2, <2>1, <2>2 DEF Higher, Lower
<1> HIDE DEF top, bottom, c
<1>5. /\ DOMAIN c = DOMAIN cur /\ c.sel = cur.sel /\ c.pos = cur.pos
      /\ c.scroll = top /\ c.bottom = bottom
  BY <1>1
<1> QED BY <1>3, <1>4, <1>5 DEF c

LEMMA NormOK ==
  ASSUME NEW vis, vis \subseteq Nat, vis # {}, Cardinality(vis) \in Nat,
         \A i \in vis : PosIn(vis, i) \in 0..(Cardinality(vis) - 1),
         NEW cur, DOMAIN cur = {"sel", "pos", "scroll", "bottom"}, cur.scroll \in Nat
  PROVE  LET norm == normalizeVisibleSelection(vis, cur) IN
         /\ DOMAIN norm = {"sel", "pos", "scroll", "bottom"} /\ norm.sel \in vis
         /\ norm.pos = PosIn(vis, norm.sel) /\ norm.scroll \in Nat
<1> DEFINE norm == normalizeVisibleSelection(vis, cur)
<1>1. CASE cur.sel \in vis
  <2> DEFINE p == PosIn(vis, cur.sel)
             n == Cardinality(vis)
  <2>0. p \in 0..(n - 1) /\ n \in Nat
    BY <1>1
  <2> HIDE DEF p, n
  <2>1. p \in Nat
    BY <2>0
  <2> USE DEF p
  <2>2. selectedVisiblePos(vis, cur.sel) = PosIn(vis, cur.sel)
    BY <1>1 DEF selectedVisiblePos
  <2>3. norm = [cur EXCEPT !.pos = PosIn(vis, cur.sel)]
    BY <2>1, <2>2 DEF normalizeVisibleSelection
  <2> HIDE DEF norm
  <2>4. /\ DOMAIN norm = DOMAIN cur /\ norm.sel = cur.sel /\ norm.scroll = cur.scroll
        /\ norm.pos = PosIn(vis, cur.sel)
    BY <2>3
  <2>5. /\ DOMAIN norm = {"sel", "pos", "scroll", "bottom"} /\ norm.sel \in vis
        /\ norm.pos = PosIn(vis, norm.sel) /\ norm.scroll \in Nat
    BY <1>1, <2>4
  <2> QED BY <2>5 DEF norm
<1>2. CASE cur.sel \notin vis
  <2>1. ~(selectedVisiblePos(vis, cur.sel) >= 0)
    BY <1>2 DEF selectedVisiblePos
  <2>2. norm = [sel |-> AtPos(vis, 0), pos |-> 0, scroll |-> 0, bottom |-> Cardinality(vis) = 1]
    BY <2>1 DEF normalizeVisibleSelection
  <2>3. AtPos(vis, 0) \in vis /\ PosIn(vis, AtPos(vis, 0)) = 0
    BY FirstShown
  <2> HIDE DEF norm
  <2>5. /\ DOMAIN norm = {"sel", "pos", "scroll", "bottom"} /\ norm.sel \in vis
        /\ norm.pos = PosIn(vis, norm.sel) /\ norm.scroll \in Nat
    BY <2>2, <2>3
  <2> QED BY <2>5 DEF norm
<1> QED BY <1>1, <1>2

LEMMA RenderedOK ==
  ASSUME NEW ls \in Seq(Line), ls # <<>>, NEW only,
         NEW cur, DOMAIN cur = {"sel", "pos", "scroll", "bottom"}, cur.scroll \in Nat
  PROVE  LET c == Rendered(ls, only, cur) IN
         /\ CurOK(c, Len(ls)) /\ Seen(ls, only, c.sel, c.scroll)
<1> DEFINE vis == visibleListIndexes(ls, only)
           norm == normalizeVisibleSelection(vis, cur)
           c == Rendered(ls, only, cur)
<1>1. /\ vis \subseteq 0..(Len(ls) - 1) /\ Cardinality(vis) \in Nat
      /\ \A i \in vis : PosIn(vis, i) \in 0..(Cardinality(vis) - 1)
  BY VisibleOK
<1>2. Len(ls) \in Nat \ {0}
  BY EmptySeq, LenProperties
<1>3. vis \subseteq Nat
  BY <1>1
<1>4. c = IF vis = {} THEN norm ELSE syncVisibleScroll(vis, norm)
  BY DEF Rendered
<1>5. Seen(ls, only, c.sel, c.scroll) <=>
        (vis # {} => c.sel \in vis /\ PosIn(vis, c.sel) \in c.scroll .. c.scroll + Height - 1)
  BY DEF Seen
<1> HIDE DEF vis, c
<1>6. CASE vis = {}
  <2>1. c = [sel |-> 0, pos |-> -1, scroll |-> 0, bottom |-> TRUE]
    BY <1>4, <1>6 DEF normalizeVisibleSelection
  <2>2. CurOK(c, Len(ls))
    BY <1>2, <2>1 DEF CurOK, Placed
  <2> QED BY <1>5, <1>6, <2>2 DEF c
<1>7. CASE vis # {}
  <2>1. /\ DOMAIN norm = {"sel", "pos", "scroll", "bottom"} /\ norm.sel \in vis
        /\ norm.pos = PosIn(vis, norm.sel) /\ norm.scroll \in Nat
    BY <1>1, <1>3, <1>7, NormOK
  <2> HIDE DEF norm
  <2>2. norm.pos \in 0..(Cardinality(vis) - 1)
    BY <1>1, <2>1
  <2>3. c = syncVisibleScroll(vis, norm)
    BY <1>4, <1>7
  <2>4. /\ DOMAIN c = DOMAIN norm /\ c.sel = norm.sel /\ c.pos = norm.pos
        /\ c.scroll \in Nat /\ c.bottom \in BOOLEAN
        /\ norm.pos \in c.scroll .. c.scroll + Height - 1
    BY <1>1, <2>1, <2>2, <2>3, SyncOK
  <2> DEFINE m == Len(ls)
  <2>7. c.sel \in 0..(m - 1)
    BY <1>1, <2>1, <2>4
  <2>6. CurOK(c, Len(ls))
    BY <1>2, <2>1, <2>4, <2>7 DEF CurOK, Placed
  <2> QED BY <1>5, <2>1, <2>4, <2>6 DEF c
<1> QED BY <1>6, <1>7

-----------------------------------------------------------------------------
(* Adding, replacing and marking lines.                                       *)
LEMMA FullIs == ASSUME NEW S, NEW s \in Seq(S), Len(s) <= MaxLogEntries
                PROVE  /\ Len(s) \in Nat /\ MaxLogEntries \in Nat \ {0}
                       /\ Full(s) => Len(s) = MaxLogEntries /\ s # <<>>
                       /\ ~Full(s) => Len(s) < MaxLogEntries
<1>1. Len(s) \in Nat /\ MaxLogEntries \in Nat \ {0}
  BY ListAssumption
<1>2. ~Full(s) => Len(s) < MaxLogEntries
  BY <1>1 DEF Full
<1>3. Full(s) => Len(s) = MaxLogEntries /\ s # <<>>
  BY <1>1, EmptySeq DEF Full
<1> QED BY <1>1, <1>2, <1>3

(* The old place of line i of the list after a line was added to s.           *)
Old(s, i) == IF Full(s) THEN i + 1 ELSE i

LEMMA AddedOK ==
  ASSUME NEW S, NEW s \in Seq(S), Len(s) <= MaxLogEntries, NEW e \in S
  PROVE  LET t == Added(s, e) IN
         /\ t \in Seq(S) /\ t # <<>> /\ Len(t) \in Nat /\ Len(t) <= MaxLogEntries
         /\ Len(t) = Len(Trim(s)) + 1 /\ Len(Trim(s)) \in Nat /\ t[Len(t)] = e
         /\ Len(t) >= Len(s)
         /\ \A i \in DOMAIN t : i # Len(t) => Old(s, i) \in DOMAIN s /\ t[i] = s[Old(s, i)]
<1> DEFINE t == Added(s, e)
           b == Trim(s)
<1>1. /\ Len(s) \in Nat /\ MaxLogEntries \in Nat \ {0}
      /\ Full(s) => Len(s) = MaxLogEntries /\ s # <<>>
      /\ ~Full(s) => Len(s) < MaxLogEntries
  BY FullIs
<1>2. /\ b \in Seq(S) /\ Len(b) = (IF Full(s) THEN Len(s) - 1 ELSE Len(s))
      /\ \A i \in 1..Len(b) : b[i] = s[Old(s, i)]
  <2>1. CASE Full(s)
    <3>1. b = Tail(s)
      BY <2>1 DEF Trim
    <3>2. s # <<>>
      BY <1>1, <2>1
    <3>3. Tail(s) \in Seq(S) /\ Len(Tail(s)) = Len(s) - 1
          /\ \A i \in 1..Len(Tail(s)) : Tail(s)[i] = s[i + 1]
      BY <3>2, HeadTailProperties
    <3> HIDE DEF b
    <3> QED BY <2>1, <3>1, <3>3 DEF Old
  <2>2. CASE ~Full(s)
    BY <2>2 DEF Trim, Old
  <2> QED BY <2>1, <2>2
<1>3. Len(b) \in Nat /\ Len(b) + 1 <= MaxLogEntries /\ Len(b) + 1 >= Len(s)
  <2> DEFINE n == Len(s)
             m == Len(b)
  <2>1. m = (IF Full(s) THEN n - 1 ELSE n)
    BY <1>2
  <2>2. n \in Nat /\ (Full(s) => n = MaxLogEntries) /\ (~Full(s) => n < MaxLogEntries)
    BY <1>1
  <2> HIDE DEF n, m
  <2>3. m \in Nat /\ m + 1 <= MaxLogEntries /\ m + 1 >= n
    BY <1>1, <2>1, <2>2
  <2> QED BY <2>3 DEF n, m
<1>4. t = Append(b, e)
  BY DEF Added
<1> HIDE DEF t, b
<1>5. /\ t \in Seq(S) /\ Len(t) = Len(b) + 1 /\ t[Len(b) + 1] = e
      /\ \A i \in 1..Len(b) : t[i] = b[i]
  BY <1>2, <1>4, AppendProperties
<1>6. t # <<>>
  BY <1>3, <1>5
<1>7. ASSUME NEW i \in DOMAIN t, i # Len(t)
      PROVE  Old(s, i) \in DOMAIN s /\ t[i] = s[Old(s, i)]
  <2>1. i \in 1..Len(b)
    BY <1>3, <1>5, <1>7
  <2>2. Old(s, i) \in 1..Len(s)
    BY <1>1, <1>2, <2>1 DEF Old
  <2> QED BY <1>2, <1>5, <2>1, <2>2
<1> QED BY <1>3, <1>5, <1>6, <1>7 DEF t, b

LEMMA AddedMarked ==
  ASSUME NEW S, NEW s \in Seq(S), Len(s) <= MaxLogEntries, NEW e \in S,
         NEW marks, AllMarked(s, marks), Marked(e, marks)
  PROVE  AllMarked(Added(s, e), marks)
<1> DEFINE t == Added(s, e)
<1>1. t[Len(t)] = e /\ \A i \in DOMAIN t : i # Len(t) => Old(s, i) \in DOMAIN s /\ t[i] = s[Old(s, i)]
  BY AddedOK
<1> HIDE DEF t
<1>2. \A i \in DOMAIN t : Marked(t[i], marks)
  BY <1>1 DEF AllMarked
<1> QED BY <1>2 DEF AllMarked, t

(* The list with line n replaced.                                             *)
Put(s, n, e) == [s EXCEPT ![n] = e]

LEMMA PutOK ==
  ASSUME NEW S, NEW s \in Seq(S), NEW n \in 1..Len(s), NEW e \in S
  PROVE  Put(s, n, e) \in Seq(S) /\ Len(Put(s, n, e)) = Len(s)
  BY DEF Put

LEMMA PutLines ==
  ASSUME NEW s, NEW n, NEW e
  PROVE  /\ DOMAIN Put(s, n, e) = DOMAIN s
         /\ \A i \in DOMAIN s : Put(s, n, e)[i] = IF i = n THEN e ELSE s[i]
  BY DEF Put

LEMMA PutMarked ==
  ASSUME NEW S, NEW s \in Seq(S), NEW n \in 1..Len(s), NEW e \in S,
         NEW marks, AllMarked(s, marks), Marked(e, marks)
  PROVE  AllMarked(Put(s, n, e), marks)
<1> DEFINE t == Put(s, n, e)
<1>1. DOMAIN t = DOMAIN s /\ \A i \in DOMAIN t : t[i] = IF i = n THEN e ELSE s[i]
  BY PutLines
<1> HIDE DEF t
<1>2. \A i \in DOMAIN t : Marked(t[i], marks)
  BY <1>1 DEF AllMarked
<1> QED BY <1>2 DEF AllMarked, t

LEMMA RemarkedOK ==
  ASSUME NEW s, NEW marks,
         (s \in Seq(Line)) \/ (s \in Seq(Hit))
  PROVE  LET t == Remarked(s, marks) IN
         /\ s \in Seq(Line) => t \in Seq(Line)
         /\ s \in Seq(Hit) => t \in Seq(Hit)
         /\ Len(t) = Len(s) /\ DOMAIN t = DOMAIN s
         /\ \A i \in DOMAIN t : t[i].key = s[i].key
         /\ AllMarked(t, marks)
<1> DEFINE t == Remarked(s, marks)
           New(l) == IF l.key = NoHit THEN l ELSE [l EXCEPT !.marked = l.key \in marks]
<1>0. ASSUME NEW T \in {Line, Hit}, NEW l \in T
      PROVE  New(l) \in T /\ New(l).key = l.key /\ Marked(New(l), marks)
  <2> DEFINE b == l.key \in marks
             m == [l EXCEPT !.marked = b]
  <2>1. b \in BOOLEAN
    OBVIOUS
  <2>2. New(l) = IF l.key = NoHit THEN l ELSE m
    OBVIOUS
  <2>3. b <=> l.key \in marks
    OBVIOUS
  <2> HIDE DEF b
  <2>4. DOMAIN l = {"key", "marked"}
    <3>1. CASE T = Line
      BY <3>1 DEF Line
    <3>2. CASE T = Hit
      BY <3>2 DEF Hit
    <3> QED BY <3>1, <3>2
  <2>5. m.key = l.key /\ m.marked = b
    BY <2>4
  <2>6. m \in T
    <3>1. CASE T = Line
      BY <2>1, <3>1 DEF Line
    <3>2. CASE T = Hit
      BY <2>1, <3>2 DEF Hit
    <3> QED BY <3>1, <3>2
  <2> HIDE DEF m, New
  <2>7. CASE l.key = NoHit
    BY <2>2, <2>7 DEF Marked
  <2>8. CASE l.key # NoHit
    BY <2>2, <2>3, <2>5, <2>6, <2>8 DEF Marked
  <2> QED BY <2>7, <2>8
<1>1. \A l \in Line : New(l) \in Line /\ New(l).key = l.key /\ Marked(New(l), marks)
  BY <1>0
<1>2. \A l \in Hit : New(l) \in Hit
  BY <1>0
<1>3. Hit \subseteq Line
  BY DEF Hit, Line
<1>4. t = [i \in DOMAIN s |-> New(s[i])]
  BY DEF Remarked
<1>5. s \in Seq(Line) /\ DOMAIN s = 1..Len(s) /\ \A i \in DOMAIN s : s[i] \in Line
  <2>1. ASSUME s \in Seq(Hit) PROVE s \in Seq(Line)
    BY <1>3, <2>1
  <2>2. s \in Seq(Line)
    BY <2>1
  <2> QED BY <2>2
<1>6. s \in Seq(Hit) => \A i \in DOMAIN s : s[i] \in Hit
  OBVIOUS
<1> HIDE DEF New, t
<1>7. \A i \in DOMAIN s : t[i] = New(s[i])
  BY <1>4
<1>8. DOMAIN t = DOMAIN s
  BY <1>4
<1>9. t \in Seq(Line)
  BY <1>1, <1>4, <1>5
<1>10. s \in Seq(Hit) => t \in Seq(Hit)
  BY <1>2, <1>4, <1>5, <1>6
<1>11. Len(t) = Len(s)
  BY <1>5, <1>8, <1>9
<1>12. AllMarked(t, marks) /\ \A i \in DOMAIN t : t[i].key = s[i].key
  BY <1>1, <1>5, <1>7, <1>8 DEF AllMarked
<1> QED BY <1>8, <1>9, <1>10, <1>11, <1>12 DEF t

-----------------------------------------------------------------------------
(* The indexes.                                                               *)
LEMMA MovedOK ==
  ASSUME NEW index, Index(index), NEW oldest
  PROVE  LET m == decrementIndexes(index, oldest) IN
         /\ Index(m)
         /\ \A k : k \in DOMAIN m <=> k \in DOMAIN index /\ k # oldest /\ index[k] > 0
         /\ \A k \in DOMAIN m : m[k] = index[k] - 1
<1> DEFINE m == decrementIndexes(index, oldest)
           kept == {k \in DOMAIN index : k # oldest /\ index[k] > 0}
<1>1. m = [k \in kept |-> index[k] - 1]
  BY DEF decrementIndexes
<1> HIDE DEF m
<1>2. DOMAIN m = kept /\ \A k \in kept : m[k] = index[k] - 1
  BY <1>1
<1>3. \A k \in kept : index[k] \in Nat /\ index[k] > 0
  BY DEF Index
<1>4. \A k \in kept : m[k] \in Nat
  <2> TAKE k \in kept
  <2> DEFINE v == index[k]
  <2>1. v \in Nat /\ v > 0 /\ m[k] = v - 1
    BY <1>2, <1>3
  <2> HIDE DEF v
  <2> QED BY <2>1
<1>5. kept \subseteq Keys
  BY DEF Index
<1> QED BY <1>2, <1>4, <1>5 DEF Index, m

LEMMA AddedIndexOK ==
  ASSUME NEW S, NEW s \in Seq(S), Len(s) <= MaxLogEntries, NEW index, Index(index), NEW key \in Keys
  PROVE  LET x == AddedIndex(index, s, key) IN
         /\ Index(x) /\ key \in DOMAIN x /\ x[key] = Len(Trim(s))
         /\ \A k \in DOMAIN x : k # key =>
                /\ k \in DOMAIN index
                /\ x[k] = IF Full(s) THEN index[k] - 1 ELSE index[k]
                /\ Full(s) => index[k] > 0 /\ k # s[1].key
         /\ \A k \in DOMAIN index : (Full(s) => index[k] > 0 /\ k # s[1].key) => k \in DOMAIN x
<1> DEFINE x == AddedIndex(index, s, key)
           m == IF Full(s) THEN decrementIndexes(index, s[1].key) ELSE index
<1>1. /\ Index(m)
      /\ \A k : k \in DOMAIN m <=> k \in DOMAIN index /\ (Full(s) => k # s[1].key /\ index[k] > 0)
      /\ \A k \in DOMAIN m : m[k] = IF Full(s) THEN index[k] - 1 ELSE index[k]
  <2>1. CASE Full(s)
    BY <2>1, MovedOK
  <2>2. CASE ~Full(s)
    BY <2>2
  <2> QED BY <2>1, <2>2
<1>2. x = [k \in DOMAIN m \cup {key} |-> IF k = key THEN Len(Trim(s)) ELSE m[k]]
  BY DEF AddedIndex
<1>3. Len(Trim(s)) \in Nat
  <2>1. CASE Full(s)
    <3>1. s # <<>>
      BY <2>1, FullIs
    <3> QED BY <2>1, <3>1, HeadTailProperties DEF Trim
  <2>2. CASE ~Full(s)
    BY <2>2 DEF Trim
  <2> QED BY <2>1, <2>2
<1> HIDE DEF x, m
<1>4. DOMAIN x = DOMAIN m \cup {key} /\ x[key] = Len(Trim(s))
  BY <1>2
<1>5. \A k \in DOMAIN x : k # key => k \in DOMAIN m /\ x[k] = m[k]
  BY <1>2
<1>6. Index(x)
  <2>1. \A k \in DOMAIN x : x[k] \in Nat
    BY <1>1, <1>3, <1>4, <1>5 DEF Index
  <2> QED BY <1>1, <1>4, <2>1 DEF Index
<1> QED BY <1>1, <1>4, <1>5, <1>6 DEF x

LEMMA NamesAdded ==
  ASSUME NEW S, NEW s \in Seq(S), Len(s) <= MaxLogEntries, NEW index, Index(index),
         NEW e \in S, e.key \in Keys, Names(index, s)
  PROVE  Names(AddedIndex(index, s, e.key), Added(s, e))
<1> DEFINE key == e.key
           x == AddedIndex(index, s, key)
           t == Added(s, e)
<1>1. /\ Index(x) /\ x[key] = Len(Trim(s))
      /\ \A k \in DOMAIN x : k # key =>
             /\ k \in DOMAIN index
             /\ x[k] = IF Full(s) THEN index[k] - 1 ELSE index[k]
             /\ Full(s) => index[k] > 0 /\ k # s[1].key
  BY AddedIndexOK
<1>2. /\ t \in Seq(S) /\ Len(t) = Len(Trim(s)) + 1 /\ Len(Trim(s)) \in Nat /\ t[Len(t)] = e
      /\ Len(t) >= Len(s) /\ DOMAIN t = 1..Len(t)
      /\ \A i \in DOMAIN t : i # Len(t) => Old(s, i) \in DOMAIN s /\ t[i] = s[Old(s, i)]
  BY AddedOK
<1>3. Len(s) \in Nat /\ (Full(s) => Len(t) = Len(s)) /\ (~Full(s) => Len(t) = Len(s) + 1)
  <2>1. CASE Full(s)
    <3>1. s # <<>>
      BY <2>1, FullIs
    <3> QED BY <1>2, <2>1, <3>1, HeadTailProperties DEF Trim
  <2>2. CASE ~Full(s)
    BY <1>2, <2>2 DEF Trim
  <2> QED BY <2>1, <2>2
<1> HIDE DEF x, t, key
<1>4. ASSUME NEW k \in DOMAIN x PROVE x[k] < Len(t) /\ t[x[k] + 1].key = k
  <2>1. CASE k = key
    BY <1>1, <1>2, <2>1 DEF key
  <2>2. CASE k # key
    <3> DEFINE v == index[k]
               w == x[k]
    <3>1. /\ k \in DOMAIN index /\ w = (IF Full(s) THEN v - 1 ELSE v) /\ (Full(s) => v > 0)
          /\ v \in Nat /\ w \in Nat
      BY <1>1, <2>2 DEF Index
    <3>2. v < Len(s) /\ s[v + 1].key = k
      BY <3>1 DEF Names
    <3> HIDE DEF v, w
    <3>3. w + 1 \in 1..Len(t) /\ w + 1 # Len(t) /\ Old(s, w + 1) = v + 1
      BY <1>2, <1>3, <3>1, <3>2 DEF Old
    <3>4. t[w + 1] = s[v + 1]
      BY <1>2, <3>3
    <3>5. w < Len(t)
      BY <1>2, <1>3, <3>1, <3>2
    <3> QED BY <3>2, <3>4, <3>5 DEF w
  <2> QED BY <2>1, <2>2
<1>5. Names(x, t)
  BY <1>4 DEF Names
<1> QED BY <1>5 DEF x, t, key

LEMMA NamedAdded ==
  ASSUME NEW S, NEW s \in Seq(S), Len(s) <= MaxLogEntries, NEW index, Index(index),
         NEW e \in S, e.key \in Keys, Named(index, s),
         ~(e.key \in DOMAIN index /\ index[e.key] < Len(s))
  PROVE  Named(AddedIndex(index, s, e.key), Added(s, e))
<1> DEFINE key == e.key
           x == AddedIndex(index, s, key)
           t == Added(s, e)
<1>1. /\ key \in DOMAIN x /\ x[key] = Len(Trim(s))
      /\ \A k \in DOMAIN x : k # key =>
             k \in DOMAIN index /\ x[k] = IF Full(s) THEN index[k] - 1 ELSE index[k]
      /\ \A k \in DOMAIN index : (Full(s) => index[k] > 0 /\ k # s[1].key) => k \in DOMAIN x
  BY AddedIndexOK
<1>2. /\ t \in Seq(S) /\ Len(t) = Len(Trim(s)) + 1 /\ Len(Trim(s)) \in Nat /\ t[Len(t)] = e
      /\ DOMAIN t = 1..Len(t) /\ Len(t) \in Nat
      /\ \A i \in DOMAIN t : i # Len(t) => Old(s, i) \in DOMAIN s /\ t[i] = s[Old(s, i)]
  BY AddedOK
<1>3. DOMAIN s = 1..Len(s) /\ Len(s) \in Nat /\ (Full(s) => 1 \in DOMAIN s)
  BY FullIs, EmptySeq
<1>4. ~(key \in DOMAIN index /\ index[key] < Len(s))
  OBVIOUS
<1> HIDE DEF x, t, key
<1>5. ASSUME NEW i \in DOMAIN t, t[i].key # NoHit
      PROVE  t[i].key \in DOMAIN x /\ x[t[i].key] = i - 1
  <2>1. CASE i = Len(t)
    BY <1>1, <1>2, <2>1 DEF key
  <2>2. CASE i # Len(t)
    <3> DEFINE k == t[i].key
               o == Old(s, i)
    <3>1. o \in 1..Len(s) /\ t[i] = s[o]
      BY <1>2, <1>3, <2>2
    <3>2. k \in DOMAIN index /\ index[k] = o - 1
      BY <1>3, <1>5, <3>1 DEF Named
    <3>3. o = IF Full(s) THEN i + 1 ELSE i
      BY DEF Old
    <3> HIDE DEF k, o
    <3>4. i \in Nat /\ i >= 1
      BY <1>2
    <3>5. k # key
      BY <1>3, <1>4, <3>1, <3>2
    <3>6. Full(s) => index[k] > 0 /\ k # s[1].key
      <4>1. SUFFICES ASSUME Full(s) PROVE index[k] > 0 /\ k # s[1].key
        OBVIOUS
      <4>2. o = i + 1
        BY <3>3, <4>1
      <4>3. index[k] = i
        BY <3>2, <3>4, <4>2
      <4>4. k # s[1].key
        <5>1. SUFFICES ASSUME k = s[1].key PROVE FALSE
          OBVIOUS
        <5>2. s[1].key # NoHit
          BY <1>5, <5>1 DEF k
        <5>3. index[s[1].key] = 1 - 1
          BY <1>3, <4>1, <5>2 DEF Named
        <5> QED BY <3>4, <4>3, <5>1, <5>3
      <4> QED BY <3>4, <4>3, <4>4
    <3>7. k \in DOMAIN x
      BY <1>1, <3>2, <3>6
    <3>8. x[k] = IF Full(s) THEN index[k] - 1 ELSE index[k]
      BY <1>1, <3>5, <3>7
    <3>9. x[k] = i - 1
      BY <3>2, <3>3, <3>4, <3>8
    <3> QED BY <3>7, <3>9 DEF k
  <2> QED BY <2>1, <2>2
<1>6. Named(x, t)
  BY <1>5 DEF Named
<1> QED BY <1>6 DEF x, t, key

-----------------------------------------------------------------------------
(* The cursor through an added line.                                          *)
LEMMA CursorOK ==
  ASSUME ListInv
  PROVE  /\ CurOK(Cursor, Len(logs)) /\ Cursor.sel = selectedIndex
         /\ Cursor.scroll = listScrollIdx /\ Cursor.bottom = atBottom
  BY DEF ListInv, CurOK, Cursor

LEMMA PlacedNext ==
  ASSUME NEW cur, NEW n, CurOK(cur, n), SetCursor(cur)
  PROVE  Placed(selectedIndex', listScrollIdx', atBottom', n)
  BY DEF CurOK, SetCursor

LEMMA FollowedOK ==
  ASSUME NEW S, NEW s \in Seq(S), Len(s) <= MaxLogEntries, NEW e \in S, ListInv, Len(logs) = Len(s)
  PROVE  CurOK(Followed(Added(s, e), IF Full(s) THEN Shifted ELSE Cursor), Len(Added(s, e)))
<1> DEFINE t == Added(s, e)
           n == Len(t)
           m == Len(s)
           base == IF Full(s) THEN Shifted ELSE Cursor
           c == Followed(t, base)
<1>1. n \in Nat /\ n > 0 /\ m \in Nat /\ n >= m /\ (~Full(s) => n = m + 1) /\ (Full(s) => m > 0)
  <2>1. n \in Nat /\ n = Len(Trim(s)) + 1 /\ Len(Trim(s)) \in Nat /\ n >= m
    BY AddedOK
  <2>2. m \in Nat /\ (Full(s) => m = MaxLogEntries) /\ MaxLogEntries \in Nat \ {0}
    BY FullIs
  <2>3. ~Full(s) => Len(Trim(s)) = m
    BY DEF Trim
  <2> HIDE DEF n, m
  <2> QED BY <2>1, <2>2, <2>3
<1>2. Height \in Nat \ {0}
  BY ListAssumption
<1>3. CurOK(Cursor, m)
  BY CursorOK
<1>4. c = IF ~base.bottom THEN base
          ELSE [base EXCEPT !.sel = n - 1, !.scroll = Higher(0, n - Height)]
  BY DEF Followed
<1> HIDE DEF c, n, m
<1>5. CurOK(base, n)
  <2>1. CASE Full(s)
    <3> DEFINE q == Cursor
               sel == Higher(0, q.sel - 1)
               top == Higher(0, q.scroll - 1)
    <3>1. base = [q EXCEPT !.sel = sel, !.scroll = top]
      BY <2>1 DEF Shifted
    <3>2. sel \in Nat /\ top \in Nat /\ sel < n
      <4> DEFINE a == q.sel
                 b == q.scroll
      <4>1. a \in Nat /\ b \in Nat /\ a < m
        BY <1>1, <1>3, <2>1 DEF CurOK, Placed
      <4> HIDE DEF a, b
      <4>2. sel = (IF 0 > a - 1 THEN 0 ELSE a - 1) /\ top = (IF 0 > b - 1 THEN 0 ELSE b - 1)
        BY DEF Higher, a, b
      <4> HIDE DEF sel, top
      <4> QED BY <1>1, <4>1, <4>2
    <3> HIDE DEF sel, top, q, base
    <3>3. DOMAIN q = {"sel", "pos", "scroll", "bottom"} /\ q.bottom \in BOOLEAN
      BY <1>3 DEF CurOK, Placed, q
    <3>4. /\ DOMAIN base = {"sel", "pos", "scroll", "bottom"} /\ base.sel = sel
          /\ base.scroll = top /\ base.bottom = q.bottom
      BY <3>1, <3>3
    <3>5. ~(n = 0)
      BY <1>1
    <3> QED BY <3>2, <3>3, <3>4, <3>5 DEF CurOK, Placed
  <2>2. CASE ~Full(s)
    <3>1. base = Cursor
      BY <2>2
    <3> HIDE DEF base
    <3>2. Cursor.sel \in Nat /\ (IF m = 0 THEN Cursor.sel = 0 ELSE Cursor.sel < m)
      BY <1>3 DEF CurOK, Placed
    <3>3. Cursor.sel < n /\ ~(n = 0)
      BY <1>1, <2>2, <3>2
    <3> QED BY <1>3, <3>1, <3>3 DEF CurOK, Placed
  <2> QED BY <2>1, <2>2
<1> HIDE DEF base
<1>6. CASE ~base.bottom
  BY <1>4, <1>5, <1>6 DEF c, n, base
<1>7. CASE base.bottom
  <2> DEFINE top == Higher(0, n - Height)
  <2>1. c = [base EXCEPT !.sel = n - 1, !.scroll = top]
    BY <1>4, <1>7
  <2>2. top \in Nat /\ n - 1 \in Nat /\ n - 1 < n /\ ~(n = 0)
    BY <1>1, <1>2 DEF Higher
  <2> HIDE DEF top
  <2>3. /\ DOMAIN base = {"sel", "pos", "scroll", "bottom"} /\ base.bottom \in BOOLEAN
    BY <1>5 DEF CurOK, Placed
  <2>4. /\ DOMAIN c = DOMAIN base /\ c.sel = n - 1 /\ c.scroll = top /\ c.bottom = base.bottom
    BY <2>1, <2>3
  <2>5. CurOK(c, n)
    BY <2>2, <2>3, <2>4 DEF CurOK, Placed
  <2> QED BY <2>5 DEF c, n, base
<1> QED BY <1>6, <1>7

-----------------------------------------------------------------------------
(* The messages that add a line.                                              *)
LEMMA ListInitInv == ListInit => ListInv
<1> SUFFICES ASSUME ListInit PROVE ListInv
  OBVIOUS
<1>1. LinesOK(logs) /\ HitsOK(hits)
  BY ListAssumption DEF ListInit, LinesOK, HitsOK
<1>2. Index(logIndexByKey) /\ Index(hitIndexByKey)
  BY DEF ListInit, Index
<1>3. ListTypes
  <2>1. received \in 0..MaxResults
    BY ListAssumption DEF ListInit
  <2>2. uiFile \in [marks : SUBSET Keys, only : BOOLEAN]
    BY DEF ListInit
  <2> QED BY <1>2, <2>1, <2>2 DEF ListInit, ListTypes
<1>4. Placed(selectedIndex, listScrollIdx, atBottom, Len(logs))
  BY DEF ListInit, Placed
<1>5. SeenOK
  <2>1. visibleListIndexes(logs, anomalyFilterOnly) = {}
    BY DEF visibleListIndexes, ListInit
  <2> QED BY <2>1 DEF SeenOK, Seen
<1>6. AllMarked(logs, markedHitKeys) /\ AllMarked(hits, markedHitKeys)
  BY DEF ListInit, AllMarked
<1>7. Names(hitIndexByKey, hits) /\ Named(logIndexByKey, logs)
  BY DEF ListInit, Names, Named
<1>8. ListFlushed
  BY DEF ListInit, ListFlushed
<1> QED BY <1>1, <1>3, <1>4, <1>5, <1>6, <1>7, <1>8 DEF ListInv

LEMMA HitMarked ==
  ASSUME NEW k \in Keys
  PROVE  LET h == applyMarkedHit(k) IN
         h \in Hit /\ h \in Line /\ h.key = k /\ Marked(h, markedHitKeys)
<1> DEFINE b == k \in markedHitKeys
           h == [key |-> k, marked |-> b]
<1>1. b \in BOOLEAN /\ (b <=> k \in markedHitKeys)
  OBVIOUS
<1>2. applyMarkedHit(k) = h
  BY DEF applyMarkedHit
<1> HIDE DEF b
<1>3. h \in Hit /\ h \in Line /\ h.key = k /\ h.marked = b
  BY <1>1 DEF Hit, Line
<1> HIDE DEF h
<1>4. Marked(h, markedHitKeys)
  BY <1>1, <1>3 DEF Marked
<1> QED BY <1>2, <1>3, <1>4

(* A message that adds a line leaves the marks and the side file alone.       *)
AddsLine == /\ Grows /\ logsChanged' = TRUE
            /\ UNCHANGED <<view, markedHitKeys, anomalyFilterOnly, appendMode, uiFile, uiStateDirty>>

LEMMA AddsLineKeeps ==
  ASSUME ListInv, AddsLine, Index(logIndexByKey'), Index(hitIndexByKey'), slipped' \in BOOLEAN
  PROVE  ListTypes' /\ SeenOK' /\ ListFlushed'
<1>1. ListTypes /\ ListFlushed
  BY DEF ListInv
<1>2. received' \in 0..MaxResults
  BY <1>1, ListAssumption DEF AddsLine, Grows, ListTypes
<1>3. ListTypes'
  BY <1>1, <1>2 DEF ListTypes, AddsLine
<1>4. SeenOK'
  BY DEF SeenOK, AddsLine
<1>5. ListFlushed'
  BY <1>1 DEF ListFlushed, AddsLine
<1> QED BY <1>3, <1>4, <1>5

LEMMA AppendLogStep ==
  ASSUME ListInv, AddsLine, NEW line \in Line, line.key # NoHit => line \in Hit /\ ~appendMode,
         Marked(line, markedHitKeys), appendLog(line)
  PROVE  ListInv'
<1>1. /\ logs \in Seq(Line) /\ Len(logs) <= MaxLogEntries /\ hits \in Seq(Hit)
      /\ Len(hits) <= MaxLogEntries /\ ListTypes
      /\ AllMarked(logs, markedHitKeys) /\ AllMarked(hits, markedHitKeys)
  BY DEF ListInv, LinesOK, HitsOK
<1>2. /\ logs' = Added(logs, line) /\ hits' = (IF line.key = NoHit THEN hits ELSE Added(hits, line))
      /\ SetCursor(Followed(Added(logs, line), IF Full(logs) THEN Shifted ELSE Cursor))
      /\ slipped' = (slipped \/ (appendMode /\ Full(logs)))
      /\ UNCHANGED <<logIndexByKey, hitIndexByKey>>
  BY DEF appendLog
<1>3. LinesOK(Added(logs, line)) /\ AllMarked(Added(logs, line), markedHitKeys)
  <2>1. Added(logs, line) \in Seq(Line) /\ Len(Added(logs, line)) <= MaxLogEntries
    BY <1>1, AddedOK
  <2>2. AllMarked(Added(logs, line), markedHitKeys)
    BY <1>1, AddedMarked
  <2> QED BY <2>1, <2>2 DEF LinesOK
<1>4. HitsOK(hits') /\ AllMarked(hits', markedHitKeys)
  <2>1. CASE line.key = NoHit
    BY <1>1, <1>2, <2>1 DEF HitsOK
  <2>2. CASE line.key # NoHit
    <3>1. line \in Hit
      BY <2>2
    <3>2. Added(hits, line) \in Seq(Hit) /\ Len(Added(hits, line)) <= MaxLogEntries
      BY <1>1, <3>1, AddedOK
    <3>3. AllMarked(Added(hits, line), markedHitKeys)
      BY <1>1, <3>1, AddedMarked
    <3> QED BY <1>2, <2>2, <3>2, <3>3 DEF HitsOK
  <2> QED BY <2>1, <2>2
<1>5. Placed(selectedIndex', listScrollIdx', atBottom', Len(Added(logs, line)))
  <2>1. CurOK(Followed(Added(logs, line), IF Full(logs) THEN Shifted ELSE Cursor),
              Len(Added(logs, line)))
    BY <1>1, FollowedOK
  <2> QED BY <1>2, <2>1, PlacedNext
<1>6. ListTypes' /\ SeenOK' /\ ListFlushed'
  <2>1. Index(logIndexByKey') /\ Index(hitIndexByKey')
    BY <1>1, <1>2 DEF ListTypes
  <2>2. slipped' \in BOOLEAN
    BY <1>1, <1>2 DEF ListTypes
  <2> QED BY <2>1, <2>2, AddsLineKeeps
<1>7. appendMode' => Names(hitIndexByKey', hits') /\ (~slipped' => Named(logIndexByKey', logs'))
  <2>1. SUFFICES ASSUME appendMode
                 PROVE  Names(hitIndexByKey', hits') /\ (~slipped' => Named(logIndexByKey', logs'))
    BY DEF AddsLine
  <2>2. line.key = NoHit /\ hits' = hits
    BY <1>2, <2>1
  <2>3. Names(hitIndexByKey', hits')
    BY <1>2, <2>1, <2>2 DEF ListInv
  <2>4. ASSUME ~slipped' PROVE Named(logIndexByKey, Added(logs, line))
    <3> DEFINE t == Added(logs, line)
    <3>1. Named(logIndexByKey, logs) /\ ~Full(logs)
      BY <1>2, <2>1, <2>4 DEF ListInv
    <3>2. t[Len(t)] = line /\ \A i \in DOMAIN t : i # Len(t) => Old(logs, i) \in DOMAIN logs /\ t[i] = logs[Old(logs, i)]
      BY <1>1, AddedOK
    <3> HIDE DEF t
    <3>3. \A i \in DOMAIN t : i # Len(t) => i \in DOMAIN logs /\ t[i] = logs[i]
      BY <3>1, <3>2 DEF Old
    <3>4. Named(logIndexByKey, t)
      BY <2>2, <3>1, <3>2, <3>3 DEF Named
    <3> QED BY <3>4 DEF t
  <2> QED BY <1>2, <2>3, <2>4
<1>8. AllMarked(logs', markedHitKeys') /\ AllMarked(hits', markedHitKeys')
  BY <1>2, <1>3, <1>4 DEF AddsLine
<1>9. LinesOK(logs') /\ Placed(selectedIndex', listScrollIdx', atBottom', Len(logs'))
  BY <1>2, <1>3, <1>5
<1> QED BY <1>4, <1>6, <1>7, <1>8, <1>9 DEF ListInv

LEMMA MergeStep ==
  ASSUME ListInv, AddsLine, NEW hit \in Hit, Marked(hit, markedHitKeys),
         hit.key \in DOMAIN logIndexByKey, logIndexByKey[hit.key] < Len(logs),
         Merge(hit, logIndexByKey[hit.key])
  PROVE  ListInv'
<1> DEFINE key == hit.key
           at == logIndexByKey[key]
           was == hitIndexByKey[key]
           here == key \in DOMAIN hitIndexByKey /\ was < Len(hits)
<1>1. /\ logs \in Seq(Line) /\ Len(logs) <= MaxLogEntries /\ hits \in Seq(Hit)
      /\ Len(hits) <= MaxLogEntries /\ ListTypes /\ Index(logIndexByKey) /\ Index(hitIndexByKey)
      /\ AllMarked(logs, markedHitKeys) /\ AllMarked(hits, markedHitKeys)
      /\ appendMode => Names(hitIndexByKey, hits) /\ (~slipped => Named(logIndexByKey, logs))
  BY DEF ListInv, LinesOK, HitsOK, ListTypes
<1>2. hit \in Line /\ key \in Keys
  BY DEF Hit, Line
<1>3. /\ logs' = Put(logs, at + 1, hit) /\ SetCursor(Cursor)
      /\ UNCHANGED <<logIndexByKey, slipped>>
      /\ here => hits' = Put(hits, was + 1, hit) /\ hitIndexByKey' = hitIndexByKey
      /\ ~here => hits' = Added(hits, hit) /\ hitIndexByKey' = AddedIndex(hitIndexByKey, hits, key)
  BY DEF Merge, Put
<1>4. at \in Nat /\ at < Len(logs) /\ at + 1 \in 1..Len(logs)
  <2>1. at \in Nat /\ at < Len(logs) /\ Len(logs) \in Nat
    BY <1>1 DEF Index
  <2> QED BY <2>1
<1> HIDE DEF at, was, here, key
<1>5. /\ Put(logs, at + 1, hit) \in Seq(Line) /\ Len(Put(logs, at + 1, hit)) = Len(logs)
      /\ DOMAIN Put(logs, at + 1, hit) = DOMAIN logs
      /\ \A i \in DOMAIN logs : Put(logs, at + 1, hit)[i] = IF i = at + 1 THEN hit ELSE logs[i]
      /\ AllMarked(Put(logs, at + 1, hit), markedHitKeys)
  <2> DEFINE n == at + 1
  <2>1. n \in 1..Len(logs)
    BY <1>4
  <2> HIDE DEF n
  <2>2. /\ Put(logs, n, hit) \in Seq(Line) /\ Len(Put(logs, n, hit)) = Len(logs)
        /\ DOMAIN Put(logs, n, hit) = DOMAIN logs
        /\ \A i \in DOMAIN Put(logs, n, hit) : Put(logs, n, hit)[i] = IF i = n THEN hit ELSE logs[i]
    <3>1. logs \in Seq(Line) /\ hit \in Line
      BY <1>1, <1>2
    <3>2. Put(logs, n, hit) \in Seq(Line) /\ Len(Put(logs, n, hit)) = Len(logs)
      BY <2>1, <3>1, PutOK
    <3>3. /\ DOMAIN Put(logs, n, hit) = DOMAIN logs
          /\ \A i \in DOMAIN logs : Put(logs, n, hit)[i] = IF i = n THEN hit ELSE logs[i]
      BY PutLines
    <3> QED BY <3>2, <3>3
  <2>3. AllMarked(Put(logs, n, hit), markedHitKeys)
    BY <1>1, <1>2, <2>1, PutMarked
  <2> QED BY <2>2, <2>3 DEF n
<1>6. HitsOK(hits') /\ AllMarked(hits', markedHitKeys) /\ Index(hitIndexByKey')
      /\ (appendMode => Names(hitIndexByKey', hits'))
  <2>1. CASE here
    <3> DEFINE n == was + 1
               t == Put(hits, n, hit)
    <3>1. was \in Nat /\ was < Len(hits) /\ key \in DOMAIN hitIndexByKey
      BY <1>1, <2>1 DEF Index, was, here
    <3>2. n \in 1..Len(hits)
      <4>1. Len(hits) \in Nat
        BY <1>1
      <4> QED BY <3>1, <4>1
    <3>3. hits' = t /\ hitIndexByKey' = hitIndexByKey
      BY <1>3, <2>1
    <3> HIDE DEF n
    <3>4. t \in Seq(Hit) /\ Len(t) = Len(hits) /\ DOMAIN t = DOMAIN hits
          /\ \A i \in DOMAIN t : t[i] = IF i = n THEN hit ELSE hits[i]
      <4>1. hits \in Seq(Hit) /\ hit \in Hit
        BY <1>1
      <4>2. t \in Seq(Hit) /\ Len(t) = Len(hits)
        BY <3>2, <4>1, PutOK
      <4>3. DOMAIN t = DOMAIN hits /\ \A i \in DOMAIN hits : t[i] = IF i = n THEN hit ELSE hits[i]
        BY PutLines
      <4> HIDE DEF t
      <4> QED BY <4>2, <4>3
    <3>5. AllMarked(t, markedHitKeys)
      BY <1>1, <3>2, PutMarked
    <3> HIDE DEF t
    <3>6. ASSUME appendMode, NEW k \in DOMAIN hitIndexByKey
          PROVE  hitIndexByKey[k] < Len(t) /\ t[hitIndexByKey[k] + 1].key = k
      <4> DEFINE v == hitIndexByKey[k]
      <4>1. v \in Nat /\ v < Len(hits) /\ hits[v + 1].key = k
        BY <1>1, <3>6 DEF Names, Index
      <4>2. v + 1 \in DOMAIN hits
        BY <1>1, <4>1
      <4>3. was < Len(hits) /\ hits[n].key = key
        BY <1>1, <3>1, <3>6 DEF Names, was, n
      <4> HIDE DEF v
      <4>4. t[v + 1].key = k
        <5>1. CASE v + 1 = n
          BY <3>4, <4>1, <4>2, <4>3, <5>1 DEF key
        <5>2. CASE v + 1 # n
          BY <3>4, <4>1, <4>2, <5>2
        <5> QED BY <5>1, <5>2
      <4> QED BY <3>4, <4>1, <4>4 DEF v
    <3> QED BY <1>1, <3>3, <3>4, <3>5, <3>6 DEF HitsOK, Names
  <2>2. CASE ~here
    <3>1. hits' = Added(hits, hit) /\ hitIndexByKey' = AddedIndex(hitIndexByKey, hits, key)
      BY <1>3, <2>2
    <3>2. Added(hits, hit) \in Seq(Hit) /\ Len(Added(hits, hit)) <= MaxLogEntries
      BY <1>1, AddedOK
    <3>3. AllMarked(Added(hits, hit), markedHitKeys)
      BY <1>1, AddedMarked
    <3>4. Index(AddedIndex(hitIndexByKey, hits, key))
      BY <1>1, <1>2, AddedIndexOK
    <3>5. appendMode => Names(AddedIndex(hitIndexByKey, hits, key), Added(hits, hit))
      BY <1>1, <1>2, NamesAdded DEF key
    <3> QED BY <3>1, <3>2, <3>3, <3>4, <3>5 DEF HitsOK
  <2> QED BY <2>1, <2>2
<1>7. ASSUME appendMode, ~slipped PROVE Named(logIndexByKey, logs')
  <2>1. Named(logIndexByKey, logs)
    BY <1>1, <1>7
  <2>2. DOMAIN logs' = DOMAIN logs /\ \A i \in DOMAIN logs : logs'[i] = IF i = at + 1 THEN hit ELSE logs[i]
    BY <1>3, <1>5
  <2>3. ASSUME NEW i \in DOMAIN logs, logs'[i].key # NoHit
        PROVE  logs'[i].key \in DOMAIN logIndexByKey /\ logIndexByKey[logs'[i].key] = i - 1
    <3>1. CASE i = at + 1
      <4>1. logs'[i].key = key /\ key \in DOMAIN logIndexByKey /\ logIndexByKey[key] = at
        BY <2>2, <3>1 DEF key, at
      <4>2. at = i - 1
        BY <1>4, <3>1
      <4> QED BY <4>1, <4>2
    <3>2. CASE i # at + 1
      BY <2>1, <2>2, <2>3, <3>2 DEF Named
    <3> QED BY <3>1, <3>2
  <2> QED BY <2>2, <2>3 DEF Named
<1>8. ListTypes' /\ SeenOK' /\ ListFlushed'
  <2>1. Index(logIndexByKey') /\ slipped' \in BOOLEAN
    BY <1>1, <1>3 DEF ListTypes
  <2> QED BY <1>6, <2>1, AddsLineKeeps
<1>9. LinesOK(logs') /\ Placed(selectedIndex', listScrollIdx', atBottom', Len(logs'))
  <2>1. LinesOK(logs') /\ Len(logs') = Len(logs)
    BY <1>1, <1>3, <1>5 DEF LinesOK
  <2>2. CurOK(Cursor, Len(logs))
    BY CursorOK
  <2>3. Placed(selectedIndex', listScrollIdx', atBottom', Len(logs))
    BY <1>3, <2>2, PlacedNext
  <2> QED BY <2>1, <2>3
<1>10. AllMarked(logs', markedHitKeys') /\ AllMarked(hits', markedHitKeys')
  BY <1>3, <1>5, <1>6 DEF AddsLine
<1>11. appendMode' => Names(hitIndexByKey', hits') /\ (~slipped' => Named(logIndexByKey', logs'))
  BY <1>3, <1>6, <1>7 DEF AddsLine
<1> QED BY <1>6, <1>8, <1>9, <1>10, <1>11 DEF ListInv

LEMMA ExtendStep ==
  ASSUME ListInv, AddsLine, NEW hit \in Hit, Marked(hit, markedHitKeys),
         ~(hit.key \in DOMAIN logIndexByKey /\ logIndexByKey[hit.key] < Len(logs)), Extend(hit)
  PROVE  ListInv'
<1> DEFINE key == hit.key
           ls == Added(logs, hit)
           hs == Added(hits, hit)
           li == AddedIndex(logIndexByKey, logs, key)
           hi == AddedIndex(hitIndexByKey, hits, key)
<1>1. /\ logs \in Seq(Line) /\ Len(logs) <= MaxLogEntries /\ hits \in Seq(Hit)
      /\ Len(hits) <= MaxLogEntries /\ ListTypes /\ Index(logIndexByKey) /\ Index(hitIndexByKey)
      /\ AllMarked(logs, markedHitKeys) /\ AllMarked(hits, markedHitKeys)
      /\ appendMode => Names(hitIndexByKey, hits) /\ (~slipped => Named(logIndexByKey, logs))
  BY DEF ListInv, LinesOK, HitsOK, ListTypes
<1>2. hit \in Line /\ key \in Keys
  BY DEF Hit, Line
<1>3. /\ logs' = ls /\ hits' = hs /\ logIndexByKey' = li /\ hitIndexByKey' = hi
      /\ SetCursor(Followed(ls, IF Full(logs) THEN Shifted ELSE Cursor)) /\ slipped' = slipped
  BY DEF Extend
<1>4. LinesOK(ls) /\ AllMarked(ls, markedHitKeys)
  <2>1. ls \in Seq(Line) /\ Len(ls) <= MaxLogEntries
    BY <1>1, <1>2, AddedOK
  <2>2. AllMarked(ls, markedHitKeys)
    BY <1>1, <1>2, AddedMarked
  <2> QED BY <2>1, <2>2 DEF LinesOK
<1>5. HitsOK(hs) /\ AllMarked(hs, markedHitKeys)
  <2>1. hs \in Seq(Hit) /\ Len(hs) <= MaxLogEntries
    BY <1>1, AddedOK
  <2>2. AllMarked(hs, markedHitKeys)
    BY <1>1, AddedMarked
  <2> QED BY <2>1, <2>2 DEF HitsOK
<1>6. Index(li) /\ Index(hi)
  BY <1>1, <1>2, AddedIndexOK
<1>7. appendMode => Names(hi, hs)
  BY <1>1, <1>2, NamesAdded
<1>8. appendMode /\ ~slipped => Named(li, ls)
  BY <1>1, <1>2, NamedAdded
<1>9. CurOK(Followed(ls, IF Full(logs) THEN Shifted ELSE Cursor), Len(ls))
  BY <1>1, <1>2, FollowedOK
<1> HIDE DEF key, ls, hs, li, hi
<1>10. ListTypes' /\ SeenOK' /\ ListFlushed'
  <2>1. slipped' \in BOOLEAN
    BY <1>1, <1>3 DEF ListTypes
  <2> QED BY <1>3, <1>6, <2>1, AddsLineKeeps
<1>11. Placed(selectedIndex', listScrollIdx', atBottom', Len(ls))
  BY <1>3, <1>9, PlacedNext
<1>12. AllMarked(logs', markedHitKeys') /\ AllMarked(hits', markedHitKeys')
  BY <1>3, <1>4, <1>5 DEF AddsLine
<1>13. appendMode' => Names(hitIndexByKey', hits') /\ (~slipped' => Named(logIndexByKey', logs'))
  BY <1>3, <1>7, <1>8 DEF AddsLine
<1> QED BY <1>3, <1>4, <1>5, <1>10, <1>11, <1>12, <1>13 DEF ListInv

LEMMA ResultMsgStep == ASSUME ListInv, NEW k \in Keys, ResultMsg(k) PROVE ListInv'
<1> DEFINE h == applyMarkedHit(k)
<1>1. h \in Hit /\ h \in Line /\ h.key = k /\ Marked(h, markedHitKeys)
  BY HitMarked
<1>2. AddsLine /\ (IF appendMode THEN upsertHistoryHit(h) ELSE appendLog(h))
  BY DEF ResultMsg, AddsLine
<1> HIDE DEF h
<1>3. CASE ~appendMode
  BY <1>1, <1>2, <1>3, AppendLogStep
<1>4. CASE appendMode
  <2>1. CASE h.key \in DOMAIN logIndexByKey /\ logIndexByKey[h.key] < Len(logs)
    BY <1>1, <1>2, <1>4, <2>1, MergeStep DEF upsertHistoryHit
  <2>2. CASE ~(h.key \in DOMAIN logIndexByKey /\ logIndexByKey[h.key] < Len(logs))
    BY <1>1, <1>2, <1>4, <2>2, ExtendStep DEF upsertHistoryHit
  <2> QED BY <2>1, <2>2
<1> QED BY <1>3, <1>4

LEMMA AutoFilterMsgStep == ASSUME ListInv, AutoFilterMsg PROVE ListInv'
<1> DEFINE l == [key |-> NoHit, marked |-> FALSE]
<1>1. l \in Line /\ l.key = NoHit /\ Marked(l, markedHitKeys)
  BY DEF Line, Marked
<1>2. AddsLine /\ appendLog(l)
  BY DEF AutoFilterMsg, AddsLine
<1> HIDE DEF l
<1> QED BY <1>1, <1>2, AppendLogStep

-----------------------------------------------------------------------------
(* Keys, commands and ticks.                                                  *)
LEMMA DrawnOK ==
  ASSUME NEW ls \in Seq(Line), NEW only, NEW cur, CurOK(cur, Len(ls)), renderListView(ls, only, cur)
  PROVE  /\ Placed(selectedIndex', listScrollIdx', atBottom', Len(ls))
         /\ Seen(ls, only, selectedIndex', listScrollIdx')
<1> DEFINE c == Rendered(ls, only, cur)
<1>1. CurOK(c, Len(ls)) /\ Seen(ls, only, c.sel, c.scroll)
  <2>1. CASE ls = <<>>
    <3>1. c = cur
      BY <2>1 DEF Rendered
    <3>2. visibleListIndexes(ls, only) = {}
      BY <2>1 DEF visibleListIndexes
    <3> HIDE DEF c
    <3> QED BY <3>1, <3>2 DEF Seen
  <2>2. CASE ls # <<>>
    <3>1. DOMAIN cur = {"sel", "pos", "scroll", "bottom"} /\ cur.scroll \in Nat
      BY DEF CurOK, Placed
    <3> QED BY <2>2, <3>1, RenderedOK
  <2> QED BY <2>1, <2>2
<1>2. SetCursor(c)
  BY DEF renderListView
<1> HIDE DEF c
<1> QED BY <1>1, <1>2 DEF SetCursor, CurOK

(* A step that leaves the lines, the hits, the indexes and the marks alone.   *)
SameLines == UNCHANGED <<logs, hits, logIndexByKey, hitIndexByKey, appendMode, received,
                         slipped, markedHitKeys>>

LEMMA SameLinesKeep ==
  ASSUME ListInv, SameLines, view' \in {"list", "detail"}, anomalyFilterOnly' \in BOOLEAN,
         logsChanged' \in BOOLEAN, uiStateDirty' \in BOOLEAN,
         uiFile' \in [marks : SUBSET Keys, only : BOOLEAN],
         Placed(selectedIndex', listScrollIdx', atBottom', Len(logs)), SeenOK', ListFlushed'
  PROVE  ListInv'
<1>1. ListTypes'
  BY DEF ListInv, ListTypes, SameLines
<1>2. LinesOK(logs') /\ HitsOK(hits')
  BY DEF ListInv, SameLines
<1>3. AllMarked(logs', markedHitKeys') /\ AllMarked(hits', markedHitKeys')
  BY DEF ListInv, SameLines
<1>4. appendMode' => Names(hitIndexByKey', hits') /\ (~slipped' => Named(logIndexByKey', logs'))
  BY DEF ListInv, SameLines
<1>5. Placed(selectedIndex', listScrollIdx', atBottom', Len(logs'))
  BY DEF SameLines
<1> QED BY <1>1, <1>2, <1>3, <1>4, <1>5 DEF ListInv

LEMMA MoveStep ==
  ASSUME ListInv, NEW delta \in Int, moveListSelection(delta)
  PROVE  ListInv'
<1> DEFINE vis == visibleListIndexes(logs, anomalyFilterOnly)
           norm == normalizeVisibleSelection(vis, Cursor)
           n == Cardinality(vis)
           pos == Higher(0, Lower(norm.pos + delta, n - 1))
           cur == [norm EXCEPT !.sel = AtPos(vis, pos), !.pos = pos]
           moved == syncVisibleScroll(vis, cur)
<1>1. logs \in Seq(Line) /\ Len(logs) \in Nat /\ ListTypes /\ ListFlushed
  BY DEF ListInv, LinesOK
<1>2. /\ view = "list" /\ SameLines
      /\ UNCHANGED <<view, anomalyFilterOnly, logsChanged, uiFile, uiStateDirty>>
      /\ vis = {} => renderListView(logs, anomalyFilterOnly, norm)
      /\ vis # {} => renderListView(logs, anomalyFilterOnly, moved)
  BY DEF moveListSelection, Bound, SameLines
<1>3. /\ vis \subseteq 0..(Len(logs) - 1) /\ n \in Nat
      /\ \A i \in vis : PosIn(vis, i) \in 0..(n - 1)
  BY <1>1, VisibleOK
<1>4. CurOK(Cursor, Len(logs))
  BY CursorOK
<1> HIDE DEF vis
<1>5. /\ Placed(selectedIndex', listScrollIdx', atBottom', Len(logs))
      /\ Seen(logs, anomalyFilterOnly, selectedIndex', listScrollIdx')
  <2>1. CASE vis = {}
    <3>1. norm = [sel |-> 0, pos |-> -1, scroll |-> 0, bottom |-> TRUE]
      BY <2>1 DEF normalizeVisibleSelection
    <3> HIDE DEF norm
    <3>2. CurOK(norm, Len(logs))
      <4> DEFINE m == Len(logs)
      <4>1. m \in Nat
        BY <1>1
      <4> HIDE DEF m
      <4>2. CurOK(norm, m)
        BY <3>1, <4>1 DEF CurOK, Placed
      <4> QED BY <4>2 DEF m
    <3> QED BY <1>1, <1>2, <2>1, <3>2, DrawnOK
  <2>2. CASE vis # {}
    <3>1. DOMAIN Cursor = {"sel", "pos", "scroll", "bottom"} /\ Cursor.scroll \in Nat
      BY <1>4 DEF CurOK, Placed
    <3>2. vis \subseteq Nat
      BY <1>3
    <3>3. /\ DOMAIN norm = {"sel", "pos", "scroll", "bottom"} /\ norm.sel \in vis
          /\ norm.pos = PosIn(vis, norm.sel) /\ norm.scroll \in Nat
      BY <1>3, <2>2, <3>1, <3>2, NormOK
    <3>4. norm.pos \in 0..(n - 1)
      BY <1>3, <3>3
    <3> DEFINE p == norm.pos
    <3> HIDE DEF norm, n
    <3>5. pos \in 0..(n - 1)
      <4> HIDE DEF p
      <4>1. p \in 0..(n - 1)
        BY <3>4 DEF p
      <4>2. pos = Higher(0, Lower(p + delta, n - 1))
        BY DEF p
      <4> HIDE DEF pos
      <4> QED BY <1>3, <4>1, <4>2 DEF Higher, Lower
    <3> HIDE DEF pos
    <3>6. DOMAIN cur = {"sel", "pos", "scroll", "bottom"} /\ cur.pos = pos /\ cur.scroll = norm.scroll
      BY <3>3
    <3> HIDE DEF cur
    <3>7. DOMAIN moved = {"sel", "pos", "scroll", "bottom"} /\ moved.scroll \in Nat
      <4>1. /\ DOMAIN moved = DOMAIN cur /\ moved.scroll \in Nat
        BY <1>3, <3>3, <3>5, <3>6, SyncOK DEF n
      <4> QED BY <3>6, <4>1
    <3> HIDE DEF moved
    <3>8. logs # <<>>
      <4> DEFINE m == Len(logs)
      <4>0. PICK i \in vis : i \in 0..(m - 1)
        BY <1>3, <2>2
      <4> HIDE DEF m
      <4>2. m # 0
        BY <4>0
      <4>1. Len(logs) # 0
        BY <4>2 DEF m
      <4> QED BY <4>1
    <3> DEFINE c == Rendered(logs, anomalyFilterOnly, moved)
    <3>9. CurOK(c, Len(logs)) /\ Seen(logs, anomalyFilterOnly, c.sel, c.scroll)
      BY <1>1, <3>7, <3>8, RenderedOK
    <3>10. SetCursor(c)
      BY <1>2, <2>2 DEF renderListView
    <3> HIDE DEF c
    <3> QED BY <3>9, <3>10 DEF SetCursor, CurOK
  <2> QED BY <2>1, <2>2
<1>6. SeenOK'
  BY <1>2, <1>5 DEF SeenOK, SameLines
<1>7. ListFlushed'
  BY <1>1, <1>2 DEF ListFlushed, SameLines
<1>8. /\ view' \in {"list", "detail"} /\ anomalyFilterOnly' \in BOOLEAN /\ logsChanged' \in BOOLEAN
      /\ uiStateDirty' \in BOOLEAN /\ uiFile' \in [marks : SUBSET Keys, only : BOOLEAN]
  BY <1>1, <1>2 DEF ListTypes
<1> QED BY <1>2, <1>5, <1>6, <1>7, <1>8, SameLinesKeep

LEMMA FilterStep == ASSUME ListInv, setAnomalyFilterOnly PROVE ListInv'
<1> DEFINE cur == [Cursor EXCEPT !.scroll = 0]
<1>1. logs \in Seq(Line) /\ ListTypes /\ CurOK(Cursor, Len(logs))
  BY CursorOK DEF ListInv, LinesOK
<1>2. /\ SameLines /\ view' = view /\ logsChanged' = logsChanged /\ uiFile' = uiFile
      /\ anomalyFilterOnly' = ~anomalyFilterOnly /\ uiStateDirty' = appendMode
      /\ renderListView(logs, ~anomalyFilterOnly, cur)
  BY DEF setAnomalyFilterOnly, Bound, SameLines
<1>3. CurOK(cur, Len(logs))
  BY <1>1 DEF CurOK, Placed
<1> HIDE DEF cur
<1>4. /\ Placed(selectedIndex', listScrollIdx', atBottom', Len(logs))
      /\ Seen(logs, ~anomalyFilterOnly, selectedIndex', listScrollIdx')
  BY <1>1, <1>2, <1>3, DrawnOK
<1>5. SeenOK'
  BY <1>2, <1>4 DEF SeenOK, SameLines
<1>6. ListFlushed'
  BY <1>2 DEF ListFlushed, SameLines
<1>7. /\ view' \in {"list", "detail"} /\ anomalyFilterOnly' \in BOOLEAN /\ logsChanged' \in BOOLEAN
      /\ uiStateDirty' \in BOOLEAN /\ uiFile' \in [marks : SUBSET Keys, only : BOOLEAN]
  BY <1>1, <1>2 DEF ListTypes
<1> QED BY <1>2, <1>4, <1>5, <1>6, <1>7, SameLinesKeep

LEMMA OpenDetailStep == ASSUME ListInv, OpenDetail PROVE ListInv'
<1>1. /\ SameLines /\ view' = "detail"
      /\ UNCHANGED <<selectedIndex, listScrollIdx, atBottom, anomalyFilterOnly, logsChanged,
                     uiFile, uiStateDirty>>
  BY DEF OpenDetail, Bound, SameLines
<1>2. ListTypes /\ ListFlushed /\ Placed(selectedIndex, listScrollIdx, atBottom, Len(logs))
  BY DEF ListInv
<1>3. SeenOK'
  BY <1>1 DEF SeenOK
<1>4. ListFlushed'
  BY <1>1, <1>2 DEF ListFlushed, SameLines
<1>5. /\ view' \in {"list", "detail"} /\ anomalyFilterOnly' \in BOOLEAN /\ logsChanged' \in BOOLEAN
      /\ uiStateDirty' \in BOOLEAN /\ uiFile' \in [marks : SUBSET Keys, only : BOOLEAN]
      /\ Placed(selectedIndex', listScrollIdx', atBottom', Len(logs))
  BY <1>1, <1>2 DEF ListTypes
<1> QED BY <1>1, <1>3, <1>4, <1>5, SameLinesKeep

LEMMA BackToListStep == ASSUME ListInv, BackToList PROVE ListInv'
<1>1. /\ SameLines /\ view' = "list"
      /\ UNCHANGED <<anomalyFilterOnly, logsChanged, uiFile, uiStateDirty>>
      /\ renderListView(logs, anomalyFilterOnly, Cursor)
  BY DEF BackToList, Bound, SameLines
<1>2. logs \in Seq(Line) /\ ListTypes /\ ListFlushed /\ CurOK(Cursor, Len(logs))
  BY CursorOK DEF ListInv, LinesOK
<1>3. /\ Placed(selectedIndex', listScrollIdx', atBottom', Len(logs))
      /\ Seen(logs, anomalyFilterOnly, selectedIndex', listScrollIdx')
  BY <1>1, <1>2, DrawnOK
<1>4. SeenOK'
  BY <1>1, <1>3 DEF SeenOK, SameLines
<1>5. ListFlushed'
  BY <1>1, <1>2 DEF ListFlushed, SameLines
<1>6. /\ view' \in {"list", "detail"} /\ anomalyFilterOnly' \in BOOLEAN /\ logsChanged' \in BOOLEAN
      /\ uiStateDirty' \in BOOLEAN /\ uiFile' \in [marks : SUBSET Keys, only : BOOLEAN]
  BY <1>1, <1>2 DEF ListTypes
<1> QED BY <1>1, <1>3, <1>4, <1>5, <1>6, SameLinesKeep

LEMMA TickStep == ASSUME ListInv, TickMsg PROVE ListInv'
<1>1. /\ SameLines /\ view' = view /\ anomalyFilterOnly' = anomalyFilterOnly /\ logsChanged' = FALSE
      /\ (IF logsChanged THEN renderListView(logs, anomalyFilterOnly, Cursor) ELSE SetCursor(Cursor))
      /\ (FlushPersistedUIState \/ UNCHANGED <<uiFile, uiStateDirty>>)
  BY DEF TickMsg, Bound, SameLines
<1>2. /\ logs \in Seq(Line) /\ ListTypes /\ ListFlushed /\ CurOK(Cursor, Len(logs)) /\ SeenOK
      /\ Cursor.sel = selectedIndex /\ Cursor.scroll = listScrollIdx
  BY CursorOK DEF ListInv, LinesOK
<1>3. /\ Placed(selectedIndex', listScrollIdx', atBottom', Len(logs)) /\ SeenOK'
  <2>1. CASE logsChanged
    <3>1. /\ Placed(selectedIndex', listScrollIdx', atBottom', Len(logs))
          /\ Seen(logs, anomalyFilterOnly, selectedIndex', listScrollIdx')
      BY <1>1, <1>2, <2>1, DrawnOK
    <3>2. SeenOK'
      BY <1>1, <3>1 DEF SeenOK, SameLines
    <3> QED BY <3>1, <3>2
  <2>2. CASE ~logsChanged
    <3>1. SetCursor(Cursor)
      BY <1>1, <2>2
    <3>2. Placed(selectedIndex', listScrollIdx', atBottom', Len(logs))
      BY <1>2, <3>1, PlacedNext
    <3>3. selectedIndex' = selectedIndex /\ listScrollIdx' = listScrollIdx
      BY <1>2, <3>1 DEF SetCursor
    <3>4. SeenOK'
      BY <1>1, <1>2, <2>2, <3>3 DEF SeenOK, SameLines
    <3> QED BY <3>2, <3>4
  <2>3. logsChanged \in BOOLEAN
    BY <1>2 DEF ListTypes
  <2> QED BY <2>1, <2>2, <2>3
<1>4. /\ uiStateDirty' \in BOOLEAN /\ uiFile' \in [marks : SUBSET Keys, only : BOOLEAN] /\ ListFlushed'
  <2>1. CASE UNCHANGED <<uiFile, uiStateDirty>>
    BY <1>1, <1>2, <2>1 DEF ListFlushed, SameLines, ListTypes
  <2>2. CASE FlushPersistedUIState
    <3> DEFINE f == [marks |-> markedHitKeys, only |-> anomalyFilterOnly]
    <3>1. f \in [marks : SUBSET Keys, only : BOOLEAN]
      BY <1>2 DEF ListTypes
    <3>2. uiFile' = (IF appendMode THEN f ELSE uiFile) /\ uiStateDirty' = FALSE
      BY <2>2 DEF FlushPersistedUIState
    <3>3. f' = f /\ appendMode' = appendMode
      BY <1>1 DEF SameLines
    <3>4. ListFlushed'
      BY <3>2, <3>3 DEF ListFlushed
    <3>5. uiFile' \in [marks : SUBSET Keys, only : BOOLEAN]
      BY <1>2, <3>1, <3>2 DEF ListTypes
    <3> QED BY <3>2, <3>4, <3>5
  <2> QED BY <1>1, <2>1, <2>2
<1>5. view' \in {"list", "detail"} /\ anomalyFilterOnly' \in BOOLEAN /\ logsChanged' \in BOOLEAN
  BY <1>1, <1>2 DEF ListTypes
<1> QED BY <1>1, <1>3, <1>4, <1>5, SameLinesKeep

LEMMA ClearStep == ASSUME ListInv, clearScanLogs PROVE ListInv'
<1> DEFINE cur == [sel |-> 0, pos |-> -1, scroll |-> 0, bottom |-> TRUE]
<1>1. /\ logs' = <<>> /\ hits' = <<>> /\ logIndexByKey' = <<>> /\ hitIndexByKey' = <<>>
      /\ SetCursor(cur)
      /\ UNCHANGED <<view, markedHitKeys, anomalyFilterOnly, logsChanged, uiFile, uiStateDirty,
                     appendMode, received, slipped>>
  BY DEF clearScanLogs, Bound
<1>2. ListTypes /\ ListFlushed
  BY DEF ListInv
<1>3. selectedIndex' = 0 /\ listScrollIdx' = 0 /\ atBottom' = TRUE
  BY <1>1 DEF SetCursor
<1>4. ListTypes'
  BY <1>1, <1>2 DEF ListTypes, Index
<1>5. LinesOK(logs') /\ HitsOK(hits')
  BY <1>1, ListAssumption DEF LinesOK, HitsOK
<1>6. Placed(selectedIndex', listScrollIdx', atBottom', Len(logs'))
  BY <1>1, <1>3 DEF Placed
<1>7. SeenOK'
  BY <1>1 DEF SeenOK, Seen, visibleListIndexes
<1>8. AllMarked(logs', markedHitKeys') /\ AllMarked(hits', markedHitKeys')
  BY <1>1 DEF AllMarked
<1>9. Names(hitIndexByKey', hits') /\ Named(logIndexByKey', logs')
  BY <1>1 DEF Names, Named
<1>10. ListFlushed'
  BY <1>1, <1>2 DEF ListFlushed
<1> QED BY <1>4, <1>5, <1>6, <1>7, <1>8, <1>9, <1>10 DEF ListInv

LEMMA ToggleStep == ASSUME ListInv, toggleSelectedHitMarked PROVE ListInv'
<1>1. PICK key : key = logs[selectedIndex + 1].key
  OBVIOUS
<1>2. PICK marked : marked = ~logs[selectedIndex + 1].marked
  OBVIOUS
<1>3. PICK marks : marks = IF marked THEN markedHitKeys \cup {key} ELSE markedHitKeys \ {key}
  OBVIOUS
<1> DEFINE ls == Remarked(logs, marks)
           hs == Remarked(hits, marks)
<1>4. /\ logs \in Seq(Line) /\ Len(logs) <= MaxLogEntries /\ hits \in Seq(Hit)
      /\ Len(hits) <= MaxLogEntries /\ ListTypes /\ CurOK(Cursor, Len(logs))
      /\ appendMode => Names(hitIndexByKey, hits) /\ (~slipped => Named(logIndexByKey, logs))
      /\ selectedIndex \in Nat
  BY CursorOK DEF ListInv, LinesOK, HitsOK, Placed
<1>5. marks \subseteq Keys
  <2>1. selectedIndex + 1 \in 1..Len(logs) /\ key # NoHit
    BY <1>1, <1>4 DEF toggleSelectedHitMarked, SelectedHit
  <2>2. logs[selectedIndex + 1] \in Line
    BY <1>4, <2>1
  <2>3. key \in Keys
    BY <1>1, <2>1, <2>2 DEF Line
  <2>4. markedHitKeys \subseteq Keys
    BY <1>4 DEF ListTypes
  <2> QED BY <1>3, <2>3, <2>4
<1>6. setMarkedHitByKey(key, marked)
  BY <1>1, <1>2 DEF toggleSelectedHitMarked
<1>7. /\ markedHitKeys' = marks /\ logs' = ls /\ hits' = hs
      /\ (IF view = "list" THEN renderListView(ls, anomalyFilterOnly, Cursor) ELSE SetCursor(Cursor))
  BY <1>3, <1>6 DEF setMarkedHitByKey
<1>8. /\ logsChanged' = TRUE /\ uiStateDirty' = appendMode
      /\ UNCHANGED <<view, logIndexByKey, hitIndexByKey, anomalyFilterOnly, uiFile, appendMode,
                     received, slipped>>
  BY DEF toggleSelectedHitMarked, Bound
<1>9. /\ ls \in Seq(Line) /\ Len(ls) = Len(logs) /\ DOMAIN ls = DOMAIN logs
      /\ \A i \in DOMAIN ls : ls[i].key = logs[i].key
      /\ AllMarked(ls, marks)
  BY <1>4, RemarkedOK
<1>10. /\ hs \in Seq(Hit) /\ Len(hs) = Len(hits) /\ DOMAIN hs = DOMAIN hits
       /\ \A i \in DOMAIN hs : hs[i].key = hits[i].key
       /\ AllMarked(hs, marks)
  BY <1>4, RemarkedOK
<1> HIDE DEF ls, hs
<1>11. Placed(selectedIndex', listScrollIdx', atBottom', Len(ls))
  <2>1. CASE view = "list"
    BY <1>4, <1>7, <1>9, <2>1, DrawnOK
  <2>2. CASE view # "list"
    BY <1>4, <1>7, <1>9, <2>2, PlacedNext
  <2> QED BY <2>1, <2>2
<1>12. ASSUME appendMode PROVE Names(hitIndexByKey, hs)
  <2>1. ASSUME NEW k \in DOMAIN hitIndexByKey
        PROVE  hitIndexByKey[k] < Len(hs) /\ hs[hitIndexByKey[k] + 1].key = k
    <3>1. hitIndexByKey[k] < Len(hits) /\ hits[hitIndexByKey[k] + 1].key = k
      BY <1>4, <1>12 DEF Names
    <3>2. hitIndexByKey[k] \in Nat
      BY <1>4 DEF ListTypes, Index
    <3>3. hitIndexByKey[k] + 1 \in DOMAIN hits
      BY <1>4, <3>1, <3>2
    <3> QED BY <1>10, <3>1, <3>3
  <2> QED BY <2>1 DEF Names
<1>13. ASSUME appendMode, ~slipped PROVE Named(logIndexByKey, ls)
  <2>1. Named(logIndexByKey, logs)
    BY <1>4, <1>13
  <2> QED BY <1>9, <2>1 DEF Named
<1>14. ListTypes'
  BY <1>4, <1>5, <1>7, <1>8 DEF ListTypes
<1>15. SeenOK' /\ ListFlushed'
  BY <1>8 DEF SeenOK, ListFlushed
<1>16. LinesOK(logs') /\ HitsOK(hits')
  BY <1>4, <1>7, <1>9, <1>10 DEF LinesOK, HitsOK
<1>17. AllMarked(logs', markedHitKeys') /\ AllMarked(hits', markedHitKeys')
  BY <1>7, <1>9, <1>10
<1>18. appendMode' => Names(hitIndexByKey', hits') /\ (~slipped' => Named(logIndexByKey', logs'))
  BY <1>7, <1>8, <1>12, <1>13
<1> QED BY <1>7, <1>11, <1>14, <1>15, <1>16, <1>17, <1>18 DEF ListInv

-----------------------------------------------------------------------------
(* The restart over a ledger: every finding of it has one place.              *)
PlacesOf(ks) == [k \in Range(ks) |-> CHOOSE i \in 0 .. Len(ks) - 1 : ks[i + 1] = k]

LEMMA LedgersOK ==
  ASSUME NEW ks \in Ledgers
  PROVE  /\ ks \in Seq(Keys) /\ ks # <<>> /\ Len(ks) \in Nat \ {0} /\ Len(ks) <= MaxLogEntries
         /\ DOMAIN ks = 1..Len(ks) /\ \A i, j \in DOMAIN ks : ks[i] = ks[j] => i = j
<1>1. /\ ks \in SeqOf(Keys, Lower(MaxLogEntries, Cardinality(Keys))) /\ ks # <<>>
      /\ \A i, j \in DOMAIN ks : ks[i] = ks[j] => i = j
  BY DEF Ledgers
<1>2. MaxLogEntries \in Nat /\ Cardinality(Keys) \in Nat
  BY ListAssumption, FS_CardinalityType
<1>3. PICK m \in 0..Lower(MaxLogEntries, Cardinality(Keys)) : ks \in [1..m -> Keys]
  BY <1>1 DEF SeqOf
<1>4. m \in Nat /\ m <= MaxLogEntries
  BY <1>2, <1>3 DEF Lower
<1>5. ks \in Seq(Keys) /\ Len(ks) = m
  BY <1>3, <1>4
<1>6. Len(ks) # 0
  BY <1>1, <1>5
<1> QED BY <1>1, <1>4, <1>5, <1>6

LEMMA PlacesOK ==
  ASSUME NEW ks \in Ledgers
  PROVE  LET x == PlacesOf(ks) IN
         /\ Index(x) /\ DOMAIN x = Range(ks)
         /\ \A k \in DOMAIN x : x[k] < Len(ks) /\ x[k] + 1 \in DOMAIN ks /\ ks[x[k] + 1] = k
         /\ \A i \in DOMAIN ks : ks[i] \in DOMAIN x /\ x[ks[i]] = i - 1
<1> DEFINE x == PlacesOf(ks)
<1>1. /\ ks \in Seq(Keys) /\ Len(ks) \in Nat \ {0}
      /\ DOMAIN ks = 1..Len(ks) /\ \A i, j \in DOMAIN ks : ks[i] = ks[j] => i = j
  BY LedgersOK
<1>2. DOMAIN x = Range(ks)
  BY DEF PlacesOf
<1>3. ASSUME NEW k \in Range(ks)
      PROVE  x[k] \in 0 .. Len(ks) - 1 /\ ks[x[k] + 1] = k
  <2>1. PICK i \in 1..Len(ks) : ks[i] = k
    BY <1>1 DEF Range
  <2> DEFINE j == i - 1
  <2>2. j \in 0 .. Len(ks) - 1 /\ j + 1 = i
    BY <1>1, <2>1
  <2> HIDE DEF j
  <2>3. ks[j + 1] = k
    BY <2>1, <2>2
  <2>4. x[k] = CHOOSE n \in 0 .. Len(ks) - 1 : ks[n + 1] = k
    BY DEF PlacesOf
  <2> HIDE DEF x
  <2> QED BY <2>2, <2>3, <2>4
<1> HIDE DEF x
<1>4. ASSUME NEW k \in DOMAIN x
      PROVE  x[k] \in Nat /\ k \in Keys /\ x[k] < Len(ks) /\ x[k] + 1 \in DOMAIN ks /\ ks[x[k] + 1] = k
  <2>1. x[k] \in 0 .. Len(ks) - 1 /\ ks[x[k] + 1] = k
    BY <1>2, <1>3
  <2>2. x[k] \in Nat /\ x[k] < Len(ks) /\ x[k] + 1 \in DOMAIN ks
    BY <1>1, <2>1
  <2>3. k \in Keys
    BY <1>1, <2>1, <2>2
  <2> QED BY <2>1, <2>2, <2>3
<1>5. ASSUME NEW i \in DOMAIN ks
      PROVE  ks[i] \in DOMAIN x /\ x[ks[i]] = i - 1
  <2>1. ks[i] \in DOMAIN x
    BY <1>2 DEF Range
  <2>2. x[ks[i]] \in Nat /\ x[ks[i]] + 1 \in DOMAIN ks /\ ks[x[ks[i]] + 1] = ks[i]
    BY <1>4, <2>1
  <2>3. x[ks[i]] + 1 = i
    BY <1>1, <2>2
  <2>4. i \in Nat
    BY <1>1
  <2> QED BY <2>1, <2>2, <2>3, <2>4
<1>6. Index(x)
  BY <1>4 DEF Index
<1> QED BY <1>2, <1>4, <1>5, <1>6 DEF x

LEMMA LedgerStep ==
  ASSUME ListInv, NEW ks \in Ledgers, NEW clean \in BOOLEAN, LoadPersisted(ks, clean)
  PROVE  ListInv'
<1>1. PICK file : file = IF clean THEN [marks |-> markedHitKeys, only |-> anomalyFilterOnly] ELSE uiFile
  OBVIOUS
<1> DEFINE ls == [i \in DOMAIN ks |-> [key |-> ks[i], marked |-> ks[i] \in file.marks]]
           index == PlacesOf(ks)
           home == [sel |-> 0, pos |-> -1, scroll |-> 0, bottom |-> TRUE]
           start == Followed(ls, home)
<1>2. /\ appendMode /\ Grows /\ uiFile' = file /\ markedHitKeys' = file.marks
      /\ anomalyFilterOnly' = file.only /\ logs' = ls /\ hits' = ls
      /\ logIndexByKey' = index /\ hitIndexByKey' = index
      /\ renderListView(ls, FALSE, start)
      /\ view' = "list" /\ logsChanged' = TRUE /\ uiStateDirty' = FALSE /\ slipped' = FALSE
      /\ appendMode' = appendMode
  BY <1>1 DEF LoadPersisted, PlacesOf
<1>3. file \in [marks : SUBSET Keys, only : BOOLEAN] /\ received \in 0..MaxResults /\ appendMode \in BOOLEAN
  BY <1>1 DEF ListInv, ListTypes
<1>4. /\ ks \in Seq(Keys) /\ Len(ks) \in Nat \ {0} /\ Len(ks) <= MaxLogEntries
      /\ DOMAIN ks = 1..Len(ks) /\ \A i \in DOMAIN ks : ks[i] \in Keys
  BY LedgersOK
<1>5. ASSUME NEW i \in DOMAIN ks
      PROVE  ls[i] \in Hit /\ ls[i].key = ks[i] /\ Marked(ls[i], file.marks)
  <2> DEFINE b == ks[i] \in file.marks
             l == [key |-> ks[i], marked |-> b]
  <2>1. ls[i] = l /\ b \in BOOLEAN /\ (b <=> ks[i] \in file.marks) /\ ks[i] \in Keys
    BY <1>4
  <2> HIDE DEF b, ls
  <2>2. l \in Hit /\ l.key = ks[i] /\ l.marked = b
    BY <2>1 DEF Hit
  <2> HIDE DEF l
  <2> QED BY <2>1, <2>2 DEF Marked
<1>6. DOMAIN ls = DOMAIN ks
  OBVIOUS
<1>7. ls \in Seq(Hit) /\ Len(ls) = Len(ks)
  <2>1. ls = [i \in 1..Len(ks) |-> ls[i]]
    BY <1>4
  <2> HIDE DEF ls
  <2>2. \A i \in 1..Len(ks) : ls[i] \in Hit
    BY <1>4, <1>5
  <2>3. ls \in [1..Len(ks) -> Hit]
    BY <2>1, <2>2
  <2> QED BY <1>4, <2>3
<1> HIDE DEF ls
<1>8. ls \in Seq(Line)
  <2>1. Hit \subseteq Line
    BY DEF Hit, Line
  <2> QED BY <1>7, <2>1
<1>9. AllMarked(ls, file.marks)
  BY <1>5, <1>6 DEF AllMarked
<1>10. /\ Index(index)
       /\ \A k \in DOMAIN index : index[k] < Len(ks) /\ index[k] + 1 \in DOMAIN ks /\ ks[index[k] + 1] = k
       /\ \A i \in DOMAIN ks : ks[i] \in DOMAIN index /\ index[ks[i]] = i - 1
  BY PlacesOK
<1> HIDE DEF index
<1>11. Names(index, ls)
  BY <1>5, <1>6, <1>7, <1>10 DEF Names
<1>12. Named(index, ls)
  BY <1>5, <1>6, <1>10 DEF Named
<1>13. CurOK(start, Len(ls))
  <2> DEFINE n == Len(ls)
             top == Higher(0, n - Height)
  <2>1. start = [home EXCEPT !.sel = n - 1, !.scroll = top]
    BY DEF Followed
  <2>2. n \in Nat \ {0} /\ Height \in Nat
    BY <1>4, <1>7, ListAssumption
  <2> HIDE DEF n
  <2>3. top \in Nat /\ n - 1 \in Nat /\ n - 1 < n /\ ~(n = 0)
    BY <2>2 DEF Higher
  <2> HIDE DEF top
  <2>4. /\ DOMAIN start = {"sel", "pos", "scroll", "bottom"} /\ start.sel = n - 1
        /\ start.scroll = top /\ start.bottom = TRUE
    BY <2>1
  <2> HIDE DEF start
  <2>5. CurOK(start, n)
    BY <2>3, <2>4 DEF CurOK, Placed
  <2> QED BY <2>5 DEF n
<1> HIDE DEF start
<1>14. Placed(selectedIndex', listScrollIdx', atBottom', Len(ls))
  BY <1>2, <1>8, <1>13, DrawnOK
<1>15. ListTypes'
  <2>1. received' \in 0..MaxResults
    BY <1>2, <1>3, ListAssumption DEF Grows
  <2>2. file.marks \subseteq Keys /\ file.only \in BOOLEAN
    BY <1>3
  <2> QED BY <1>2, <1>3, <1>10, <2>1, <2>2 DEF ListTypes
<1>16. SeenOK'
  BY <1>2 DEF SeenOK
<1>17. ListFlushed'
  <2>1. file = [marks |-> file.marks, only |-> file.only]
    BY <1>3
  <2>2. uiFile' = [marks |-> markedHitKeys', only |-> anomalyFilterOnly']
    BY <1>2, <2>1
  <2> QED BY <2>2 DEF ListFlushed
<1>18. LinesOK(logs') /\ HitsOK(hits')
  BY <1>2, <1>4, <1>7, <1>8 DEF LinesOK, HitsOK
<1>19. /\ AllMarked(logs', markedHitKeys') /\ AllMarked(hits', markedHitKeys')
       /\ Names(hitIndexByKey', hits') /\ Named(logIndexByKey', logs')
       /\ Placed(selectedIndex', listScrollIdx', atBottom', Len(logs'))
  BY <1>2, <1>9, <1>11, <1>12, <1>14
<1> QED BY <1>15, <1>16, <1>17, <1>18, <1>19 DEF ListInv

-----------------------------------------------------------------------------
LEMMA ListInvStep == ListInv /\ [ListNext]_listVars => ListInv'
<1> SUFFICES ASSUME ListInv, [ListNext]_listVars PROVE ListInv'
  OBVIOUS
<1>1. CASE UNCHANGED listVars
  <2>1. /\ SameLines
        /\ UNCHANGED <<view, selectedIndex, listScrollIdx, atBottom, anomalyFilterOnly, logsChanged,
                       uiFile, uiStateDirty>>
    BY <1>1 DEF listVars, SameLines
  <2>2. ListTypes /\ ListFlushed /\ SeenOK /\ Placed(selectedIndex, listScrollIdx, atBottom, Len(logs))
    BY DEF ListInv
  <2>3. SeenOK'
    BY <2>1, <2>2 DEF SeenOK, SameLines
  <2>4. ListFlushed'
    BY <2>1, <2>2 DEF ListFlushed, SameLines
  <2>5. /\ view' \in {"list", "detail"} /\ anomalyFilterOnly' \in BOOLEAN /\ logsChanged' \in BOOLEAN
        /\ uiStateDirty' \in BOOLEAN /\ uiFile' \in [marks : SUBSET Keys, only : BOOLEAN]
        /\ Placed(selectedIndex', listScrollIdx', atBottom', Len(logs))
    BY <2>1, <2>2 DEF ListTypes
  <2> QED BY <2>1, <2>3, <2>4, <2>5, SameLinesKeep
<1>2. CASE \E k \in Keys : ResultMsg(k)
  BY <1>2, ResultMsgStep
<1>3. CASE AutoFilterMsg
  BY <1>3, AutoFilterMsgStep
<1>4. CASE \E delta \in {-1, 1, -Height, Height} : moveListSelection(delta)
  <2>1. PICK delta \in {-1, 1, -Height, Height} : moveListSelection(delta)
    BY <1>4
  <2>2. delta \in Int
    BY ListAssumption
  <2> QED BY <2>1, <2>2, MoveStep
<1>5. CASE toggleSelectedHitMarked
  BY <1>5, ToggleStep
<1>6. CASE setAnomalyFilterOnly
  BY <1>6, FilterStep
<1>7. CASE OpenDetail
  BY <1>7, OpenDetailStep
<1>8. CASE BackToList
  BY <1>8, BackToListStep
<1>9. CASE clearScanLogs
  BY <1>9, ClearStep
<1>10. CASE TickMsg
  BY <1>10, TickStep
<1>11. CASE \E ks \in Ledgers, clean \in BOOLEAN : LoadPersisted(ks, clean)
  BY <1>11, LedgerStep
<1> QED BY <1>1, <1>2, <1>3, <1>4, <1>5, <1>6, <1>7, <1>8, <1>9, <1>10, <1>11 DEF ListNext

LEMMA ListInvImpliesSound == ListInv => ListSound
<1> SUFFICES ASSUME ListInv PROVE ListSound
  OBVIOUS
<1>1. /\ logs \in Seq(Line) /\ Len(logs) <= MaxLogEntries /\ hits \in Seq(Hit)
      /\ Len(hits) <= MaxLogEntries /\ ListTypes
      /\ AllMarked(logs, markedHitKeys) /\ AllMarked(hits, markedHitKeys)
      /\ appendMode => Names(hitIndexByKey, hits) /\ (~slipped => Named(logIndexByKey, logs))
      /\ SeenOK /\ Placed(selectedIndex, listScrollIdx, atBottom, Len(logs)) /\ ListFlushed
  BY DEF ListInv, LinesOK, HitsOK
<1>2. ListTypeOK
  <2>1. uiFile.marks \subseteq Keys
    BY <1>1 DEF ListTypes
  <2>2. {atBottom, anomalyFilterOnly, logsChanged, appendMode, uiStateDirty, slipped} \subseteq BOOLEAN
    <3>1. atBottom \in BOOLEAN
      BY <1>1 DEF Placed
    <3>2. /\ anomalyFilterOnly \in BOOLEAN /\ logsChanged \in BOOLEAN /\ appendMode \in BOOLEAN
          /\ uiStateDirty \in BOOLEAN /\ slipped \in BOOLEAN
      BY <1>1 DEF ListTypes
    <3> QED BY <3>1, <3>2
  <2> QED BY <1>1, <2>1, <2>2 DEF ListTypeOK, ListTypes, Index
<1>3. ListCursorValid
  <2> DEFINE vis == visibleListIndexes(logs, anomalyFilterOnly)
             pos == selectedVisiblePos(vis, selectedIndex)
  <2>1. ASSUME logs # <<>> PROVE selectedIndex \in 0 .. Len(logs) - 1
    <3>1. Len(logs) \in Nat /\ Len(logs) # 0
      BY <1>1, <2>1
    <3>2. selectedIndex \in Nat /\ selectedIndex < Len(logs)
      BY <1>1, <3>1 DEF Placed
    <3> QED BY <3>1, <3>2
  <2>2. ASSUME view = "list" /\ ~logsChanged /\ vis # {}
        PROVE  pos >= listScrollIdx /\ pos < listScrollIdx + Height
    <3>1. selectedIndex \in vis
          /\ PosIn(vis, selectedIndex) \in listScrollIdx .. listScrollIdx + Height - 1
      BY <1>1, <2>2 DEF SeenOK, Seen
    <3>2. pos = PosIn(vis, selectedIndex)
      BY <3>1 DEF selectedVisiblePos
    <3>3. listScrollIdx \in Nat /\ Height \in Nat
      BY <1>1, ListAssumption DEF Placed
    <3> HIDE DEF pos
    <3> QED BY <3>1, <3>2, <3>3
  <2> QED BY <2>1, <2>2 DEF ListCursorValid
<1>4. ListMarksAgree
  <2>1. ASSUME NEW i \in DOMAIN hits PROVE hits[i].marked <=> hits[i].key \in markedHitKeys
    <3>1. hits[i] \in Hit
      BY <1>1
    <3>2. hits[i].key # NoHit
      BY <3>1, ListAssumption DEF Hit
    <3> QED BY <1>1, <3>2 DEF AllMarked, Marked
  <2>2. \A i \in DOMAIN logs : logs[i].key # NoHit => (logs[i].marked <=> logs[i].key \in markedHitKeys)
    BY <1>1 DEF AllMarked, Marked
  <2> QED BY <2>1, <2>2 DEF ListMarksAgree
<1>5. ListMergesByIdentity
  BY <1>1 DEF ListMergesByIdentity, Names, Named
<1> QED BY <1>1, <1>2, <1>3, <1>4, <1>5 DEF ListSound

(* The invariant of the result list holds in every behaviour.                 *)
THEOREM ListInvariant == ListSafety => []ListInv
<1>1. ListInit => ListInv
  BY ListInitInv
<1>2. ListInv /\ [ListNext]_listVars => ListInv'
  BY ListInvStep
<1> QED BY <1>1, <1>2, PTL DEF ListSafety

(* The result list is sound: cursor, marks, merged findings and side file     *)
(* (pkg/tui, the list view of Update).                                        *)
THEOREM ListIsSound == ListSafety => []ListSound
<1>1. ListInv => ListSound
  BY ListInvImpliesSound
<1> QED BY <1>1, ListInvariant, PTL
=============================================================================

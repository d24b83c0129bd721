--------------------------- MODULE ServiceProofs -----------------------------
(* The two programs that run on for days.  The scans of the MCP server, for  *)
(* any number of calls, any limit and any cap: the scans in progress stay    *)
(* below the limit, every slot comes back, and what a scan answered agrees   *)
(* with its file and with its record.  The monitor, for any wordlist, any    *)
(* history of the site, any signals and crashes: a change of a known path is *)
(* reported at most once, and nothing slips into the baseline but what a     *)
(* crash or a failed message excuses.  And what stands before a scan: the    *)
(* limiter and the audit log round each tool, for any calls, limit and       *)
(* window, and the scope check, for any files, assets and targets.  Last the *)
(* swarm controller, for any list, chunk size, start line and number of      *)
(* nodes: no line is reported twice, and success means a complete scan       *)
(* unless a failure or an interrupt explains what is missing.                *)
EXTENDS McpScans, Monitor, McpGate, ScopeGate, Swarm, FiniteSetTheorems,
        SequenceTheorems, TLAPS

(* The scans of the MCP server.                                              *)
ScansSafety == ScansInit /\ [][ScansNext]_scanVars

-----------------------------------------------------------------------------
ScanCalls == Runs \union Cancels

(* ScansPlaces of a call: not made or not admitted yet, before its engine scans,  *)
(* and the places only a cancel call knows.                                  *)
Outside == {"absent", "new", "register", "over", "cancel", "flag"}
Before == {"attach", "file", "engine", "target"}
ScansPlaces == Outside \union Before \union {"collect", "drain"}

StateFields == {"running", "finished", "canceled", "capped", "hasFile", "hasEngine", "hasCancel"}

CallsOK ==
    /\ pc \in [ScanCalls -> ScansPlaces] /\ answer \in [ScanCalls -> Answers]
    /\ subject \in [Cancels -> Scans]
    /\ \A c \in Cancels : answer[c] \notin {"ok", "failed"}
    /\ \A r \in Runs : pc[r] \notin {"cancel", "flag"}
    /\ \A c \in Cancels : pc[c] \in {"absent", "new", "cancel", "flag", "over"}
    /\ \A x \in Expands : pc[x] # "register"

RecordsOK ==
    /\ reg \subseteq Scans /\ st \in [Scans -> [StateFields -> BOOLEAN]]
    /\ eng \in [Runs -> {"none", "idle", "run", "stopping", "hung", "closed"}]
    /\ ctx \in [Runs -> {"live", "cancelled", "expired"}]

CountsOK ==
    /\ found \in [Runs -> 0..MaxFound] /\ taken \in [Runs -> Nat]
    /\ lines \in [Scans -> Nat] /\ lost \in [Scans -> Nat]
    /\ \A r \in Runs : taken[r] <= found[r]

(* A slot is taken exactly by the scans in progress.                         *)
SlotsOK == Running = InHand /\ IsFiniteSet(InHand) /\ Cardinality(InHand) <= ScanLimit

(* Every result counted is in the file or lost; a scan that collects is      *)
(* below the cap, and one that drains its engine has just reached it.        *)
LinesOK ==
    \A s \in Scans :
        /\ lines[s] + lost[s] = taken[s]
        /\ pc[s] \in {"absent", "new", "register"} \union Before => taken[s] = 0
        /\ pc[s] = "collect" => taken[s] < ResultCap
        /\ pc[s] = "drain" => taken[s] = ResultCap
        /\ taken[s] <= ResultCap

(* What is told and what is recorded of a scan agree once it answered.       *)
AnswersOK ==
    \A s \in Scans :
        /\ answer[s] # "none" => pc[s] = "over"
        /\ answer[s] \in {"ok", "failed"} =>
              /\ st[s].capped <=> taken[s] = ResultCap
              /\ st[s].hasFile <=> answer[s] = "ok"

ScansInv == CallsOK /\ RecordsOK /\ CountsOK /\ SlotsOK /\ LinesOK /\ AnswersOK

-----------------------------------------------------------------------------
LEMMA NoStateType == NoState \in [StateFields -> BOOLEAN] /\ DOMAIN NoState = StateFields
<1>1. DOMAIN NoState = StateFields
  BY DEF NoState, StateFields
<1>2. NoState = [x \in DOMAIN NoState |-> NoState[x]]
  BY DEF NoState
<1>3. \A x \in StateFields : NoState[x] = FALSE
  BY DEF NoState, StateFields
<1>4. QED
  BY <1>1, <1>2, <1>3

(* A record of a scan with some of its flags set anew is a record again.     *)
LEMMA RecordTypes ==
  ASSUME RecordsOK, NEW s \in Scans
  PROVE  /\ Finished(s, TRUE) \in [StateFields -> BOOLEAN]
         /\ Finished(s, FALSE) \in [StateFields -> BOOLEAN]
         /\ SlotBack(s) \in [StateFields -> BOOLEAN]
<1>1. st[s] \in [StateFields -> BOOLEAN]
  BY DEF RecordsOK
<1>2. /\ (taken[s] >= ResultCap) \in BOOLEAN
      /\ {"running", "finished", "capped", "hasFile", "hasEngine"} \subseteq StateFields
  BY DEF StateFields
<1>3. ASSUME NEW file \in BOOLEAN PROVE Finished(s, file) \in [StateFields -> BOOLEAN]
  BY <1>1, <1>2 DEF Finished
<1>4. QED
  BY <1>1, <1>2, <1>3 DEF SlotBack

LEMMA SlotsSame ==
  ASSUME SlotsOK, reg' = reg, InHand' = InHand,
         \A s \in reg : st'[s].running = st[s].running
  PROVE  SlotsOK'
<1>1. Running' = Running
  BY DEF Running
<1>2. QED
  BY <1>1 DEF SlotsOK

(* A call that ends gives back the slot it has.                              *)
LEMMA SlotsLess ==
  ASSUME SlotsOK, reg' = reg, NEW r, InHand' = InHand \ {r}, r \in reg => ~st'[r].running,
         \A s \in reg \ {r} : st'[s].running = st[s].running
  PROVE  SlotsOK'
<1>1. Running' = Running \ {r}
  BY DEF Running
<1>2. IsFiniteSet(InHand') /\ Cardinality(InHand') <= Cardinality(InHand)
  <2>1. IsFiniteSet(InHand)
    BY DEF SlotsOK
  <2>2. IsFiniteSet(InHand \ {r}) /\ Cardinality(InHand \ {r}) =
            IF r \in InHand THEN Cardinality(InHand) - 1 ELSE Cardinality(InHand)
    BY <2>1, FS_RemoveElement
  <2>3. Cardinality(InHand) \in Nat
    BY <2>1, FS_CardinalityType
  <2>4. QED
    BY <2>2, <2>3
<1>3. Cardinality(InHand) \in Nat /\ Cardinality(InHand') \in Nat /\ ScanLimit \in Nat
  BY <1>2, FS_CardinalityType, McpAssumption DEF SlotsOK
<1>4. Cardinality(InHand') <= ScanLimit
  BY <1>2, <1>3 DEF SlotsOK
<1>5. QED
  BY <1>1, <1>2, <1>4 DEF SlotsOK

-----------------------------------------------------------------------------
LEMMA ScansInvInit == ScansInit => ScansInv
<1> SUFFICES ASSUME ScansInit PROVE ScansInv
  OBVIOUS
<1>1. CallsOK
  <2>1. \A c \in ScanCalls : pc[c] \in {"new", "absent"} /\ answer[c] = "none"
    BY DEF ScansInit, ScanCalls
  <2>2. pc = [c \in ScanCalls |-> pc[c]] /\ answer = [c \in ScanCalls |-> answer[c]]
    BY DEF ScansInit, ScanCalls
  <2>3. QED
    BY <2>1, <2>2 DEF ScansInit, CallsOK, ScanCalls, Runs, ScansPlaces, Outside, Answers
<1>2. RecordsOK
  BY NoStateType DEF ScansInit, RecordsOK
<1>3. CountsOK
  BY McpAssumption DEF ScansInit, CountsOK, Runs
<1>4. SlotsOK
  <2>1. Running = {} /\ InHand = {}
    BY DEF ScansInit, Running, InHand, Runs
  <2>2. QED
    BY <2>1, FS_EmptySet, McpAssumption DEF SlotsOK
<1>5. LinesOK
  BY McpAssumption DEF ScansInit, LinesOK, Runs, Before
<1>6. AnswersOK
  BY DEF ScansInit, AnswersOK, Runs
<1>7. QED
  BY <1>1, <1>2, <1>3, <1>4, <1>5, <1>6 DEF ScansInv

-----------------------------------------------------------------------------
(* What a step of one call does to the parts it reaches.                     *)
LEMMA CallMoves ==
  ASSUME CallsOK, NEW c \in ScanCalls, NEW p \in ScansPlaces, NEW a \in Answers,
         pc' = [pc EXCEPT ![c] = p], answer' = [answer EXCEPT ![c] = a], subject' = subject,
         c \in Cancels => a \notin {"ok", "failed"} /\ p \in {"cancel", "flag", "over"},
         c \in Runs => p \notin {"cancel", "flag"},
         c \in Expands => p # "register"
  PROVE  CallsOK'
<1>1. pc' \in [ScanCalls -> ScansPlaces] /\ answer' \in [ScanCalls -> Answers] /\ subject' \in [Cancels -> Scans]
  BY DEF CallsOK
<1>2. ASSUME NEW d \in ScanCalls PROVE (d = c /\ pc'[d] = p /\ answer'[d] = a)
                                   \/ (d # c /\ pc'[d] = pc[d] /\ answer'[d] = answer[d])
  BY DEF CallsOK
<1>3. /\ \A d \in Cancels : /\ answer'[d] \notin {"ok", "failed"}
                            /\ pc'[d] \in {"absent", "new", "cancel", "flag", "over"}
      /\ \A r \in Runs : pc'[r] \notin {"cancel", "flag"}
      /\ \A x \in Expands : pc'[x] # "register"
  BY <1>2 DEF CallsOK, ScanCalls, Runs
<1>4. QED
  BY <1>1, <1>3 DEF CallsOK

Early == {"absent", "new", "register"} \union Before

LEMMA LinesSame ==
  ASSUME LinesOK, UNCHANGED <<taken, lines, lost>>,
         \A s \in Scans : \/ pc'[s] \in {pc[s], "over"}
                          \/ pc[s] \in Early /\ pc'[s] \in Early \union {"collect"}
  PROVE  LinesOK'
<1>1. 0 < ResultCap
  BY McpAssumption
<1>2. ASSUME NEW s \in Scans
      PROVE  /\ pc'[s] \in Early => taken[s] = 0
             /\ pc'[s] = "collect" => taken[s] < ResultCap
             /\ pc'[s] = "drain" => taken[s] = ResultCap
  BY <1>1 DEF LinesOK, Early, Before
<1>3. QED
  BY <1>2 DEF LinesOK, Early

LEMMA AnswersSame ==
  ASSUME AnswersOK, UNCHANGED taken,
         \A s \in Scans : \/ UNCHANGED <<pc[s], answer[s], st[s].capped, st[s].hasFile>>
                          \/ answer'[s] = "none"
                          \/ answer'[s] \notin {"ok", "failed"} /\ pc'[s] = "over"
  PROVE  AnswersOK'
BY DEF AnswersOK

-----------------------------------------------------------------------------
(* A call is a scan, an expansion or a request to cancel, and only one.      *)
LEMMA CallKinds ==
  /\ Scans \subseteq Runs /\ Expands \subseteq Runs /\ Runs \subseteq ScanCalls /\ Cancels \subseteq ScanCalls
  /\ \A r \in Runs : r \notin Cancels /\ (r \in Scans <=> r \notin Expands)
  BY McpAssumption DEF Runs, ScanCalls

LEMMA CheckStep ==
  ASSUME ScansInv, NEW r \in Runs, Check(r)
  PROVE  ScansInv'
<1>0. r \in ScanCalls /\ r \notin Cancels
  BY CallKinds
<1>1. pc[r] = "new" /\ UNCHANGED <<reg, st, eng, found, taken, lines, lost, ctx, subject>>
  BY DEF Check, callVars
<1>2. PICK p \in {"register", "engine", "over"}, a \in {answer[r], "rejected"} :
          /\ pc' = [pc EXCEPT ![r] = p] /\ answer' = [answer EXCEPT ![r] = a]
          /\ p = "register" => r \in Scans
          /\ p = "engine" => r \notin Scans
          /\ p # "over" => a = answer[r]
          /\ p = "over" => a = "rejected"
  <2>1. answer = [answer EXCEPT ![r] = answer[r]]
    BY DEF ScansInv, CallsOK
  <2>2. QED
    BY <2>1 DEF Check
<1>3. CallsOK'
  <2>1. p \in ScansPlaces /\ a \in Answers
    BY <1>0 DEF ScansInv, CallsOK, ScansPlaces, Outside, Before, Answers
  <2>2. QED
    BY <1>0, <1>1, <1>2, <2>1, CallMoves, CallKinds DEF ScansInv
<1>4. RecordsOK' /\ CountsOK'
  BY <1>1 DEF ScansInv, RecordsOK, CountsOK
<1>5. /\ \A s \in Scans : s # r => pc'[s] = pc[s] /\ answer'[s] = answer[s]
      /\ pc'[r] = p /\ answer'[r] = a
  BY <1>0, <1>2, CallKinds DEF ScansInv, CallsOK
<1>6. SlotsOK'
  <2>1. InHand' = InHand
    BY <1>1, <1>2, <1>5 DEF InHand
  <2>2. QED
    BY <1>1, <2>1, SlotsSame DEF ScansInv
<1>7. LinesOK'
  <2>1. r \in Scans => p # "engine"
    BY <1>2
  <2>2. QED
    BY <1>1, <1>2, <1>5, LinesSame DEF ScansInv, Early
<1>8. AnswersOK'
  <2>1. r \in Scans => answer[r] = "none"
    BY <1>1 DEF ScansInv, AnswersOK
  <2>2. QED
    BY <1>1, <1>2, <1>5, <2>1, AnswersSame DEF ScansInv
<1>9. QED
  BY <1>3, <1>4, <1>6, <1>7, <1>8 DEF ScansInv

(* The only step that takes a slot looks at the limit in the same breath.    *)
LEMMA RegisterStep ==
  ASSUME ScansInv, NEW s \in Scans, Register(s)
  PROVE  ScansInv'
<1>0. s \in ScanCalls /\ s \in Runs /\ s \notin Cancels /\ s \notin Expands
  BY CallKinds
<1>1. pc[s] = "register" /\ UNCHANGED <<eng, found, taken, lines, lost, ctx, subject>>
  BY DEF Register, callVars
<1>2. PICK old \in SUBSET {o \in reg : ~st[o].running /\ st[o].finished} :
          \/ /\ AtLimit
             /\ reg' = reg \ old /\ pc' = [pc EXCEPT ![s] = "over"]
             /\ answer' = [answer EXCEPT ![s] = "limit"] /\ st' = st
          \/ /\ ~AtLimit
             /\ reg' = (reg \ old) \union {s} /\ pc' = [pc EXCEPT ![s] = "attach"]
             /\ st' = [st EXCEPT ![s] = [NoState EXCEPT !.running = TRUE]] /\ answer' = answer
  BY DEF Register
<1> DEFINE fresh == [NoState EXCEPT !.running = TRUE]
<1>3. fresh \in [StateFields -> BOOLEAN] /\ fresh.running
  BY NoStateType DEF StateFields
<1>4. st \in [Scans -> [StateFields -> BOOLEAN]] /\ reg \subseteq Scans
  BY DEF ScansInv, RecordsOK
<1>5. answer[s] = "none" /\ taken[s] = 0
  BY <1>1 DEF ScansInv, AnswersOK, LinesOK
<1>6. CallsOK'
  <2>1. answer = [answer EXCEPT ![s] = answer[s]]
    BY DEF ScansInv, CallsOK
  <2>2. {"over", "attach"} \subseteq ScansPlaces /\ {"limit", "none"} \subseteq Answers
    BY DEF ScansPlaces, Outside, Before, Answers
  <2>3. CASE pc' = [pc EXCEPT ![s] = "over"]
    <3>1. answer' = [answer EXCEPT ![s] = "limit"]
      BY <1>0, <1>2, <2>3 DEF ScansInv, CallsOK
    <3>2. QED
      BY <1>0, <1>1, <2>2, <2>3, <3>1, CallMoves DEF ScansInv
  <2>4. CASE pc' = [pc EXCEPT ![s] = "attach"] /\ answer' = answer
    BY <1>0, <1>1, <1>5, <2>1, <2>2, <2>4, CallMoves DEF ScansInv
  <2>5. QED
    BY <1>2, <2>3, <2>4
<1>7. RecordsOK'
  BY <1>1, <1>2, <1>3, <1>4 DEF ScansInv, RecordsOK
<1>8. CountsOK'
  BY <1>1 DEF ScansInv, CountsOK
<1>9. \A t \in Scans : t # s => pc'[t] = pc[t] /\ answer'[t] = answer[t] /\ st'[t] = st[t]
  BY <1>0, <1>2, CallKinds DEF ScansInv, CallsOK, RecordsOK
<1>10. \/ pc'[s] = "over" /\ answer'[s] = "limit"
       \/ pc'[s] = "attach" /\ answer'[s] = "none"
  BY <1>0, <1>2, <1>5 DEF ScansInv, CallsOK
<1>11. SlotsOK'
  <2>1. Running \intersect old = {} /\ Running \subseteq reg
    BY DEF Running
  <2>2. CASE AtLimit /\ reg' = reg \ old /\ pc'[s] = "over" /\ st' = st
    <3>1. Running' = Running
      BY <2>1, <2>2 DEF Running
    <3>2. InHand' = InHand
      BY <1>1, <1>9, <2>2 DEF InHand
    <3>3. QED
      BY <3>1, <3>2 DEF ScansInv, SlotsOK
  <2>3. CASE ~AtLimit /\ reg' = (reg \ old) \union {s} /\ pc'[s] = "attach" /\ st'[s] = fresh
    <3>1. InHand' = InHand \union {s} /\ s \notin InHand
      BY <1>1, <1>9, <2>3 DEF InHand
    <3>2. Running' = Running \union {s}
      <4>1. ASSUME NEW t \in Scans PROVE t \in Running' <=> t \in Running \/ t = s
        BY <1>3, <1>9, <2>1, <2>3 DEF Running
      <4>2. Running' \subseteq Scans /\ Running \subseteq Scans
        BY <1>4, <2>3 DEF Running
      <4>3. QED
        BY <4>1, <4>2
    <3>3. /\ IsFiniteSet(InHand) /\ Cardinality(InHand) \in Nat /\ ScanLimit \in Nat
          /\ ~(Cardinality(InHand) >= ScanLimit)
      BY <2>3, FS_CardinalityType, McpAssumption DEF ScansInv, SlotsOK, AtLimit
    <3>4. /\ IsFiniteSet(InHand \union {s})
          /\ Cardinality(InHand \union {s}) = Cardinality(InHand) + 1
      BY <3>1, <3>3, FS_AddElement
    <3>5. Cardinality(InHand') <= ScanLimit
      BY <3>1, <3>3, <3>4
    <3>6. QED
      BY <3>1, <3>2, <3>4, <3>5 DEF ScansInv, SlotsOK
  <2>4. pc \in [ScanCalls -> ScansPlaces]
    BY DEF ScansInv, CallsOK
  <2>5. \/ AtLimit /\ reg' = reg \ old /\ pc'[s] = "over" /\ st' = st
        \/ ~AtLimit /\ reg' = (reg \ old) \union {s} /\ pc'[s] = "attach" /\ st'[s] = fresh
    BY <1>0, <1>2, <1>4, <2>4
  <2>6. QED
    BY <2>2, <2>3, <2>5
<1>12. LinesOK'
  BY <1>1, <1>9, <1>10, LinesSame DEF ScansInv, Early, Before
<1>13. AnswersOK'
  BY <1>1, <1>9, <1>10, AnswersSame DEF ScansInv
<1>14. QED
  BY <1>6, <1>7, <1>8, <1>11, <1>12, <1>13 DEF ScansInv

(* A call goes on to its next place, and keeps its slot.                     *)
LEMMA CallGoesOn ==
  ASSUME ScansInv, NEW r \in Runs, pc[r] \in Before, NEW q \in Before \union {"collect"},
         pc' = [pc EXCEPT ![r] = q],
         UNCHANGED <<reg, found, taken, lines, lost, answer, subject>>,
         st' \in [Scans -> [StateFields -> BOOLEAN]],
         \A t \in Scans : UNCHANGED <<st[t].running, st[t].capped, st[t].hasFile>>,
         eng' \in [Runs -> {"none", "idle", "run", "stopping", "hung", "closed"}],
         ctx' \in [Runs -> {"live", "cancelled", "expired"}]
  PROVE  ScansInv'
<1>0. r \in ScanCalls /\ r \notin Cancels
  BY CallKinds
<1>1. CallsOK'
  <2>1. answer' = [answer EXCEPT ![r] = answer[r]] /\ answer[r] \in Answers
    BY <1>0 DEF ScansInv, CallsOK
  <2>2. q \in ScansPlaces /\ q \notin {"cancel", "flag", "register"}
    BY DEF ScansPlaces, Before
  <2>3. QED
    BY <1>0, <2>1, <2>2, CallMoves DEF ScansInv
<1>2. RecordsOK' /\ CountsOK'
  BY DEF ScansInv, RecordsOK, CountsOK
<1>3. pc'[r] = q /\ \A t \in Scans : t # r => pc'[t] = pc[t]
  BY <1>0, CallKinds DEF ScansInv, CallsOK
<1>4. InHand' = InHand
  BY <1>3 DEF InHand, Before
<1>5. SlotsOK'
  BY <1>4, SlotsSame DEF ScansInv, RecordsOK
<1>6. LinesOK'
  BY <1>3, LinesSame DEF ScansInv, Early
<1>7. AnswersOK'
  <2>1. r \in Scans => answer[r] = "none"
    BY DEF ScansInv, AnswersOK, Before
  <2>2. QED
    BY <1>3, <2>1, AnswersSame DEF ScansInv
<1>8. QED
  BY <1>1, <1>2, <1>5, <1>6, <1>7 DEF ScansInv

(* A scan in progress comes to its end: its record is no longer running.     *)
LEMMA ScanEnds ==
  ASSUME ScansInv, NEW s \in Scans, s \in InHand,
         NEW a \in Answers \ {"none"}, NEW rec \in [StateFields -> BOOLEAN], ~rec.running,
         pc' = [pc EXCEPT ![s] = "over"], answer' = [answer EXCEPT ![s] = a],
         st' = [st EXCEPT ![s] = rec], eng' = eng,
         UNCHANGED <<reg, found, taken, lines, lost, subject>>,
         ctx' \in [Runs -> {"live", "cancelled", "expired"}],
         a \in {"ok", "failed"} =>
             /\ rec.capped <=> taken[s] = ResultCap
             /\ rec.hasFile <=> a = "ok"
  PROVE  ScansInv'
<1>0. s \in ScanCalls /\ s \in Runs /\ s \notin Cancels /\ s \notin Expands
  BY CallKinds
<1>1. CallsOK'
  <2>1. "over" \in ScansPlaces
    BY DEF ScansPlaces, Outside
  <2>2. QED
    BY <1>0, <2>1, CallMoves DEF ScansInv
<1>2. RecordsOK' /\ CountsOK'
  BY DEF ScansInv, RecordsOK, CountsOK
<1>3. /\ pc'[s] = "over" /\ answer'[s] = a /\ st'[s] = rec
      /\ \A t \in Scans : t # s => UNCHANGED <<pc[t], answer[t], st[t]>>
  BY <1>0, CallKinds DEF ScansInv, CallsOK, RecordsOK
<1>4. SlotsOK'
  <2>1. InHand' = InHand \ {s}
    BY <1>3 DEF InHand
  <2>2. QED
    BY <1>3, <2>1, SlotsLess DEF ScansInv, RecordsOK
<1>5. LinesOK'
  BY <1>3, LinesSame DEF ScansInv
<1>6. AnswersOK'
  BY <1>3 DEF ScansInv, AnswersOK
<1>7. QED
  BY <1>1, <1>2, <1>4, <1>5, <1>6 DEF ScansInv

(* An expansion comes to its end; it has no slot.                            *)
LEMMA ExpansionEnds ==
  ASSUME ScansInv, NEW x \in Expands, NEW a \in Answers,
         pc' = [pc EXCEPT ![x] = "over"], answer' = [answer EXCEPT ![x] = a],
         UNCHANGED <<reg, st, found, taken, lines, lost, subject>>,
         eng' \in [Runs -> {"none", "idle", "run", "stopping", "hung", "closed"}],
         ctx' \in [Runs -> {"live", "cancelled", "expired"}]
  PROVE  ScansInv'
<1>0. x \in ScanCalls /\ x \in Runs /\ x \notin Cancels /\ x \notin Scans
  BY CallKinds
<1>1. CallsOK'
  <2>1. "over" \in ScansPlaces
    BY DEF ScansPlaces, Outside
  <2>2. QED
    BY <1>0, <2>1, CallMoves DEF ScansInv
<1>2. RecordsOK' /\ CountsOK'
  BY DEF ScansInv, RecordsOK, CountsOK
<1>3. \A t \in Scans : UNCHANGED <<pc[t], answer[t], st[t]>>
  BY <1>0, CallKinds DEF ScansInv, CallsOK
<1>4. SlotsOK'
  <2>1. InHand' = InHand
    BY <1>3 DEF InHand
  <2>2. QED
    BY <2>1, SlotsSame DEF ScansInv
<1>5. LinesOK' /\ AnswersOK'
  BY <1>3, LinesSame, AnswersSame DEF ScansInv
<1>6. QED
  BY <1>1, <1>2, <1>4, <1>5 DEF ScansInv

-----------------------------------------------------------------------------
LEMMA AttachCancelStep ==
  ASSUME ScansInv, NEW s \in Scans, AttachCancel(s)
  PROVE  ScansInv'
<1>1. /\ pc[s] = "attach" /\ pc' = [pc EXCEPT ![s] = "file"]
      /\ st' = [st EXCEPT ![s].hasCancel = TRUE]
      /\ UNCHANGED <<reg, eng, found, taken, lines, lost, ctx, answer, subject>>
  BY DEF AttachCancel, callVars
<1>2. /\ st' \in [Scans -> [StateFields -> BOOLEAN]]
      /\ \A t \in Scans : UNCHANGED <<st[t].running, st[t].capped, st[t].hasFile>>
  BY <1>1 DEF ScansInv, RecordsOK, StateFields
<1>3. s \in Runs /\ eng' \in [Runs -> {"none", "idle", "run", "stopping", "hung", "closed"}]
      /\ ctx' \in [Runs -> {"live", "cancelled", "expired"}]
  BY <1>1, CallKinds DEF ScansInv, RecordsOK
<1>4. QED
  BY <1>1, <1>2, <1>3, CallGoesOn DEF Before

LEMMA CreateFileStep ==
  ASSUME ScansInv, NEW s \in Scans, CreateFile(s)
  PROVE  ScansInv'
<1>1. pc[s] = "file" /\ UNCHANGED <<reg, eng, found, taken, lines, lost, subject>>
  BY DEF CreateFile, callVars
<1>2. /\ s \in Runs /\ RecordsOK
      /\ st \in [Scans -> [StateFields -> BOOLEAN]]
      /\ eng' \in [Runs -> {"none", "idle", "run", "stopping", "hung", "closed"}]
      /\ ctx \in [Runs -> {"live", "cancelled", "expired"}]
  BY <1>1, CallKinds DEF ScansInv, RecordsOK
<1>3. CASE pc' = [pc EXCEPT ![s] = "engine"] /\ UNCHANGED <<st, ctx, answer>>
  BY <1>1, <1>2, <1>3, CallGoesOn DEF Before
<1>4. CASE /\ pc' = [pc EXCEPT ![s] = "over"] /\ answer' = [answer EXCEPT ![s] = "failed"]
           /\ st' = [st EXCEPT ![s] = Finished(s, FALSE)] /\ ctx' = [ctx EXCEPT ![s] = "cancelled"]
  <2>1. taken[s] = 0 /\ ~(taken[s] >= ResultCap) /\ taken[s] # ResultCap
    BY <1>1, McpAssumption DEF ScansInv, LinesOK, Before
  <2>2. /\ Finished(s, FALSE) \in [StateFields -> BOOLEAN] /\ ~Finished(s, FALSE).running
        /\ ~Finished(s, FALSE).capped /\ ~Finished(s, FALSE).hasFile
    BY <1>2, <2>1, RecordTypes DEF Finished, StateFields
  <2>3. s \in InHand /\ "failed" \in Answers \ {"none"}
    BY <1>1 DEF InHand, Answers
  <2>4. ctx' \in [Runs -> {"live", "cancelled", "expired"}]
    BY <1>2, <1>4
  <2>5. QED
    BY <1>1, <1>4, <2>1, <2>2, <2>3, <2>4, ScanEnds
<1>5. QED
  BY <1>3, <1>4 DEF CreateFile

LEMMA NewEngineStep ==
  ASSUME ScansInv, NEW r \in Runs, NewEngine(r)
  PROVE  ScansInv'
<1>1. /\ pc[r] = "engine" /\ pc' = [pc EXCEPT ![r] = "target"]
      /\ eng' = [eng EXCEPT ![r] = "idle"]
      /\ UNCHANGED <<reg, found, taken, lines, lost, ctx, answer, subject>>
      /\ st' = IF r \in Scans THEN [st EXCEPT ![r].hasEngine = TRUE, ![r].running = TRUE] ELSE st
  BY DEF NewEngine, callVars
<1>2. r \in Scans => st[r].running
  BY <1>1 DEF ScansInv, SlotsOK, InHand, Running
<1>3. /\ st' \in [Scans -> [StateFields -> BOOLEAN]]
      /\ \A t \in Scans : UNCHANGED <<st[t].running, st[t].capped, st[t].hasFile>>
  <2>1. st \in [Scans -> [StateFields -> BOOLEAN]]
    BY DEF ScansInv, RecordsOK
  <2>2. CASE r \notin Scans
    BY <1>1, <2>1, <2>2
  <2>3. CASE r \in Scans
    <3>1. st' = [st EXCEPT ![r] = [st[r] EXCEPT !.hasEngine = TRUE, !.running = TRUE]]
      BY <1>1, <2>1, <2>3
    <3>2. st[r] \in [StateFields -> BOOLEAN]
      BY <2>1, <2>3
    <3>3. QED
      BY <1>2, <2>1, <2>3, <3>1, <3>2 DEF StateFields
  <2>4. QED
    BY <2>2, <2>3
<1>4. eng' \in [Runs -> {"none", "idle", "run", "stopping", "hung", "closed"}]
      /\ ctx' \in [Runs -> {"live", "cancelled", "expired"}]
  BY <1>1 DEF ScansInv, RecordsOK
<1>5. QED
  BY <1>1, <1>3, <1>4, CallGoesOn DEF Before

LEMMA StartStep ==
  ASSUME ScansInv, NEW r \in Runs, Start(r)
  PROVE  ScansInv'
<1>1. pc[r] = "target" /\ UNCHANGED <<reg, found, taken, lines, lost, subject>>
  BY DEF Start, callVars
<1>2. /\ RecordsOK
      /\ st \in [Scans -> [StateFields -> BOOLEAN]]
      /\ eng \in [Runs -> {"none", "idle", "run", "stopping", "hung", "closed"}]
      /\ ctx \in [Runs -> {"live", "cancelled", "expired"}]
  BY DEF ScansInv, RecordsOK
<1>3. CASE /\ eng' = [eng EXCEPT ![r] = "run"] /\ pc' = [pc EXCEPT ![r] = "collect"]
           /\ UNCHANGED <<st, ctx, answer>>
  <2>1. eng' \in [Runs -> {"none", "idle", "run", "stopping", "hung", "closed"}]
    BY <1>2, <1>3
  <2>2. QED
    BY <1>1, <1>2, <1>3, <2>1, CallGoesOn DEF Before
<1>4. CASE /\ pc' = [pc EXCEPT ![r] = "over"] /\ answer' = [answer EXCEPT ![r] = "failed"]
           /\ ctx' = [ctx EXCEPT ![r] = "cancelled"]
           /\ st' = IF r \in Scans THEN [st EXCEPT ![r] = Finished(r, FALSE)] ELSE st
           /\ eng' = IF r \in Expands THEN [eng EXCEPT ![r] = "closed"] ELSE eng
  <2>1. ctx' \in [Runs -> {"live", "cancelled", "expired"}] /\ "failed" \in Answers \ {"none"}
    BY <1>2, <1>4 DEF Answers
  <2>2. CASE r \in Scans
    <3>1. taken[r] = 0 /\ ~(taken[r] >= ResultCap) /\ taken[r] # ResultCap
      BY <1>1, <2>2, McpAssumption DEF ScansInv, LinesOK, Before
    <3>2. /\ Finished(r, FALSE) \in [StateFields -> BOOLEAN] /\ ~Finished(r, FALSE).running
          /\ ~Finished(r, FALSE).capped /\ ~Finished(r, FALSE).hasFile
      BY <1>2, <2>2, <3>1, RecordTypes DEF Finished, StateFields
    <3>3. r \in InHand /\ eng' = eng /\ st' = [st EXCEPT ![r] = Finished(r, FALSE)]
      BY <1>1, <1>4, <2>2, CallKinds DEF InHand
    <3>4. QED
      BY <1>1, <1>4, <2>1, <2>2, <3>1, <3>2, <3>3, ScanEnds
  <2>3. CASE r \in Expands
    <3>1. st' = st /\ eng' = [eng EXCEPT ![r] = "closed"]
      BY <1>4, <2>3, CallKinds
    <3>2. eng' \in [Runs -> {"none", "idle", "run", "stopping", "hung", "closed"}]
      BY <1>2, <3>1
    <3>3. QED
      BY <1>1, <1>4, <2>1, <2>3, <3>1, <3>2, ExpansionEnds
  <2>4. QED
    BY <2>2, <2>3 DEF Runs
<1>5. QED
  BY <1>3, <1>4 DEF Start

-----------------------------------------------------------------------------
(* The engine, its watchers and the clock touch neither calls nor records.   *)
LEMMA EngineStep ==
  ASSUME ScansInv, NEW r \in Runs, Engine(r) \/ Emit(r) \/ WaitReturns(r) \/ Expire(r)
  PROVE  ScansInv'
<1>1. UNCHANGED <<pc, reg, st, taken, lines, lost, answer, subject>>
  BY DEF Engine, Close, ShutdownHangs, Watcher, Emit, WaitReturns, Expire, callVars
<1>2. /\ eng' \in [Runs -> {"none", "idle", "run", "stopping", "hung", "closed"}]
      /\ ctx' \in [Runs -> {"live", "cancelled", "expired"}]
  <2>1. /\ eng \in [Runs -> {"none", "idle", "run", "stopping", "hung", "closed"}]
        /\ ctx \in [Runs -> {"live", "cancelled", "expired"}]
    BY DEF ScansInv, RecordsOK
  <2>2. Stopped(r) \in [Runs -> {"none", "idle", "run", "stopping", "hung", "closed"}]
    BY <2>1 DEF Stopped
  <2>3. QED
    BY <2>1, <2>2 DEF Engine, Close, ShutdownHangs, Watcher, Emit, WaitReturns, Expire
<1>3. found' \in [Runs -> 0..MaxFound] /\ \A q \in Runs : found'[q] >= found[q]
  <2>1. found \in [Runs -> 0..MaxFound] /\ MaxFound \in Nat
    BY McpAssumption DEF ScansInv, CountsOK
  <2>2. CASE Emit(r)
    BY <2>1, <2>2 DEF Emit
  <2>3. CASE UNCHANGED found
    BY <2>1, <2>3
  <2>4. QED
    BY <2>2, <2>3 DEF Engine, Close, ShutdownHangs, Watcher, WaitReturns, Expire
<1>4. CountsOK'
  <2>1. \A q \in Runs : taken[q] \in Nat /\ found[q] \in Nat /\ found'[q] \in Nat /\ taken[q] <= found[q]
    BY <1>3 DEF ScansInv, CountsOK
  <2>2. \A q \in Runs : taken'[q] <= found'[q]
    BY <1>1, <1>3, <2>1
  <2>3. QED
    BY <1>1, <1>3, <2>2 DEF ScansInv, CountsOK
<1>5. CallsOK' /\ RecordsOK'
  BY <1>1, <1>2 DEF ScansInv, CallsOK, RecordsOK
<1>6. SlotsOK'
  BY <1>1, SlotsSame DEF ScansInv, InHand
<1>7. LinesOK' /\ AnswersOK'
  BY <1>1 DEF ScansInv, LinesOK, AnswersOK
<1>8. QED
  BY <1>4, <1>5, <1>6, <1>7 DEF ScansInv

(* A result is counted and written or lost; the one that reaches the cap     *)
(* turns the loop into a drain.                                              *)
LEMMA CollectStep ==
  ASSUME ScansInv, NEW s \in Runs, Collect(s)
  PROVE  ScansInv'
<1>0. s \in Scans /\ s \in ScanCalls /\ s \notin Cancels /\ s \notin Expands
  BY CallKinds DEF Collect
<1>1. /\ pc[s] = "collect" /\ taken[s] < found[s]
      /\ taken' = [taken EXCEPT ![s] = @ + 1]
      /\ UNCHANGED <<reg, found, ctx, answer, subject>>
  BY DEF Collect, callVars
<1>2. \/ lines' = [lines EXCEPT ![s] = @ + 1] /\ lost' = lost
      \/ lost' = [lost EXCEPT ![s] = @ + 1] /\ lines' = lines
  BY DEF Collect
<1>3. \/ /\ taken'[s] >= ResultCap
         /\ pc' = [pc EXCEPT ![s] = "drain"] /\ st' = [st EXCEPT ![s].capped = TRUE]
         /\ eng' = Stopped(s)
      \/ ~(taken'[s] >= ResultCap) /\ UNCHANGED <<pc, st, eng>>
  BY DEF Collect
<1>4. /\ lines \in [Scans -> Nat] /\ lost \in [Scans -> Nat] /\ taken \in [Runs -> Nat]
      /\ \A r \in Runs : taken[r] \in Nat /\ found[r] \in Nat /\ taken[r] <= found[r]
      /\ ResultCap \in Nat
  BY McpAssumption DEF ScansInv, CountsOK
<1>5. /\ \A t \in Scans : t # s => UNCHANGED <<taken[t], lines[t], lost[t]>>
      /\ taken'[s] = taken[s] + 1 /\ lines'[s] + lost'[s] = lines[s] + lost[s] + 1
      /\ lines' \in [Scans -> Nat] /\ lost' \in [Scans -> Nat]
  BY <1>0, <1>1, <1>2, <1>4, CallKinds
<1>6. CountsOK'
  <2>1. taken' \in [Runs -> Nat] /\ \A r \in Runs : taken'[r] <= found[r]
    BY <1>1, <1>4
  <2>2. QED
    BY <1>1, <1>5, <2>1 DEF ScansInv, CountsOK
<1>7. /\ pc \in [ScanCalls -> ScansPlaces] /\ st \in [Scans -> [StateFields -> BOOLEAN]]
      /\ eng \in [Runs -> {"none", "idle", "run", "stopping", "hung", "closed"}]
  BY DEF ScansInv, CallsOK, RecordsOK
<1>8. /\ \A t \in Scans : st'[t].running = st[t].running
      /\ \A t \in Scans : t # s => UNCHANGED <<pc[t], st[t]>>
      /\ st' \in [Scans -> [StateFields -> BOOLEAN]]
  <2>1. CASE pc' = [pc EXCEPT ![s] = "drain"] /\ st' = [st EXCEPT ![s].capped = TRUE]
    <3>1. \A t \in Scans : st'[t].running = st[t].running
      BY <1>0, <1>7, <2>1 DEF StateFields
    <3>2. st' \in [Scans -> [StateFields -> BOOLEAN]]
      BY <1>0, <1>7, <2>1 DEF StateFields
    <3>3. \A t \in Scans : t # s => UNCHANGED <<pc[t], st[t]>>
      BY <1>0, <1>7, <2>1, CallKinds
    <3>4. QED
      BY <3>1, <3>2, <3>3
  <2>2. CASE UNCHANGED <<pc, st>>
    BY <1>7, <2>2
  <2>3. QED
    BY <1>3, <2>1, <2>2
<1>9. RecordsOK'
  <2>1. eng' \in [Runs -> {"none", "idle", "run", "stopping", "hung", "closed"}]
    BY <1>3, <1>7 DEF Stopped
  <2>2. QED
    BY <1>1, <1>8, <2>1 DEF ScansInv, RecordsOK
<1>10. \/ pc' = [pc EXCEPT ![s] = "drain"] /\ pc'[s] = "drain" /\ taken'[s] >= ResultCap
       \/ pc' = pc /\ ~(taken'[s] >= ResultCap)
  BY <1>0, <1>3, <1>7
<1>11. CallsOK'
  <2>1. CASE pc' = pc
    BY <1>1, <2>1 DEF ScansInv, CallsOK
  <2>2. CASE pc' = [pc EXCEPT ![s] = "drain"]
    <3>1. answer' = [answer EXCEPT ![s] = answer[s]] /\ answer[s] \in Answers
      BY <1>0, <1>1 DEF ScansInv, CallsOK
    <3>2. "drain" \in ScansPlaces
      BY DEF ScansPlaces
    <3>3. QED
      BY <1>0, <1>1, <2>2, <3>1, <3>2, CallMoves DEF ScansInv
  <2>3. QED
    BY <1>10, <2>1, <2>2
<1>12. SlotsOK'
  <2>1. InHand' = InHand
    BY <1>0, <1>1, <1>8, <1>10 DEF InHand
  <2>2. QED
    BY <1>1, <1>8, <2>1, SlotsSame DEF ScansInv, RecordsOK
<1>13. LinesOK'
  <2>1. lines[s] + lost[s] = taken[s] /\ taken[s] < ResultCap
    BY <1>0, <1>1 DEF ScansInv, LinesOK
  <2>2. lines'[s] + lost'[s] = taken'[s] /\ taken'[s] <= ResultCap /\ taken'[s] \in Nat
    BY <1>0, <1>4, <1>5, <2>1, CallKinds
  <2>3. \/ pc'[s] = "drain" /\ taken'[s] = ResultCap
        \/ pc'[s] = "collect" /\ taken'[s] < ResultCap
    BY <1>1, <1>4, <1>10, <2>2
  <2>4. QED
    BY <1>5, <1>8, <2>2, <2>3 DEF ScansInv, LinesOK, Before
<1>14. AnswersOK'
  <2>1. answer[s] = "none"
    BY <1>0, <1>1 DEF ScansInv, AnswersOK
  <2>2. QED
    BY <1>1, <1>5, <1>8, <2>1 DEF ScansInv, AnswersOK
<1>15. QED
  BY <1>6, <1>9, <1>11, <1>12, <1>13, <1>14 DEF ScansInv

LEMMA CollectExpansionStep ==
  ASSUME ScansInv, NEW x \in Runs, CollectExpansion(x)
  PROVE  ScansInv'
<1>0. x \in Expands /\ x \notin Scans
  BY CallKinds DEF CollectExpansion
<1>1. /\ taken[x] < found[x] /\ taken' = [taken EXCEPT ![x] = @ + 1]
      /\ UNCHANGED <<pc, reg, st, eng, found, lines, lost, ctx, answer, subject>>
  BY DEF CollectExpansion, callVars
<1>2. CountsOK'
  <2>1. taken \in [Runs -> Nat] /\ \A r \in Runs : taken[r] \in Nat /\ found[r] \in Nat /\ taken[r] <= found[r]
    BY DEF ScansInv, CountsOK
  <2>2. taken' \in [Runs -> Nat] /\ \A r \in Runs : taken'[r] <= found[r]
    BY <1>1, <2>1
  <2>3. QED
    BY <1>1, <2>2 DEF ScansInv, CountsOK
<1>3. \A s \in Scans : taken'[s] = taken[s]
  BY <1>0, <1>1, CallKinds DEF ScansInv, CountsOK
<1>4. CallsOK' /\ RecordsOK'
  BY <1>1 DEF ScansInv, CallsOK, RecordsOK
<1>5. SlotsOK'
  BY <1>1, SlotsSame DEF ScansInv, InHand
<1>6. LinesOK' /\ AnswersOK'
  BY <1>1, <1>3 DEF ScansInv, LinesOK, AnswersOK
<1>7. QED
  BY <1>2, <1>4, <1>5, <1>6 DEF ScansInv

LEMMA ReturnStep ==
  ASSUME ScansInv, NEW r \in Runs, Return(r)
  PROVE  ScansInv'
<1>1. pc[r] \in {"collect", "drain"} /\ UNCHANGED <<reg, eng, found, taken, lines, lost, subject>>
  BY DEF Return, callVars
<1>2. ctx' \in [Runs -> {"live", "cancelled", "expired"}]
  BY DEF Return, ScansInv, RecordsOK
<1> DEFINE failed == ctx[r] = "expired" /\ r \in Scans
           a == IF failed THEN "failed" ELSE "ok"
<1>3. /\ answer' = [answer EXCEPT ![r] = a] /\ pc' = [pc EXCEPT ![r] = "over"]
      /\ st' = IF r \in Scans THEN [st EXCEPT ![r] = Finished(r, ~failed)] ELSE st
  BY DEF Return
<1>4. a \in Answers \ {"none"} /\ (a = "ok" <=> ~failed) /\ failed \in BOOLEAN
  BY DEF Answers
<1>5. CASE r \in Scans
  <2>1. RecordsOK /\ st[r] \in [StateFields -> BOOLEAN]
    BY <1>5 DEF ScansInv, RecordsOK
  <2>2. /\ Finished(r, ~failed) \in [StateFields -> BOOLEAN]
        /\ ~Finished(r, ~failed).running
        /\ Finished(r, ~failed).capped <=> taken[r] >= ResultCap
        /\ Finished(r, ~failed).hasFile <=> ~failed
    <3>1. ASSUME NEW file \in BOOLEAN
          PROVE  /\ Finished(r, file) \in [StateFields -> BOOLEAN]
                 /\ ~Finished(r, file).running
                 /\ Finished(r, file).capped <=> taken[r] >= ResultCap
                 /\ Finished(r, file).hasFile <=> file
      BY <1>5, <2>1, RecordTypes DEF Finished, StateFields
    <3>2. QED
      BY <1>4, <3>1
  <2>3. taken[r] >= ResultCap <=> taken[r] = ResultCap
    <3>1. taken[r] \in Nat /\ ResultCap \in Nat /\ taken[r] <= ResultCap
      BY <1>5, McpAssumption DEF ScansInv, CountsOK, LinesOK
    <3>2. QED
      BY <3>1
  <2>4. r \in InHand
    BY <1>1, <1>5 DEF InHand
  <2>5. st' = [st EXCEPT ![r] = Finished(r, ~failed)]
    BY <1>3, <1>5
  <2>6. QED
    BY <1>1, <1>2, <1>3, <1>4, <1>5, <2>2, <2>3, <2>4, <2>5, ScanEnds
<1>6. CASE r \in Expands
  <2>1. st' = st /\ a \in Answers
    BY <1>3, <1>4, <1>6, CallKinds
  <2>2. eng' \in [Runs -> {"none", "idle", "run", "stopping", "hung", "closed"}]
    BY <1>1 DEF ScansInv, RecordsOK
  <2>3. QED
    BY <1>1, <1>2, <1>3, <1>6, <2>1, <2>2, ExpansionEnds
<1>7. QED
  BY <1>5, <1>6 DEF Runs

LEMMA PanicStep ==
  ASSUME ScansInv, NEW s \in Scans, Panic(s)
  PROVE  ScansInv'
<1>1. /\ pc[s] \in {"attach", "file", "engine", "target", "collect"}
      /\ pc' = [pc EXCEPT ![s] = "over"] /\ answer' = [answer EXCEPT ![s] = "panic"]
      /\ st' = [st EXCEPT ![s] = SlotBack(s)]
      /\ UNCHANGED <<reg, eng, found, taken, lines, lost, subject>>
  BY DEF Panic, callVars
<1>2. ctx' \in [Runs -> {"live", "cancelled", "expired"}]
  BY DEF Panic, ScansInv, RecordsOK
<1>3. SlotBack(s) \in [StateFields -> BOOLEAN] /\ ~SlotBack(s).running
  <2>1. RecordsOK /\ st[s] \in [StateFields -> BOOLEAN]
    BY DEF ScansInv, RecordsOK
  <2>2. QED
    BY <2>1, RecordTypes DEF SlotBack, StateFields
<1>4. s \in InHand /\ "panic" \in Answers \ {"none"}
  BY <1>1 DEF InHand, Answers
<1>5. QED
  BY <1>1, <1>2, <1>3, <1>4, ScanEnds

(* A request to cancel reads the record, cancels and flags it, in three      *)
(* steps: whatever the scan did meanwhile, it takes no slot and gives none.  *)
LEMMA CancelStep ==
  ASSUME ScansInv, NEW c \in Cancels, CancelRead(c) \/ CancelCall(c) \/ CancelFlag(c)
  PROVE  ScansInv'
<1>0. c \in ScanCalls /\ c \notin Runs /\ c \notin Scans /\ c \notin Expands
  BY CallKinds
<1>1. UNCHANGED <<reg, eng, found, taken, lines, lost, subject>>
  BY DEF CancelRead, CancelCall, CancelFlag, callVars
<1>2. subject[c] \in Scans
  BY DEF ScansInv, CallsOK
<1>3. PICK p \in {"cancel", "flag", "over"}, a \in {answer[c], "unknown", "not_running", "sent"} :
          pc' = [pc EXCEPT ![c] = p] /\ answer' = [answer EXCEPT ![c] = a]
  <2>1. answer = [answer EXCEPT ![c] = answer[c]]
    BY DEF ScansInv, CallsOK
  <2>2. CASE CancelRead(c)
    BY <2>1, <2>2 DEF CancelRead
  <2>3. CASE CancelCall(c)
    BY <2>1, <2>3 DEF CancelCall
  <2>4. CASE CancelFlag(c)
    BY <2>4 DEF CancelFlag
  <2>5. QED
    BY <2>2, <2>3, <2>4
<1>4. CallsOK'
  <2>1. p \in ScansPlaces /\ a \in Answers /\ a \notin {"ok", "failed"}
    BY <1>0 DEF ScansInv, CallsOK, ScansPlaces, Outside, Answers
  <2>2. QED
    BY <1>0, <1>1, <1>3, <2>1, CallMoves DEF ScansInv
<1>5. /\ st' \in [Scans -> [StateFields -> BOOLEAN]]
      /\ \A t \in Scans : UNCHANGED <<st[t].running, st[t].capped, st[t].hasFile>>
  <2>1. st \in [Scans -> [StateFields -> BOOLEAN]]
    BY DEF ScansInv, RecordsOK
  <2>2. CASE st' = st
    BY <2>1, <2>2
  <2>3. CASE st' = [st EXCEPT ![subject[c]].canceled = TRUE]
    BY <1>2, <2>1, <2>3 DEF StateFields
  <2>4. QED
    BY <2>2, <2>3 DEF CancelRead, CancelCall, CancelFlag
<1>6. ctx' \in [Runs -> {"live", "cancelled", "expired"}]
  <2>1. ctx \in [Runs -> {"live", "cancelled", "expired"}]
    BY DEF ScansInv, RecordsOK
  <2>2. QED
    BY <2>1 DEF CancelRead, CancelCall, CancelFlag
<1>7. RecordsOK' /\ CountsOK'
  BY <1>1, <1>5, <1>6 DEF ScansInv, RecordsOK, CountsOK
<1>8. \A s \in Scans : UNCHANGED <<pc[s], answer[s]>>
  BY <1>0, <1>3, CallKinds DEF ScansInv, CallsOK
<1>9. SlotsOK'
  <2>1. InHand' = InHand
    BY <1>8 DEF InHand
  <2>2. QED
    BY <1>1, <1>5, <2>1, SlotsSame DEF ScansInv, RecordsOK
<1>10. LinesOK' /\ AnswersOK'
  BY <1>1, <1>5, <1>8, LinesSame, AnswersSame DEF ScansInv
<1>11. QED
  BY <1>4, <1>7, <1>9, <1>10 DEF ScansInv

-----------------------------------------------------------------------------
LEMMA ScansInvStep == ScansInv /\ [ScansNext]_scanVars => ScansInv'
<1>1. ASSUME ScansInv, UNCHANGED scanVars
      PROVE  ScansInv'
  <2>1. CallsOK' /\ RecordsOK' /\ CountsOK'
    BY <1>1 DEF scanVars, ScansInv, CallsOK, RecordsOK, CountsOK
  <2>2. SlotsOK'
    BY <1>1, SlotsSame DEF scanVars, ScansInv, InHand
  <2>3. LinesOK' /\ AnswersOK'
    BY <1>1 DEF scanVars, ScansInv, LinesOK, AnswersOK
  <2>4. QED
    BY <2>1, <2>2, <2>3 DEF ScansInv
<1>2. ASSUME ScansInv, NEW r \in Runs, Handler(r)
      PROVE  ScansInv'
  BY <1>2, CheckStep, NewEngineStep, StartStep, CollectStep, CollectExpansionStep, ReturnStep
     DEF Handler
<1>3. ASSUME ScansInv, NEW s \in Scans, ScanHandler(s) \/ Panic(s)
      PROVE  ScansInv'
  BY <1>3, RegisterStep, AttachCancelStep, CreateFileStep, PanicStep DEF ScanHandler
<1>4. QED
  BY <1>1, <1>2, <1>3, EngineStep, CancelStep DEF ScansNext

LEMMA ScansInvImpliesSound == ScansInv => ScansSound
<1> SUFFICES ASSUME ScansInv PROVE ScansSound
  OBVIOUS
<1>1. ScansTypeOK
  BY NoStateType DEF ScansInv, CallsOK, RecordsOK, CountsOK, ScansTypeOK, ScanCalls
<1>2. McpScanLimit
  BY DEF ScansInv, SlotsOK, McpScanLimit
<1>3. McpAnswerMatches
  BY DEF ScansInv, LinesOK, AnswersOK, McpAnswerMatches
<1>4. QED
  BY <1>1, <1>2, <1>3 DEF ScansSound

(* Every run of the server's scans keeps the inductive invariant.            *)
THEOREM ScansInvariant == ScansSafety => []ScansInv
  BY ScansInvInit, ScansInvStep, PTL DEF ScansSafety

(* However calls, cancels, failures, panics and expansions interleave, no    *)
(* more scans are in progress than maxConcurrentScans, every slot taken      *)
(* belongs to a call in progress, and what a scan answered agrees with its   *)
(* file and its record (cmd/mcp/main.go:815-949).                            *)
THEOREM ScansAreSound == ScansSafety => []ScansSound
  BY ScansInvariant, ScansInvImpliesSound, PTL

-----------------------------------------------------------------------------
(* The monitor.                                                              *)
MonitorSafety == MonitorInit /\ [][MonitorNext]_monitorVars

-----------------------------------------------------------------------------
(* The places of a cycle in which the baseline it compares with is in hand.  *)
Cycle == {"enlist", "scan", "delist", "write", "copy", "notify"}
MonitorPlaces == Cycle \union {"top", "load", "after", "jitter", "sleep", "exit"}
Rows == [Keys -> Versions]
Hits == [method : AllMethods, version : Versions \ {0}]

TypesOK ==
    /\ main \in MonitorPlaces /\ handler \in {"wait", "flag", "lock", "stop", "hung", "end"}
    /\ site \in Rows /\ results \in Rows
    /\ previous \in [Paths -> Hits \union {NoRow}]
    /\ stateFile \in [exists : BOOLEAN, rows : Rows]
    /\ hadState \in BOOLEAN /\ forceBaseline \in BOOLEAN
    /\ attempts \in 0..MaxWriteRetries
    /\ main \in {"enlist", "scan", "delist"} => attempts = 0
    /\ main \in {"write", "copy"} => attempts < MaxWriteRetries

(* The site only grows, and within a cycle a hit is read after the baseline. *)
AgesOK ==
    /\ \A k \in Keys : stateFile.rows[k] <= site[k] /\ results[k] <= site[k]
    /\ main \in Cycle =>
          \A p \in Paths : \A m \in AllMethods :
              previous[p] # NoRow /\ previous[p].method = m =>
                  /\ previous[p].version <= site[<<p, m>>]
                  /\ results[<<p, m>>] = 0 \/ results[<<p, m>>] >= previous[p].version

(* What the file holds while it is written, and after.                       *)
FileOK ==
    \A k \in Keys :
        /\ main = "copy" => stateFile.rows[k] \in {0, results[k]}
        /\ main = "notify" => stateFile.rows[k] = results[k]

(* A version that was reported as the change of another is not younger than  *)
(* what the site, the file and the cycle show of the path and the method.    *)
NotYounger(p, m, n) ==
    /\ n <= site[<<p, m>>]
    /\ stateFile.rows[<<p, m>>] = 0 \/ stateFile.rows[<<p, m>>] >= n
    /\ main \in Cycle => /\ previous[p] # NoRow /\ previous[p].method = m => previous[p].version >= n
                         /\ results[<<p, m>>] = 0 \/ results[<<p, m>>] >= n

ReportedOK ==
    /\ repeated = {}
    /\ \A c \in told :
          \E p \in Paths, m \in AllMethods, o, n \in Versions :
              c = <<p, Row(m, o), Row(m, n)>> /\ o # 0 /\ n > o /\ NotYounger(p, m, n)

(* What stands in a row is accounted for.                                    *)
Known(k, v) == v = 0 \/ <<k[1], Row(k[2], v)>> \in accounted

KnownOK ==
    /\ \A k \in Keys : Known(k, stateFile.rows[k]) \/ main \in {"copy", "notify"}
    /\ main \in Cycle => \A p \in Paths : previous[p] = NoRow \/ <<p, previous[p]>> \in accounted
    /\ main \in {"copy", "notify"} =>
          \A k \in Keys : \/ Known(k, results[k])
                          \/ Reporting /\ <<k[1], previous[k[1]], Row(k[2], results[k])>> \in findInteresting

MonitorInv == TypesOK /\ AgesOK /\ FileOK /\ ReportedOK /\ KnownOK

-----------------------------------------------------------------------------
LEMMA VersionsNat == 0 \in Versions /\ 1 \in Versions /\ Versions \subseteq Nat
  BY MonitorAssumption DEF Versions

LEMMA KeyParts ==
  /\ \A p \in Paths, m \in AllMethods :
        <<p, m>> \in Keys /\ <<p, m>>[1] = p /\ <<p, m>>[2] = m
  /\ \A k \in Keys : k[1] \in Paths /\ k[2] \in AllMethods /\ k = <<k[1], k[2]>>
  BY DEF Keys

LEMMA RowTypes ==
  ASSUME TypesOK, NEW k \in Keys
  PROVE  /\ site[k] \in Nat /\ results[k] \in Nat /\ stateFile.rows[k] \in Nat
         /\ site[k] \in Versions /\ results[k] \in Versions /\ stateFile.rows[k] \in Versions
  BY VersionsNat DEF TypesOK, Rows

LEMMA NoRowIsNoHit == NoRow \notin Hits /\ NoRow.version = 0
  BY DEF Hits, NoRow, Row

LEMMA HitParts ==
  ASSUME NEW r \in Hits
  PROVE  /\ r.method \in AllMethods /\ r.version \in Nat /\ r.version # 0 /\ r.version \in Versions
         /\ r = Row(r.method, r.version) /\ r # NoRow
  BY VersionsNat, NoRowIsNoHit DEF Hits, Row

LEMMA NothingRead ==
  /\ NoRows \in Rows /\ \A k \in Keys : NoRows[k] = 0
  /\ NoBaseline \in [Paths -> Hits \union {NoRow}] /\ \A p \in Paths : NoBaseline[p] = NoRow
  BY VersionsNat DEF NoRows, Rows, NoBaseline

(* An answer does not differ from itself.                                    *)
LEMMA SameIsSame ==
  ASSUME NEW r \in Hits
  PROVE  ~Differs(r, r)
<1>1. <<r.method, r.version>> \in AllMethods \X (1..MaxVersion)
  <2>1. r.method \in AllMethods /\ r.version \in 0..MaxVersion /\ r.version # 0
    BY HitParts DEF Versions
  <2>2. r.version \in 1..MaxVersion
    BY <2>1, MonitorAssumption
  <2>3. QED
    BY <2>1, <2>2
<1>2. Said(r) \in [status : Nat, size : Int]
  BY <1>1, MonitorAssumption DEF Said
<1>3. PICK s : s = Said(r).size
  OBVIOUS
<1>4. s \in Int
  BY <1>2, <1>3
<1>5. ~SizeChanged(s, s)
  BY <1>4 DEF SizeChanged
<1>6. QED
  BY <1>3, <1>5 DEF Differs

LEMMA MonitorInvInit == MonitorInit => MonitorInv
<1> SUFFICES ASSUME MonitorInit PROVE MonitorInv
  OBVIOUS
<1>1. site \in Rows /\ \A k \in Keys : site[k] \in Nat
  BY VersionsNat DEF Rows, MonitorInit
<1>2. main = "top" /\ handler = "wait" /\ hadState = FALSE /\ attempts = 0 /\ forceBaseline \in BOOLEAN
      /\ previous = NoBaseline /\ results = NoRows
      /\ stateFile = [exists |-> FALSE, rows |-> NoRows]
      /\ told = {} /\ repeated = {}
  BY DEF MonitorInit
<1>3. TypesOK
  <2>1. 0 \in 0..MaxWriteRetries
    BY MonitorAssumption
  <2>2. QED
    BY <1>1, <1>2, <2>1, NothingRead DEF TypesOK, MonitorPlaces
<1>4. AgesOK /\ FileOK
  BY <1>1, <1>2, NothingRead DEF AgesOK, FileOK, Cycle
<1>5. ReportedOK
  BY <1>2 DEF ReportedOK
<1>6. KnownOK
  BY <1>2, NothingRead DEF KnownOK, Known, Cycle
<1>7. QED
  BY <1>3, <1>4, <1>5, <1>6 DEF MonitorInv

-----------------------------------------------------------------------------
(* Reports of the past stay what they were while nothing gets older.         *)
LEMMA ToldStays ==
  ASSUME ReportedOK, UNCHANGED <<told, repeated>>,
         \A p \in Paths, m \in AllMethods, n \in Versions : NotYounger(p, m, n) => NotYounger(p, m, n)'
  PROVE  ReportedOK'
<1> SUFFICES ASSUME NEW c \in told
             PROVE  \E p \in Paths, m \in AllMethods, o, n \in Versions :
                       c = <<p, Row(m, o), Row(m, n)>> /\ o # 0 /\ n > o /\ NotYounger(p, m, n)'
  BY DEF ReportedOK
<1>1. PICK p \in Paths, m \in AllMethods, o \in Versions, n \in Versions :
         c = <<p, Row(m, o), Row(m, n)>> /\ o # 0 /\ n > o /\ NotYounger(p, m, n)
  BY DEF ReportedOK
<1>2. QED
  BY <1>1

(* Steps that move the loop or the handler and leave the data alone.         *)
LEMMA Quiet ==
  ASSUME MonitorInv, TypesOK',
         UNCHANGED <<site, stateFile, previous, results, hadState, forceBaseline, told, repeated, accounted>>,
         \/ main' = main
         \/ main \notin {"copy", "notify"} /\ main' \notin {"copy", "notify"}
            /\ (main' \in Cycle => main \in Cycle)
  PROVE  MonitorInv'
<1>1. AgesOK' /\ FileOK'
  BY DEF MonitorInv, AgesOK, FileOK
<1>2. ReportedOK'
  <2>1. \A p \in Paths, m \in AllMethods, n \in Versions : NotYounger(p, m, n) => NotYounger(p, m, n)'
    BY DEF NotYounger
  <2>2. QED
    BY <2>1, ToldStays DEF MonitorInv
<1>3. KnownOK'
  BY DEF MonitorInv, KnownOK, Known, findInteresting, Compared, Reporting
<1>4. QED
  BY <1>1, <1>2, <1>3 DEF MonitorInv

LEMMA QuietSteps ==
  ASSUME MonitorInv,
         \/ LoopTop \/ Enlist \/ collectScanCycleResults \/ Delist \/ WriteFails
         \/ Sleep \/ SignalHandler \/ Signal \/ UNCHANGED monitorVars
  PROVE  MonitorInv'
<1>1. UNCHANGED <<site, stateFile, previous, results, hadState, forceBaseline, told, repeated, accounted>>
  BY DEF LoopTop, Enlist, collectScanCycleResults, Delist, WriteFails, Sleep,
         SignalHandler, Signal, monitorVars, cycleVars, worldVars, reportVars, envVars
<1>2. TypesOK
  BY DEF MonitorInv
<1>3. /\ main' \in MonitorPlaces /\ handler' \in {"wait", "flag", "lock", "stop", "hung", "end"}
      /\ \/ main' = main
         \/ main \notin {"copy", "notify"} /\ main' \notin {"copy", "notify"}
            /\ (main' \in Cycle => main \in Cycle)
  <2>1. main \in MonitorPlaces /\ handler \in {"wait", "flag", "lock", "stop", "hung", "end"}
    BY <1>2 DEF TypesOK
  <2>2. CASE LoopTop \/ Enlist \/ collectScanCycleResults \/ Delist
    BY <2>1, <2>2 DEF LoopTop, Enlist, collectScanCycleResults, Delist, signalVars, MonitorPlaces, Cycle
  <2>3. CASE WriteFails \/ Sleep
    BY <2>1, <2>3 DEF WriteFails, Retries, Sleep, signalVars, MonitorPlaces, Cycle
  <2>4. CASE SignalHandler \/ Signal \/ UNCHANGED monitorVars
    BY <2>1, <2>4 DEF SignalHandler, Signal, monitorVars
  <2>5. QED
    BY <2>2, <2>3, <2>4
<1>4. /\ attempts' \in 0..MaxWriteRetries
      /\ main' \in {"enlist", "scan", "delist"} => attempts' = 0
      /\ main' \in {"write", "copy"} => attempts' < MaxWriteRetries
  <2>1. MaxWriteRetries \in Nat \ {0}
    BY MonitorAssumption
  <2>2. CASE WriteFails
    <3>1. attempts' = attempts + 1 /\ attempts \in 0..MaxWriteRetries /\ attempts < MaxWriteRetries
      BY <1>2, <2>2 DEF WriteFails, Retries, TypesOK
    <3>2. main' = "after" \/ (main' = "write" /\ attempts' < MaxWriteRetries)
      BY <2>2 DEF WriteFails, Retries
    <3>3. QED
      BY <2>1, <3>1, <3>2
  <2>3. CASE /\ attempts' = attempts
             /\ \/ main' = main
                \/ main' \in {"load", "exit", "sleep", "top"}
                \/ main \in {"enlist", "scan", "delist"} /\ main' \in {"scan", "delist", "write"}
    BY <1>2, <2>1, <2>3 DEF TypesOK
  <2>4. CASE LoopTop \/ Enlist \/ collectScanCycleResults \/ Delist
    <3>1. attempts' = attempts
      BY <2>4 DEF LoopTop, Enlist, collectScanCycleResults, Delist, cycleVars
    <3>2. \/ main' \in {"exit", "load"}
          \/ main \in {"enlist", "scan", "delist"} /\ main' \in {"scan", "delist", "write"}
      BY <2>4 DEF LoopTop, Enlist, collectScanCycleResults, Delist
    <3>3. QED
      BY <2>3, <3>1, <3>2
  <2>5. CASE Sleep
    <3>1. attempts' = attempts
      BY <2>5 DEF Sleep, cycleVars
    <3>2. QED
      BY <2>3, <2>5, <3>1 DEF Sleep
  <2>6. CASE SignalHandler \/ Signal \/ UNCHANGED monitorVars
    <3>1. attempts' = attempts /\ main' = main
      BY <2>6 DEF SignalHandler, Signal, monitorVars, cycleVars
    <3>2. QED
      BY <2>3, <3>1
  <2>7. QED
    BY <2>2, <2>4, <2>5, <2>6
<1>5. TypesOK'
  BY <1>1, <1>2, <1>3, <1>4 DEF TypesOK
<1>6. QED
  BY <1>1, <1>3, <1>5, Quiet

(* The cycle returns, or the process crashes: what it held is gone.          *)
LEMMA CycleEnds ==
  ASSUME MonitorInv, CycleOver, main' \in {"exit", "jitter", "top"}, UNCHANGED <<site, stateFile, told, repeated>>,
         handler' \in {"wait", "flag", "lock", "stop", "hung", "end"}, forceBaseline' \in BOOLEAN,
         \A k \in Keys : Known(k, stateFile.rows[k])'
  PROVE  MonitorInv'
<1>1. TypesOK /\ AgesOK /\ ReportedOK
  BY DEF MonitorInv
<1>2. previous' = NoBaseline /\ results' = NoRows /\ hadState' = FALSE /\ attempts' = 0
  BY DEF CycleOver
<1>3. TypesOK'
  <2>1. 0 \in 0..MaxWriteRetries
    BY MonitorAssumption
  <2>2. QED
    BY <1>1, <1>2, <2>1, NothingRead DEF TypesOK, MonitorPlaces
<1>4. AgesOK'
  <2>1. \A k \in Keys : site[k] \in Nat
    BY <1>1, RowTypes
  <2>2. QED
    BY <1>1, <1>2, <2>1, NothingRead DEF AgesOK, Cycle
<1>5. FileOK' /\ KnownOK'
  BY DEF FileOK, KnownOK, Cycle
<1>6. ReportedOK'
  <2>1. \A p \in Paths, m \in AllMethods, n \in Versions : NotYounger(p, m, n) => NotYounger(p, m, n)'
    BY DEF NotYounger, Cycle
  <2>2. QED
    BY <1>1, <2>1, ToldStays
<1>7. QED
  BY <1>3, <1>4, <1>5, <1>6 DEF MonitorInv

LEMMA AfterEnds == ASSUME MonitorInv, AfterCycle PROVE MonitorInv'
<1>1. /\ main = "after" /\ main' \in {"exit", "jitter"} /\ CycleOver
      /\ UNCHANGED <<handler, forceBaseline, site, stateFile, told, repeated, accounted>>
  BY DEF AfterCycle, signalVars, worldVars, envVars, reportVars
<1>2. \A k \in Keys : Known(k, stateFile.rows[k])
  BY <1>1 DEF MonitorInv, KnownOK
<1>3. \A k \in Keys : Known(k, stateFile.rows[k])'
  BY <1>1, <1>2 DEF Known
<1>4. handler' \in {"wait", "flag", "lock", "stop", "hung", "end"} /\ forceBaseline' \in BOOLEAN
  BY <1>1 DEF MonitorInv, TypesOK
<1>5. QED
  BY <1>1, <1>3, <1>4, CycleEnds

-----------------------------------------------------------------------------
(* A cycle begins: the baseline is read from the file, which is accounted    *)
(* for; of a path it holds one row of the file, or none.                     *)
LEMMA RowsRead ==
  ASSUME TypesOK, NEW p \in Paths, NEW r \in Read(p), r # NoRow
  PROVE  /\ r \in Hits /\ r.method \in AllMethods
         /\ r.version = stateFile.rows[<<p, r.method>>] /\ r.version # 0
<1>1. PICK m \in AllMethods : stateFile.rows[<<p, m>>] # 0 /\ r = Row(m, stateFile.rows[<<p, m>>])
  BY DEF Read
<1>2. stateFile.rows[<<p, m>>] \in Versions
  BY KeyParts, RowTypes
<1>3. QED
  BY <1>1, <1>2 DEF Row, Hits

LEMMA Loads == ASSUME MonitorInv, LoadState PROVE MonitorInv'
<1>1. TypesOK /\ AgesOK /\ ReportedOK /\ KnownOK
  BY DEF MonitorInv
<1>2. /\ main = "load" /\ main' \in {"enlist", "after"}
      /\ hadState' = stateFile.exists /\ results' = NoRows /\ attempts' = 0
      /\ UNCHANGED <<site, handler, stateFile, forceBaseline, told, repeated, accounted>>
  BY DEF LoadState, signalVars, worldVars, envVars, reportVars
<1>3. /\ previous' \in [Paths -> UNION {Read(p) : p \in Paths}]
      /\ \A p \in Paths : previous'[p] \in Read(p)
  BY DEF LoadState
<1>4. \A p \in Paths : previous'[p] # NoRow =>
         /\ previous'[p] \in Hits /\ previous'[p].method \in AllMethods
         /\ previous'[p].version = stateFile.rows[<<p, previous'[p].method>>] /\ previous'[p].version # 0
  BY <1>1, <1>3, RowsRead
<1>5. previous' \in [Paths -> Hits \union {NoRow}]
  BY <1>3, <1>4
<1>6. TypesOK'
  <2>1. MaxWriteRetries \in Nat \ {0}
    BY MonitorAssumption
  <2>2. QED
    BY <1>1, <1>2, <1>5, <2>1, NothingRead DEF TypesOK, MonitorPlaces, Cycle
<1>7. AgesOK'
  <2>1. \A k \in Keys : /\ site[k] \in Nat /\ stateFile.rows[k] \in Nat /\ stateFile.rows[k] <= site[k]
                        /\ results'[k] = 0
    BY <1>1, <1>2, RowTypes, NothingRead DEF AgesOK
  <2>2. ASSUME NEW p \in Paths, NEW m \in AllMethods, previous'[p] # NoRow, previous'[p].method = m
        PROVE  previous'[p].version <= site[<<p, m>>] /\ results'[<<p, m>>] = 0
    <3>1. previous'[p].version = stateFile.rows[<<p, m>>] /\ <<p, m>> \in Keys
      BY <1>4, <2>2, KeyParts
    <3>2. QED
      BY <2>1, <3>1
  <2>3. QED
    BY <1>2, <2>1, <2>2 DEF AgesOK
<1>8. FileOK'
  BY <1>2 DEF FileOK
<1>9. ReportedOK'
  <2> SUFFICES ASSUME NEW p \in Paths, NEW m \in AllMethods, NEW n \in Versions, NotYounger(p, m, n)
               PROVE  NotYounger(p, m, n)'
    BY <1>1, <1>2, ToldStays
  <2>1. results'[<<p, m>>] = 0
    BY <1>2, NothingRead, KeyParts
  <2>2. previous'[p] # NoRow /\ previous'[p].method = m =>
          previous'[p].version = stateFile.rows[<<p, m>>] /\ previous'[p].version # 0
    BY <1>4
  <2>3. QED
    BY <1>2, <2>1, <2>2 DEF NotYounger
<1>10. KnownOK'
  <2>1. ASSUME NEW p \in Paths, previous'[p] # NoRow PROVE <<p, previous'[p]>> \in accounted
    <3>1. PICK m \in AllMethods : m = previous'[p].method
      BY <1>4, <2>1
    <3>2. /\ previous'[p] \in Hits /\ previous'[p].version = stateFile.rows[<<p, m>>]
          /\ previous'[p].version # 0
      BY <1>4, <2>1, <3>1
    <3>3. previous'[p] = Row(m, stateFile.rows[<<p, m>>])
      BY <3>1, <3>2, HitParts
    <3>4. <<p, m>> \in Keys /\ <<p, m>>[1] = p /\ <<p, m>>[2] = m
      BY KeyParts
    <3>5. Known(<<p, m>>, stateFile.rows[<<p, m>>])
      BY <1>1, <1>2, <3>4 DEF KnownOK
    <3>6. QED
      BY <3>2, <3>3, <3>4, <3>5 DEF Known
  <2>2. \A k \in Keys : Known(k, stateFile.rows[k])'
    BY <1>1, <1>2 DEF KnownOK, Known
  <2>3. QED
    BY <1>2, <2>1, <2>2 DEF KnownOK
<1>11. QED
  BY <1>6, <1>7, <1>8, <1>9, <1>10 DEF MonitorInv

(* A hit of the cycle is what the site serves, which no report is ahead of.  *)
LEMMA HitIsRead ==
  ASSUME MonitorInv, NEW q \in Paths, NEW w \in AllMethods, ScanPath(q, w)
  PROVE  MonitorInv'
<1>1. TypesOK /\ AgesOK /\ ReportedOK /\ KnownOK
  BY DEF MonitorInv
<1>2. PICK j \in Keys : j = <<q, w>>
  BY KeyParts
<1>3. /\ main = "scan" /\ main' = main /\ results' = [results EXCEPT ![j] = site[j]]
      /\ UNCHANGED <<site, handler, stateFile, previous, hadState, forceBaseline, attempts, told,
                     repeated, accounted>>
  BY <1>2 DEF ScanPath, signalVars, worldVars, envVars, reportVars
<1>4. results' \in Rows /\ \A k \in Keys : results'[k] = IF k = j THEN site[k] ELSE results[k]
  BY <1>1, <1>3 DEF TypesOK, Rows
<1>5. TypesOK'
  BY <1>1, <1>3, <1>4 DEF TypesOK
<1>6. AgesOK'
  <2>1. \A k \in Keys : site[k] \in Nat /\ results[k] \in Nat
    BY <1>1, RowTypes
  <2>2. \A k \in Keys : stateFile.rows[k] <= site[k] /\ results'[k] <= site[k]
    BY <1>1, <1>4, <2>1 DEF AgesOK
  <2>3. ASSUME NEW p \in Paths, NEW m \in AllMethods, previous[p] # NoRow, previous[p].method = m
        PROVE  /\ previous[p].version <= site[<<p, m>>]
               /\ results'[<<p, m>>] = 0 \/ results'[<<p, m>>] >= previous[p].version
    <3>1. /\ previous[p].version <= site[<<p, m>>]
          /\ results[<<p, m>>] = 0 \/ results[<<p, m>>] >= previous[p].version
      BY <1>1, <1>3, <2>3 DEF AgesOK, Cycle
    <3>2. <<p, m>> \in Keys /\ previous[p].version \in Nat
      BY <1>1, <2>3, KeyParts, HitParts DEF TypesOK
    <3>3. QED
      BY <1>4, <2>1, <3>1, <3>2
  <2>4. QED
    BY <1>3, <2>2, <2>3 DEF AgesOK
<1>7. FileOK'
  BY <1>3 DEF FileOK
<1>8. ReportedOK'
  <2> SUFFICES ASSUME NEW p \in Paths, NEW m \in AllMethods, NEW n \in Versions, NotYounger(p, m, n)
               PROVE  NotYounger(p, m, n)'
    BY <1>1, <1>3, ToldStays
  <2>1. <<p, m>> \in Keys
    BY KeyParts
  <2>2. site[<<p, m>>] \in Nat /\ n \in Nat
    BY <1>1, <2>1, RowTypes, VersionsNat
  <2>3. results'[<<p, m>>] \in {results[<<p, m>>], site[<<p, m>>]}
    BY <1>4, <2>1
  <2>4. QED
    BY <1>3, <2>2, <2>3 DEF NotYounger, Cycle
<1>9. KnownOK'
  BY <1>1, <1>3 DEF KnownOK, Known
<1>10. QED
  BY <1>5, <1>6, <1>7, <1>8, <1>9 DEF MonitorInv

-----------------------------------------------------------------------------
(* What a write knows of the results when they enter the file: a row that is *)
(* not accounted for yet will be reported.                                   *)
LEMMA WriteKnown ==
  ASSUME MonitorInv, main = "write", NoteWrite, UNCHANGED <<previous, results, hadState, forceBaseline>>
  PROVE  /\ accounted \subseteq accounted'
         /\ \A k \in Keys :
               \/ Known(k, results[k])'
               \/ (Reporting /\ <<k[1], previous[k[1]], Row(k[2], results[k])>> \in findInteresting)'
<1>1. accounted' = accounted \union
        {<<c[1], c[3]>> : c \in IF Reporting THEN Tolerated ELSE Compared}
  BY DEF NoteWrite, Account
<1>2. Reporting' = Reporting /\ findInteresting' = findInteresting
  BY DEF Reporting, findInteresting, Compared
<1>3. ASSUME NEW k \in Keys, results[k] # 0
      PROVE  \/ <<k[1], Row(k[2], results[k])>> \in accounted'
             \/ Reporting /\ <<k[1], previous[k[1]], Row(k[2], results[k])>> \in findInteresting
  <2>1. PICK c : c = <<k[1], previous[k[1]], Row(k[2], results[k])>>
    OBVIOUS
  <2>2. c \in Compared /\ c[1] = k[1] /\ c[2] = previous[k[1]] /\ c[3] = Row(k[2], results[k])
    BY <1>3, <2>1 DEF Compared
  <2>3. CASE ~Reporting
    BY <1>1, <2>2, <2>3
  <2>4. CASE Reporting /\ (c[2] = NoRow \/ Differs(c[2], c[3]))
    BY <2>1, <2>2, <2>4 DEF findInteresting
  <2>5. CASE Reporting /\ c[2] # NoRow /\ c[2] = c[3]
    <3>1. k[1] \in Paths
      BY KeyParts
    <3>2. <<k[1], previous[k[1]]>> \in accounted
      BY <2>2, <2>5, <3>1 DEF MonitorInv, KnownOK, Cycle
    <3>3. QED
      BY <1>1, <2>2, <2>5, <3>2
  <2>6. CASE Reporting /\ c[2] # NoRow /\ c[2] # c[3] /\ ~Differs(c[2], c[3])
    <3>1. c \in Tolerated
      BY <2>2, <2>6 DEF Tolerated
    <3>2. QED
      BY <1>1, <2>2, <2>6, <3>1
  <2>7. QED
    BY <2>3, <2>4, <2>5, <2>6
<1>4. QED
  BY <1>1, <1>2, <1>3 DEF Known

(* The file takes the results, or as many rows of them as were copied.       *)
LEMMA Writes == ASSUME MonitorInv, RenameState \/ CopyBegins \/ CopyEnds PROVE MonitorInv'
<1>1. TypesOK /\ AgesOK /\ ReportedOK /\ KnownOK /\ FileOK
  BY DEF MonitorInv
<1>2. /\ main \in {"write", "copy"} /\ main' \in {"copy", "notify"}
      /\ UNCHANGED <<site, handler, previous, results, hadState, forceBaseline, attempts, told, repeated>>
  BY DEF RenameState, CopyBegins, CopyEnds, NoteWrite, Account, signalVars, cycleVars, envVars, reportVars
<1>3. /\ stateFile' \in [exists : BOOLEAN, rows : Rows]
      /\ \A k \in Keys : /\ stateFile'.rows[k] \in {0, results[k]}
                         /\ main' = "notify" => stateFile'.rows[k] = results[k]
  <2>1. results \in Rows /\ 0 \in Versions
    BY <1>1, VersionsNat DEF TypesOK
  <2>2. CASE RenameState \/ CopyEnds
    <3>1. stateFile' = [exists |-> TRUE, rows |-> results]
      BY <2>2 DEF RenameState, CopyEnds
    <3>2. QED
      BY <2>1, <3>1
  <2>3. CASE CopyBegins
    <3>1. PICK written \in SUBSET Keys :
            stateFile' = [exists |-> TRUE, rows |-> [k \in Keys |-> IF k \in written THEN results[k] ELSE 0]]
      BY <2>3 DEF CopyBegins
    <3>2. [k \in Keys |-> IF k \in written THEN results[k] ELSE 0] \in Rows
      BY <2>1 DEF Rows
    <3>3. main' = "copy"
      BY <2>3 DEF CopyBegins
    <3>4. QED
      BY <3>1, <3>2, <3>3
  <2>4. QED
    BY <2>2, <2>3
<1>4. TypesOK'
  BY <1>1, <1>2, <1>3 DEF TypesOK, MonitorPlaces, Cycle
<1>5. AgesOK'
  <2>1. \A k \in Keys : site[k] \in Nat /\ results[k] <= site[k]
    BY <1>1, RowTypes DEF AgesOK
  <2>2. \A k \in Keys : stateFile'.rows[k] <= site[k]
    BY <1>3, <2>1
  <2>3. QED
    BY <1>1, <1>2, <2>1, <2>2 DEF AgesOK, Cycle
<1>6. FileOK'
  BY <1>2, <1>3 DEF FileOK
<1>7. ReportedOK'
  <2> SUFFICES ASSUME NEW p \in Paths, NEW m \in AllMethods, NEW n \in Versions, NotYounger(p, m, n)
               PROVE  NotYounger(p, m, n)'
    BY <1>1, <1>2, ToldStays
  <2>1. stateFile'.rows[<<p, m>>] \in {0, results[<<p, m>>]}
    BY <1>3, KeyParts
  <2>2. QED
    BY <1>2, <2>1 DEF NotYounger, Cycle
<1>8. KnownOK'
  <2>1. /\ accounted \subseteq accounted'
        /\ \A k \in Keys :
              \/ Known(k, results[k])'
              \/ (Reporting /\ <<k[1], previous[k[1]], Row(k[2], results[k])>> \in findInteresting)'
    <3>1. CASE RenameState \/ CopyBegins
      <4>1. main = "write" /\ NoteWrite
        BY <3>1 DEF RenameState, CopyBegins
      <4>2. QED
        BY <1>2, <4>1, WriteKnown
    <3>2. CASE CopyEnds
      <4>1. main = "copy" /\ accounted' = accounted
        BY <3>2 DEF CopyEnds, reportVars
      <4>2. QED
        BY <1>1, <1>2, <4>1 DEF KnownOK, Known, Reporting, findInteresting, Compared
    <3>3. QED
      BY <3>1, <3>2
  <2>2. \A p \in Paths : previous'[p] = NoRow \/ <<p, previous'[p]>> \in accounted'
    BY <1>1, <1>2, <2>1 DEF KnownOK, Cycle
  <2>3. QED
    BY <1>2, <2>1, <2>2 DEF KnownOK
<1>9. QED
  BY <1>4, <1>5, <1>6, <1>7, <1>8 DEF MonitorInv

-----------------------------------------------------------------------------
(* The end of a cycle that wrote: its report goes out, or is lost.  Either   *)
(* way the file is accounted for.                                            *)
LEMMA FileKnown ==
  ASSUME MonitorInv, main \in {"copy", "notify"}, stateFile' = stateFile,
         accounted \subseteq accounted',
         Reporting => \A c \in findInteresting : <<c[1], c[3]>> \in accounted'
  PROVE  \A k \in Keys : Known(k, stateFile.rows[k])'
<1> SUFFICES ASSUME NEW k \in Keys, stateFile.rows[k] # 0
             PROVE  <<k[1], Row(k[2], stateFile.rows[k])>> \in accounted'
  BY DEF Known
<1>1. stateFile.rows[k] = results[k] /\ results[k] # 0
  BY DEF MonitorInv, FileOK
<1>2. \/ Known(k, results[k])
      \/ Reporting /\ <<k[1], previous[k[1]], Row(k[2], results[k])>> \in findInteresting
  BY DEF MonitorInv, KnownOK
<1>3. QED
  BY <1>1, <1>2 DEF Known

(* A change of one method that goes out now was not told before: otherwise   *)
(* its baseline would be younger than the change.                            *)
LEMMA NotReportedYet ==
  ASSUME MonitorInv, main = "notify", NEW c \in OfOneMethod
  PROVE  /\ c \notin told
         /\ \E p \in Paths, m \in AllMethods, o, n \in Versions :
               /\ c = <<p, Row(m, o), Row(m, n)>> /\ o # 0 /\ n > o
               /\ results[<<p, m>>] = n /\ previous[p] = Row(m, o)
<1>1. c \in Compared /\ c[2] # NoRow /\ Differs(c[2], c[3]) /\ c[2].method = c[3].method
  BY DEF OfOneMethod, findInteresting
<1>2. PICK k \in Keys : results[k] # 0 /\ c = <<k[1], previous[k[1]], Row(k[2], results[k])>>
  BY <1>1 DEF Compared
<1>3. PICK p \in Paths, m \in AllMethods : k = <<p, m>> /\ k[1] = p /\ k[2] = m
  BY KeyParts
<1>4. c[1] = p /\ c[2] = previous[p] /\ c[3] = Row(m, results[k])
  BY <1>2, <1>3
<1>5. previous[p] \in Hits
  BY <1>1, <1>4 DEF MonitorInv, TypesOK
<1>6. PICK o \in Versions : o = previous[p].version
  BY <1>5, HitParts
<1>7. PICK n \in Versions : n = results[k]
  BY RowTypes DEF MonitorInv
<1>8. previous[p].method = m /\ previous[p] = Row(m, o) /\ o # 0
  BY <1>1, <1>4, <1>5, <1>6, HitParts DEF Row
<1>9. c[3] = Row(m, n) /\ n # 0 /\ Row(m, n) \in Hits
  BY <1>2, <1>4, <1>7 DEF Row, Hits
<1>10. o # n
  BY <1>1, <1>4, <1>8, <1>9, SameIsSame
<1>11. o \in Nat /\ n \in Nat
  BY VersionsNat
<1>12. n > o
  <2>1. results[<<p, m>>] = 0 \/ results[<<p, m>>] >= previous[p].version
    BY <1>1, <1>4, <1>8 DEF MonitorInv, AgesOK, Cycle
  <2>2. QED
    BY <1>3, <1>6, <1>7, <1>9, <1>10, <1>11, <2>1
<1>13. c = <<p, Row(m, o), Row(m, n)>>
  BY <1>2, <1>3, <1>7, <1>8
<1>14. c \notin told
  <2> SUFFICES ASSUME c \in told PROVE FALSE
    OBVIOUS
  <2>1. PICK pp \in Paths, mm \in AllMethods, oo \in Versions, nn \in Versions :
           c = <<pp, Row(mm, oo), Row(mm, nn)>> /\ NotYounger(pp, mm, nn)
    BY DEF MonitorInv, ReportedOK
  <2>2. pp = p /\ Row(mm, nn) = Row(m, n)
    BY <1>13, <2>1
  <2>3. mm = m /\ nn = n
    BY <2>2 DEF Row
  <2>4. previous[p].version >= n
    BY <1>1, <1>4, <1>8, <2>1, <2>2, <2>3 DEF NotYounger, Cycle
  <2>5. QED
    BY <1>6, <1>11, <1>12, <2>4
<1>15. QED
  BY <1>3, <1>7, <1>8, <1>12, <1>13, <1>14

LEMMA Reports == ASSUME MonitorInv, Notify PROVE MonitorInv'
<1>1. TypesOK /\ AgesOK /\ ReportedOK /\ KnownOK /\ FileOK
  BY DEF MonitorInv
<1>2. /\ main = "notify" /\ main' = "after"
      /\ UNCHANGED <<site, stateFile, handler, previous, results, hadState, forceBaseline, attempts>>
  BY DEF Notify, signalVars, cycleVars, envVars
<1>3. \/ told' = told /\ repeated' = repeated
      \/ told' = told \union OfOneMethod /\ repeated' = repeated \union (told \intersect OfOneMethod)
  BY DEF Notify, reportVars
<1>4. /\ accounted \subseteq accounted'
      /\ Reporting => \A c \in findInteresting : <<c[1], c[3]>> \in accounted'
  BY DEF Notify, reportVars
<1>5. TypesOK' /\ AgesOK' /\ FileOK'
  BY <1>1, <1>2 DEF TypesOK, AgesOK, FileOK, MonitorPlaces, Cycle
<1>6. ReportedOK'
  <2>1. repeated' = {}
    <3>1. told \intersect OfOneMethod = {}
      BY <1>2, NotReportedYet
    <3>2. repeated = {}
      BY <1>1 DEF ReportedOK
    <3>3. QED
      BY <1>3, <3>1, <3>2
  <2>2. ASSUME NEW c \in told
        PROVE  \E p \in Paths, m \in AllMethods, o, n \in Versions :
                  c = <<p, Row(m, o), Row(m, n)>> /\ o # 0 /\ n > o /\ NotYounger(p, m, n)'
    <3>1. PICK p \in Paths, m \in AllMethods, o \in Versions, n \in Versions :
             c = <<p, Row(m, o), Row(m, n)>> /\ o # 0 /\ n > o /\ NotYounger(p, m, n)
      BY <1>1, <2>2 DEF ReportedOK
    <3>2. NotYounger(p, m, n)'
      BY <1>2, <3>1 DEF NotYounger, Cycle
    <3>3. QED
      BY <3>1, <3>2
  <2>3. ASSUME NEW c \in OfOneMethod
        PROVE  \E p \in Paths, m \in AllMethods, o, n \in Versions :
                  c = <<p, Row(m, o), Row(m, n)>> /\ o # 0 /\ n > o /\ NotYounger(p, m, n)'
    <3>1. PICK p \in Paths, m \in AllMethods, o \in Versions, n \in Versions :
             /\ c = <<p, Row(m, o), Row(m, n)>> /\ o # 0 /\ n > o
             /\ results[<<p, m>>] = n /\ previous[p] = Row(m, o)
      <4>1. \E p \in Paths, m \in AllMethods, o, n \in Versions :
               /\ c = <<p, Row(m, o), Row(m, n)>> /\ o # 0 /\ n > o
               /\ results[<<p, m>>] = n /\ previous[p] = Row(m, o)
        BY <1>2, <2>3, NotReportedYet
      <4>2. QED
        BY <4>1
    <3>2. <<p, m>> \in Keys
      BY KeyParts
    <3>3. n <= site[<<p, m>>] /\ stateFile.rows[<<p, m>>] = n /\ n \in Nat
      BY <1>1, <1>2, <3>1, <3>2, VersionsNat DEF AgesOK, FileOK
    <3>4. NotYounger(p, m, n)'
      BY <1>2, <3>3 DEF NotYounger, Cycle
    <3>5. QED
      BY <3>1, <3>4
  <2>4. QED
    BY <1>3, <2>1, <2>2, <2>3 DEF ReportedOK
<1>7. KnownOK'
  <2>1. \A k \in Keys : Known(k, stateFile.rows[k])'
    BY <1>2, <1>4, FileKnown
  <2>2. QED
    BY <1>2, <2>1 DEF KnownOK, Cycle
<1>8. QED
  BY <1>5, <1>6, <1>7 DEF MonitorInv

(* A copy that fails loses its report and leaves rows of the cycle.          *)
LEMMA Loses ==
  ASSUME NoteLoss
  PROVE  /\ UNCHANGED <<told, repeated>> /\ accounted \subseteq accounted'
         /\ Reporting => \A c \in findInteresting : <<c[1], c[3]>> \in accounted'
BY DEF NoteLoss, Account

LEMMA CopyLost == ASSUME MonitorInv, CopyFails PROVE MonitorInv'
<1>1. TypesOK /\ AgesOK /\ ReportedOK /\ KnownOK /\ FileOK
  BY DEF MonitorInv
<1>2. /\ main = "copy" /\ attempts' = attempts + 1
      /\ main' = "after" \/ (main' = "write" /\ attempts' < MaxWriteRetries)
      /\ NoteLoss /\ UNCHANGED <<site, stateFile, handler, previous, results, hadState, forceBaseline>>
  BY DEF CopyFails, Retries, signalVars, envVars
<1>3. /\ UNCHANGED <<told, repeated>> /\ accounted \subseteq accounted'
      /\ Reporting => \A c \in findInteresting : <<c[1], c[3]>> \in accounted'
  BY <1>2, Loses
<1>4. TypesOK'
  <2>1. attempts \in 0..MaxWriteRetries /\ attempts < MaxWriteRetries /\ MaxWriteRetries \in Nat
    BY <1>1, <1>2, MonitorAssumption DEF TypesOK
  <2>2. attempts' \in 0..MaxWriteRetries
    BY <1>2, <2>1
  <2>3. QED
    BY <1>1, <1>2, <2>2 DEF TypesOK, MonitorPlaces, Cycle
<1>5. AgesOK' /\ FileOK' /\ ReportedOK'
  <2>1. AgesOK' /\ FileOK'
    BY <1>1, <1>2 DEF AgesOK, FileOK, Cycle
  <2>2. \A p \in Paths, m \in AllMethods, n \in Versions : NotYounger(p, m, n) => NotYounger(p, m, n)'
    BY <1>2 DEF NotYounger, Cycle
  <2>3. QED
    BY <1>1, <1>3, <2>1, <2>2, ToldStays
<1>6. KnownOK'
  <2>1. \A k \in Keys : Known(k, stateFile.rows[k])'
    BY <1>2, <1>3, FileKnown
  <2>2. \A p \in Paths : previous'[p] = NoRow \/ <<p, previous'[p]>> \in accounted'
    BY <1>1, <1>2, <1>3 DEF KnownOK, Cycle
  <2>3. QED
    BY <1>2, <2>1, <2>2 DEF KnownOK
<1>7. QED
  BY <1>4, <1>5, <1>6 DEF MonitorInv

-----------------------------------------------------------------------------
(* The target moves on; an answer is never an older one again.               *)
LEMMA SiteMoves == ASSUME MonitorInv, SiteChanges PROVE MonitorInv'
<1>1. TypesOK /\ AgesOK /\ ReportedOK /\ KnownOK /\ FileOK
  BY DEF MonitorInv
<1>2. PICK j \in Keys : site[j] < MaxVersion /\ site' = [site EXCEPT ![j] = @ + 1]
  BY DEF SiteChanges
<1>3. UNCHANGED <<main, handler, stateFile, previous, results, hadState, forceBaseline, attempts, told,
                  repeated, accounted>>
  BY DEF SiteChanges, signalVars, cycleVars, envVars, reportVars
<1>4. site' \in Rows /\ \A k \in Keys : site[k] \in Nat /\ site'[k] \in Nat /\ site[k] <= site'[k]
  <2>1. site \in [Keys -> 0..MaxVersion] /\ MaxVersion \in Nat
    BY <1>1, MonitorAssumption DEF TypesOK, Rows, Versions
  <2>2. site[j] + 1 \in 0..MaxVersion
    BY <1>2, <2>1
  <2>3. QED
    BY <1>2, <2>1, <2>2 DEF Rows, Versions
<1>5. TypesOK'
  BY <1>1, <1>3, <1>4 DEF TypesOK
<1>6. AgesOK'
  <2>1. \A k \in Keys : results[k] \in Nat /\ stateFile.rows[k] \in Nat
    BY <1>1, RowTypes
  <2>2. \A k \in Keys : stateFile.rows[k] <= site'[k] /\ results[k] <= site'[k]
    BY <1>1, <1>4, <2>1 DEF AgesOK
  <2>3. ASSUME main \in Cycle, NEW p \in Paths, NEW m \in AllMethods,
               previous[p] # NoRow, previous[p].method = m
        PROVE  previous[p].version <= site'[<<p, m>>]
    <3>1. previous[p].version <= site[<<p, m>>] /\ previous[p].version \in Nat /\ <<p, m>> \in Keys
      BY <1>1, <2>3, KeyParts, HitParts DEF AgesOK, TypesOK
    <3>2. QED
      BY <1>4, <3>1
  <2>4. QED
    BY <1>1, <1>3, <2>2, <2>3 DEF AgesOK
<1>7. FileOK' /\ KnownOK'
  BY <1>1, <1>3 DEF FileOK, KnownOK, Known, Reporting, findInteresting, Compared
<1>8. ReportedOK'
  <2> SUFFICES ASSUME NEW p \in Paths, NEW m \in AllMethods, NEW n \in Versions, NotYounger(p, m, n)
               PROVE  NotYounger(p, m, n)'
    BY <1>1, <1>3, ToldStays
  <2>1. n \in Nat /\ <<p, m>> \in Keys
    BY VersionsNat, KeyParts
  <2>2. QED
    BY <1>3, <1>4, <2>1 DEF NotYounger
<1>9. QED
  BY <1>5, <1>6, <1>7, <1>8 DEF MonitorInv

(* A crash leaves the file; the report it costs is accounted for.            *)
LEMMA Crashes == ASSUME MonitorInv, Crash PROVE MonitorInv'
<1>1. /\ main' = "top" /\ handler' = "wait" /\ forceBaseline' \in BOOLEAN /\ CycleOver
      /\ UNCHANGED <<site, stateFile>>
  BY DEF Crash
<1>2. CASE main \in {"copy", "notify"}
  <2>1. NoteLoss
    BY <1>2 DEF Crash
  <2>2. \A k \in Keys : Known(k, stateFile.rows[k])'
    BY <1>1, <1>2, <2>1, Loses, FileKnown
  <2>3. QED
    BY <1>1, <2>1, <2>2, Loses, CycleEnds
<1>3. CASE main \notin {"copy", "notify"}
  <2>1. UNCHANGED <<told, repeated, accounted>>
    BY <1>3 DEF Crash, reportVars
  <2>2. \A k \in Keys : Known(k, stateFile.rows[k])'
    BY <1>1, <1>3, <2>1 DEF MonitorInv, KnownOK, Known
  <2>3. QED
    BY <1>1, <2>1, <2>2, CycleEnds
<1>4. QED
  BY <1>2, <1>3

-----------------------------------------------------------------------------
LEMMA MonitorInvStep == MonitorInv /\ [MonitorNext]_monitorVars => MonitorInv'
<1> SUFFICES ASSUME MonitorInv, [MonitorNext]_monitorVars PROVE MonitorInv'
  OBVIOUS
<1>1. CASE \/ LoopTop \/ Enlist \/ collectScanCycleResults \/ Delist \/ WriteFails
           \/ Sleep \/ SignalHandler \/ Signal \/ UNCHANGED monitorVars
  BY <1>1, QuietSteps
<1>2. CASE LoadState
  BY <1>2, Loads
<1>3. CASE \E p \in Paths, m \in AllMethods : ScanPath(p, m)
  BY <1>3, HitIsRead
<1>4. CASE RenameState \/ CopyBegins \/ CopyEnds
  BY <1>4, Writes
<1>5. CASE CopyFails
  BY <1>5, CopyLost
<1>6. CASE Notify
  BY <1>6, Reports
<1>7. CASE AfterCycle
  BY <1>7, AfterEnds
<1>8. CASE SiteChanges
  BY <1>8, SiteMoves
<1>9. CASE Crash
  BY <1>9, Crashes
<1>10. QED
  BY <1>1, <1>2, <1>3, <1>4, <1>5, <1>6, <1>7, <1>8, <1>9 DEF MonitorNext, Main

LEMMA MonitorInvImpliesSound == MonitorInv => MonitorSound
<1> SUFFICES ASSUME MonitorInv PROVE MonitorSound
  OBVIOUS
<1>1. MonitorTypeOK
  BY DEF MonitorInv, TypesOK, Rows, MonitorTypeOK
<1>2. MonitorReportsOnce
  BY DEF MonitorInv, ReportedOK, MonitorReportsOnce
<1>3. MonitorNothingSlips
  <2> SUFFICES ASSUME NEW p \in Paths, NEW m \in AllMethods, stateFile.rows[<<p, m>>] # 0,
                      main \notin {"copy", "notify"}
               PROVE  <<p, Row(m, stateFile.rows[<<p, m>>])>> \in accounted
    BY DEF MonitorNothingSlips
  <2>1. <<p, m>> \in Keys /\ <<p, m>>[1] = p /\ <<p, m>>[2] = m
    BY KeyParts
  <2>2. Known(<<p, m>>, stateFile.rows[<<p, m>>])
    BY <2>1 DEF MonitorInv, KnownOK
  <2>3. QED
    BY <2>1, <2>2 DEF Known
<1>4. QED
  BY <1>1, <1>2, <1>3 DEF MonitorSound

(* The inductive invariant of the monitor's loop, handler and state file,    *)
(* cmd/monitor/main.go.                                                      *)
THEOREM MonitorInvariant == MonitorSafety => []MonitorInv
BY MonitorInvInit, MonitorInvStep, PTL DEF MonitorSafety

(* runScanCycle writes the baseline before it reports: a change of what a    *)
(* path answers to a method goes out in one message at most, whatever the    *)
(* METHOD list, and a row that no message described entered the file as a    *)
(* baseline, within the tolerance of the row it replaced, or in a cycle      *)
(* whose report a crash, a failed copy or a refused message cost             *)
(* (cmd/monitor/main.go).                                                    *)
THEOREM MonitorIsSound == MonitorSafety => []MonitorSound
BY MonitorInvariant, MonitorInvImpliesSound, PTL

-----------------------------------------------------------------------------
(* The scope check.                                                          *)
ScopeSafety == ScopeInit /\ [][ScopeNext]_scopeVars

Assets == UNION {c.assets : c \in Contents}

(* What the call read was on disk meanwhile, and a malformed file is still   *)
(* before it.                                                                *)
ScopeInv ==
    /\ ScopeTypeOK /\ ScopeAgrees
    /\ unread \subseteq DOMAIN Files
    /\ check # "idle" => loaded \subseteq onDisk /\ Disk(dir) \subseteq onDisk
    /\ edits = 0 /\ check = "reading" =>
           \A i \in DOMAIN Files : dir[Files[i]].state = "malformed" => i \in unread
    /\ edits = 0 /\ check = "allowed" =>
           \A i \in DOMAIN Files : dir[Files[i]].state # "malformed"

LEMMA ScopeConstants ==
  /\ Targets # {} /\ MaxEdits \in Nat /\ \A i \in DOMAIN Files : Files[i] \in Range(Files)
  /\ \A f \in Range(Files) : \E i \in DOMAIN Files : Files[i] = f
  /\ \A t \in Targets : t.host \in Seq(Labels)
  /\ \A a \in Assets : a.host \in Seq(Labels)
BY ScopeAssumption DEF Assets, Range

(* The comparison of suffixes the wildcards stand on.                        *)
LEMMA SuffixOf ==
  ASSUME NEW s \in Seq(Labels), NEW t \in Seq(Labels)
  PROVE  IsSuffix(s, t) <=> /\ Len(s) <= Len(t)
                            /\ \A j \in 1..Len(s) : t[Len(t) - Len(s) + j] = s[j]
<1> DEFINE m == Len(s)
           n == Len(t)
<1>1. m \in Nat /\ n \in Nat
  OBVIOUS
<1>2. /\ Reverse(s) = [i \in 1..m |-> s[(m - i) + 1]]
      /\ Reverse(t) = [i \in 1..n |-> t[(n - i) + 1]]
  BY DEF Reverse
<1>3. /\ \A i \in 1..m : (m - i) + 1 \in 1..m
      /\ \A i \in 1..n : (n - i) + 1 \in 1..n
  BY <1>1
<1>4. Reverse(s) \in Seq(Labels) /\ Len(Reverse(s)) = m
  <2>1. \A i \in 1..m : s[(m - i) + 1] \in Labels
    BY <1>3
  <2> HIDE DEF m
  <2>2. Reverse(s) \in [1..m -> Labels]
    BY <1>2, <2>1
  <2>3. QED
    BY <1>1, <2>2
<1>5. Reverse(t) \in Seq(Labels) /\ Len(Reverse(t)) = n
  <2>1. \A i \in 1..n : t[(n - i) + 1] \in Labels
    BY <1>3
  <2> HIDE DEF n
  <2>2. Reverse(t) \in [1..n -> Labels]
    BY <1>2, <2>1
  <2>3. QED
    BY <1>1, <2>2
<1> HIDE DEF m, n
<1>6. CASE m <= n
  <2>1. SubSeq(Reverse(s), 1, m) = [i \in 1..m |-> Reverse(s)[i]]
    BY <1>1, <1>4
  <2>2. SubSeq(Reverse(t), 1, m) = [i \in 1..m |-> Reverse(t)[i]]
    BY <1>1, <1>5, <1>6
  <2>3. IsSuffix(s, t) <=> \A i \in 1..m : Reverse(s)[i] = Reverse(t)[i]
    BY <1>4, <1>5, <1>6, <2>1, <2>2 DEF IsSuffix, IsPrefix
  <2>4. \A i \in 1..m : i \in 1..n
    BY <1>1, <1>6
  <2>5. IsSuffix(s, t) <=> \A i \in 1..m : s[(m - i) + 1] = t[(n - i) + 1]
    <3>1. \A i \in 1..m : Reverse(s)[i] = s[(m - i) + 1]
      BY <1>2
    <3>2. \A i \in 1..m : Reverse(t)[i] = t[(n - i) + 1]
      BY <1>2, <2>4
    <3>3. QED
      BY <2>3, <3>1, <3>2
  <2>6. ASSUME \A i \in 1..m : s[(m - i) + 1] = t[(n - i) + 1], NEW j \in 1..m
        PROVE  t[n - m + j] = s[j]
    <3>1. (m - j) + 1 \in 1..m /\ (m - ((m - j) + 1)) + 1 = j /\ (n - ((m - j) + 1)) + 1 = n - m + j
      BY <1>1
    <3>2. s[(m - ((m - j) + 1)) + 1] = t[(n - ((m - j) + 1)) + 1]
      BY <2>6, <3>1
    <3>3. QED
      BY <3>1, <3>2
  <2>7. ASSUME \A j \in 1..m : t[n - m + j] = s[j], NEW i \in 1..m
        PROVE  s[(m - i) + 1] = t[(n - i) + 1]
    <3>1. (m - i) + 1 \in 1..m /\ n - m + ((m - i) + 1) = (n - i) + 1
      BY <1>1
    <3>2. t[n - m + ((m - i) + 1)] = s[(m - i) + 1]
      BY <2>7, <3>1
    <3>3. QED
      BY <3>1, <3>2
  <2>8. QED
    BY <1>6, <2>5, <2>6, <2>7 DEF m, n
<1>7. CASE ~(m <= n)
  BY <1>4, <1>5, <1>7 DEF IsSuffix, IsPrefix, m, n
<1>8. QED
  BY <1>6, <1>7

(* A wildcard matches when the host ends in its base and has a label more.   *)
LEMMA WildcardMeaning ==
  ASSUME NEW e, e.host \in Seq(Labels), NEW h \in Seq(Labels)
  PROVE  (/\ h # <<>> /\ Tail(h) # <<>> /\ Len(e.host) > Len(Tail(h)) /\ IsSuffix(Tail(h), e.host))
         <=> (/\ Len(h) > 1
              /\ \E k \in 1..(Len(e.host) - 1) : SubSeq(e.host, k + 1, Len(e.host)) = Tail(h))
<1> DEFINE g == e.host
           n == Len(g)
           base == Tail(h)
           m == Len(base)
<1>1. g \in Seq(Labels) /\ n \in Nat /\ Len(h) \in Nat
  OBVIOUS
<1>2. (h = <<>>) <=> Len(h) = 0
  BY EmptySeq
<1>3. ASSUME h # <<>> PROVE base \in Seq(Labels) /\ m = Len(h) - 1
  BY <1>3, HeadTailProperties
<1>4. ASSUME h # <<>> PROVE (base # <<>>) <=> Len(h) > 1
  <2>1. (base = <<>>) <=> m = 0
    BY <1>3, <1>4, EmptySeq
  <2>2. m = Len(h) - 1 /\ Len(h) # 0 /\ Len(h) \in Nat
    BY <1>2, <1>3, <1>4
  <2>3. \A l \in Nat : l # 0 => ((l - 1 = 0) <=> ~(l > 1))
    OBVIOUS
  <2> HIDE DEF base, m, g, n
  <2>4. (m = 0) <=> ~(Len(h) > 1)
    BY ONLY <2>2, <2>3
  <2>5. QED
    BY <2>1, <2>4
<1> HIDE DEF base
<1>5. ASSUME h # <<>>, Len(h) > 1
      PROVE  (n > m /\ IsSuffix(base, g)) <=> \E k \in 1..(n - 1) : SubSeq(g, k + 1, n) = base
  <2>1. base \in Seq(Labels) /\ m \in Nat /\ m >= 1
    BY <1>1, <1>3, <1>5
  <2>2. \A k \in 1..(n - 1) : /\ SubSeq(g, k + 1, n) \in Seq(Labels)
                             /\ Len(SubSeq(g, k + 1, n)) = n - k
                             /\ \A j \in 1..(n - k) : SubSeq(g, k + 1, n)[j] = g[k + j]
    <3> SUFFICES ASSUME NEW k \in 1..(n - 1)
                 PROVE  /\ SubSeq(g, k + 1, n) \in Seq(Labels)
                        /\ Len(SubSeq(g, k + 1, n)) = n - k
                        /\ \A j \in 1..(n - k) : SubSeq(g, k + 1, n)[j] = g[k + j]
      OBVIOUS
    <3> HIDE DEF g
    <3>1. k + 1 \in 1..n /\ n \in 1..n /\ n - (k + 1) + 1 = n - k
      BY <1>1
    <3>2. \A j \in 1..(n - k) : (k + 1) + j - 1 = k + j
      BY <1>1
    <3>3. QED
      BY <1>1, <3>1, <3>2
  <2>3. IsSuffix(base, g) <=> (m <= n /\ \A j \in 1..m : g[n - m + j] = base[j])
    BY <1>1, <2>1, SuffixOf
  <2> HIDE DEF g, n, m
  <2>4. ASSUME n > m, IsSuffix(base, g) PROVE \E k \in 1..(n - 1) : SubSeq(g, k + 1, n) = base
    <3>1. n - m \in 1..(n - 1) /\ n - (n - m) = m
      BY <1>1, <2>1, <2>4
    <3>2. /\ SubSeq(g, (n - m) + 1, n) \in Seq(Labels) /\ Len(SubSeq(g, (n - m) + 1, n)) = m
          /\ \A j \in 1..m : SubSeq(g, (n - m) + 1, n)[j] = base[j]
      BY <2>2, <2>3, <2>4, <3>1
    <3>3. SubSeq(g, (n - m) + 1, n) = base
      BY <2>1, <3>2, SeqEqual DEF m
    <3>4. QED
      BY <3>1, <3>3
  <2>5. ASSUME NEW k \in 1..(n - 1), SubSeq(g, k + 1, n) = base PROVE n > m /\ IsSuffix(base, g)
    <3>1. m = n - k
      BY <2>2, <2>5 DEF m
    <3>2. n > m /\ m <= n /\ n - m = k
      BY <1>1, <3>1
    <3>3. \A j \in 1..m : g[n - m + j] = base[j]
      BY <2>2, <2>5, <3>1, <3>2
    <3>4. QED
      BY <2>3, <3>2, <3>3
  <2>6. QED
    BY <2>4, <2>5
<1>6. QED
  <2>1. CASE h = <<>>
    BY <1>2, <2>1
  <2>2. CASE h # <<>>
    BY <1>4, <1>5, <2>2 DEF base
  <2>3. QED
    BY <2>1, <2>2

LEMMA EndpointShape ==
  ASSUME NEW x, x.host \in Seq(Labels), NEW scheme
  PROVE  /\ WithDefault(x, scheme).host \in Seq(Labels)
         /\ WithDefault(x, scheme) = [host |-> WithDefault(x, scheme).host,
                                      port |-> WithDefault(x, scheme).port]
<1>1. CASE scheme = "other"
  BY <1>1 DEF WithDefault, NoEndpoint
<1>2. CASE scheme # "other"
  BY <1>2 DEF WithDefault
<1>3. QED
  BY <1>1, <1>2

(* The lookup tables with their fallback keys mean what the assets mean one  *)
(* at a time.                                                                *)
LEMMA TablesAgree ==
  ASSUME NEW t \in Targets, NEW A \in SUBSET Assets
  PROVE  IsAllowed(t, A) <=> \E a \in A : Covers(a, t)
<1> DEFINE e == extractTargetEndpoint(t)
           id(a) == extractAssetEndpoint(a)
           samePort(a) == id(a).port = Unset \/ id(a).port = e.port
           bare == [e EXCEPT !.port = Unset]
<1>1. e.host \in Seq(Labels) /\ e = [host |-> e.host, port |-> e.port]
  BY ScopeConstants, EndpointShape DEF extractTargetEndpoint
<1>2. \A a \in A : id(a).host \in Seq(Labels) /\ id(a) = [host |-> id(a).host, port |-> id(a).port]
  BY ScopeConstants, EndpointShape DEF extractAssetEndpoint
<1>3. bare = [host |-> e.host, port |-> Unset]
  BY <1>1
<1>4. IsAllowed(t, A) <=> /\ e.host # <<>> /\ A # {}
                          /\ \/ e \in exactURLs(A) \/ bare \in exactURLs(A)
                             \/ \E a \in Of(A, "cidr") : Len(e.host) = 1 /\ e.host[1] \in a.block
                             \/ \E a \in Of(A, "wildcard") : matchWildcard(e, a)
  BY DEF IsAllowed
<1>5. ASSUME NEW a \in A
      PROVE  Covers(a, t) <=>
                 /\ a.eligible /\ e.host # <<>>
                 /\ \/ a.type = "url" /\ id(a).host = e.host /\ samePort(a)
                    \/ a.type = "cidr" /\ Len(e.host) = 1 /\ e.host[1] \in a.block
                    \/ /\ a.type = "wildcard" /\ samePort(a) /\ Len(id(a).host) > 1
                       /\ id(a).host[1] = "*"
                       /\ \E k \in 1..(Len(e.host) - 1) :
                              SubSeq(e.host, k + 1, Len(e.host)) = Tail(id(a).host)
  <2>1. CASE a.type = "url"
    BY <2>1 DEF Covers
  <2>2. CASE a.type = "cidr"
    BY <2>2 DEF Covers
  <2>3. CASE a.type = "wildcard"
    BY <2>3 DEF Covers
  <2>4. CASE a.type \notin {"url", "cidr", "wildcard"}
    BY <2>4 DEF Covers
  <2>5. QED
    BY <2>1, <2>2, <2>3, <2>4
<1>6. ASSUME NEW a \in A
      PROVE  matchWildcard(e, a) <=>
                 /\ samePort(a) /\ Len(id(a).host) > 1 /\ id(a).host[1] = "*"
                 /\ \E k \in 1..(Len(e.host) - 1) :
                        SubSeq(e.host, k + 1, Len(e.host)) = Tail(id(a).host)
  <2>1. matchWildcard(e, a) <=>
           /\ id(a).host # <<>> /\ Head(id(a).host) = "*" /\ Tail(id(a).host) # <<>>
           /\ Len(e.host) > Len(Tail(id(a).host)) /\ IsSuffix(Tail(id(a).host), e.host) /\ samePort(a)
    BY DEF matchWildcard
  <2>2. Head(id(a).host) = id(a).host[1]
    BY <1>2
  <2> HIDE DEF e, id, samePort
  <2>3. (/\ id(a).host # <<>> /\ Tail(id(a).host) # <<>> /\ Len(e.host) > Len(Tail(id(a).host))
         /\ IsSuffix(Tail(id(a).host), e.host))
        <=> (/\ Len(id(a).host) > 1
             /\ \E k \in 1..(Len(e.host) - 1) :
                    SubSeq(e.host, k + 1, Len(e.host)) = Tail(id(a).host))
    BY <1>1, <1>2, WildcardMeaning
  <2>4. QED
    BY <2>1, <2>2, <2>3
<1>7. ASSUME e.host # <<>>
      PROVE  (e \in exactURLs(A) \/ bare \in exactURLs(A)) <=>
                 \E a \in A : a.eligible /\ a.type = "url" /\ id(a).host = e.host /\ samePort(a)
  <2>1. \A x : x \in exactURLs(A) <=>
                   x.host # <<>> /\ \E a \in A : a.eligible /\ a.type = "url" /\ id(a) = x
    BY DEF exactURLs, Of
  <2> HIDE DEF e, id
  <2>2. \A a \in A : (id(a) = e \/ id(a) = bare) <=> (id(a).host = e.host /\ samePort(a))
    BY <1>1, <1>2, <1>3
  <2>3. bare.host = e.host
    BY <1>3
  <2> HIDE DEF bare, samePort
  <2>4. QED
    BY <1>7, <2>1, <2>2, <2>3
<1>8. \A a, type : a \in Of(A, type) <=> a \in A /\ a.eligible /\ a.type = type
  BY DEF Of
<1> HIDE DEF e, id, samePort, bare
<1>9. QED
  BY <1>4, <1>5, <1>6, <1>7, <1>8

LEMMA CoversMonotone == \A A, B : A \subseteq B =>
  ((\E a \in A : Covers(a, asked)) => \E a \in B : Covers(a, asked))
OBVIOUS

LEMMA DiskInAssets ==
  \A d \in [Range(Files) -> Contents] :
      /\ Disk(d) \subseteq Assets
      /\ \A i \in DOMAIN Files : d[Files[i]] \in Contents /\ d[Files[i]].assets \subseteq Disk(d)
BY ScopeConstants DEF Disk, Assets

LEMMA ScopeInvInit == ScopeInit => ScopeInv
<1> SUFFICES ASSUME ScopeInit PROVE ScopeInv
  OBVIOUS
<1>1. asked \in Targets
  BY ScopeConstants DEF ScopeInit
<1>2. QED
  BY <1>1, ScopeConstants DEF ScopeInit, ScopeInv, ScopeTypeOK, ScopeAgrees

(* A file written anew adds what it holds to what was on disk.               *)
LEMMA EditKeeps == ASSUME ScopeInv, EditScope PROVE ScopeInv'
<1>1. PICK f \in Range(Files), c \in Contents : dir' = [dir EXCEPT ![f] = c]
  BY DEF EditScope
<1>2. /\ edits < MaxEdits /\ edits' = edits + 1 /\ onDisk' = onDisk \union Disk(dir')
      /\ UNCHANGED <<asked, unread, loaded, check>>
  BY DEF EditScope
<1>3. ScopeTypeOK'
  BY <1>1, <1>2, ScopeConstants DEF ScopeInv, ScopeTypeOK
<1>4. edits' # 0
  BY <1>2, ScopeConstants DEF ScopeInv, ScopeTypeOK
<1>5. ScopeAgrees'
  BY <1>2 DEF ScopeInv, ScopeAgrees
<1>6. QED
  BY <1>2, <1>3, <1>4, <1>5 DEF ScopeInv

(* A call begins with nothing of an earlier one, and with every file that is *)
(* there before it.                                                          *)
LEMMA LoadStarts == ASSUME ScopeInv, LoadDir PROVE ScopeInv'
<1>1. /\ asked' \in Targets /\ loaded' = {} /\ check' = "reading" /\ onDisk' = Disk(dir)
      /\ unread' = {i \in DOMAIN Files : dir[Files[i]].state # "absent"}
      /\ dir' = dir /\ edits' = edits
  BY DEF LoadDir, LoadFresh
<1>2. ScopeTypeOK' /\ ScopeAgrees' /\ unread' \subseteq DOMAIN Files
  BY <1>1 DEF ScopeInv, ScopeTypeOK, ScopeAgrees
<1>3. loaded' \subseteq onDisk' /\ Disk(dir)' \subseteq onDisk'
  BY <1>1 DEF Disk
<1>4. \A i \in DOMAIN Files : dir'[Files[i]].state = "malformed" => i \in unread'
  BY <1>1
<1>5. QED
  BY <1>1, <1>2, <1>3, <1>4 DEF ScopeInv

(* A file that is read gives what is on disk, or ends the call.              *)
LEMMA ReadKeeps == ASSUME ScopeInv, ReadFile PROVE ScopeInv'
<1>1. PICK i \in unread :
        /\ unread' = unread \ {i}
        /\ IF dir[Files[i]].state # "ok" THEN check' = "error" /\ loaded' = loaded
           ELSE loaded' = loaded \union dir[Files[i]].assets /\ check' = check
  BY DEF ReadFile, RefuseMalformed
<1>2. check = "reading" /\ UNCHANGED <<dir, edits, asked, onDisk>>
  BY DEF ReadFile
<1>3. i \in DOMAIN Files /\ dir \in [Range(Files) -> Contents]
  BY <1>1 DEF ScopeInv, ScopeTypeOK
<1>4. dir[Files[i]].assets \subseteq Disk(dir) /\ Disk(dir) \subseteq Assets
  BY <1>3, DiskInAssets
<1>5. loaded \subseteq onDisk /\ Disk(dir) \subseteq onDisk /\ loaded \subseteq Assets
  BY <1>2 DEF ScopeInv, ScopeTypeOK, Assets
<1>6. loaded' \subseteq onDisk /\ loaded' \subseteq Assets /\ check' \in {"reading", "error"}
  BY <1>1, <1>2, <1>4, <1>5
<1>7. ScopeTypeOK' /\ ScopeAgrees' /\ unread' \subseteq DOMAIN Files
  BY <1>1, <1>2, <1>6 DEF ScopeInv, ScopeTypeOK, ScopeAgrees, Assets
<1>8. edits = 0 /\ check' = "reading" =>
          \A k \in DOMAIN Files : dir[Files[k]].state = "malformed" => k \in unread'
  BY <1>1, <1>2 DEF ScopeInv
<1>9. Disk(dir)' = Disk(dir)
  BY <1>2 DEF Disk
<1>10. QED
  BY <1>2, <1>5, <1>6, <1>7, <1>8, <1>9 DEF ScopeInv

(* What is decided is what the assets read say.                              *)
LEMMA DecideKeeps == ASSUME ScopeInv, Decide PROVE ScopeInv'
<1>1. /\ check = "reading" /\ unread = {}
      /\ check' = IF IsAllowed(asked, loaded) THEN "allowed" ELSE "blocked"
      /\ UNCHANGED <<dir, edits, asked, unread, loaded, onDisk>>
  BY DEF Decide
<1>2. IsAllowed(asked, loaded) <=> \E a \in loaded : Covers(a, asked)
  BY TablesAgree DEF ScopeInv, ScopeTypeOK, Assets
<1>3. ScopeAgrees'
  BY <1>1, <1>2 DEF ScopeAgrees
<1>4. ScopeTypeOK'
  BY <1>1 DEF ScopeInv, ScopeTypeOK
<1>5. edits = 0 => \A i \in DOMAIN Files : dir[Files[i]].state # "malformed"
  BY <1>1 DEF ScopeInv
<1>6. Disk(dir)' = Disk(dir)
  BY <1>1 DEF Disk
<1>7. QED
  BY <1>1, <1>3, <1>4, <1>5, <1>6 DEF ScopeInv

LEMMA ScopeInvStep == ScopeInv /\ [ScopeNext]_scopeVars => ScopeInv'
<1> SUFFICES ASSUME ScopeInv, [ScopeNext]_scopeVars PROVE ScopeInv'
  OBVIOUS
<1>1. CASE UNCHANGED scopeVars
  <2>1. ScopeTypeOK' /\ ScopeAgrees' /\ Disk(dir)' = Disk(dir)
    BY <1>1 DEF scopeVars, ScopeInv, ScopeTypeOK, ScopeAgrees, Disk
  <2>2. QED
    BY <1>1, <2>1 DEF scopeVars, ScopeInv
<1>2. QED
  BY <1>1, EditKeeps, LoadStarts, ReadKeeps, DecideKeeps DEF ScopeNext

LEMMA ScopeInvImpliesSound == ScopeInv => ScopeSound
<1> SUFFICES ASSUME ScopeInv PROVE ScopeSound
  OBVIOUS
<1>1. ScopeTypeOK /\ ScopeAgrees
  BY DEF ScopeInv
<1>2. ScopeNotStale
  <2>1. check = "allowed" => loaded \subseteq onDisk /\ \E a \in loaded : Covers(a, asked)
    BY <1>1 DEF ScopeInv, ScopeAgrees
  <2>2. QED
    BY <2>1, CoversMonotone DEF ScopeNotStale
<1>3. ScopeFailsClosed
  BY ScopeConstants DEF ScopeInv, ScopeFailsClosed
<1>4. QED
  BY <1>1, <1>2, <1>3 DEF ScopeSound

(* The inductive invariant of the scope check: what a call has read was on   *)
(* disk during it, and a file that stayed malformed is still before it.      *)
THEOREM ScopeInvariant == ScopeSafety => []ScopeInv
<1>1. ScopeInv /\ [ScopeNext]_scopeVars => ScopeInv'
  BY ScopeInvStep
<1>2. QED
  BY ScopeInvInit, <1>1, PTL DEF ScopeSafety

(* The lookup tables let a call through exactly when an asset covers its     *)
(* target, the asset was on disk during the call, and no file stayed         *)
(* malformed throughout it (pkg/scope/validator.go).                         *)
THEOREM ScopeIsSound == ScopeSafety => []ScopeSound
BY ScopeInvariant, ScopeInvImpliesSound, PTL

-----------------------------------------------------------------------------
(* What surrounds a tool call.                                               *)
GateSafety == GateInit /\ [][GateNext]_gateVars

Gates == Outcomes \union {"new", "stamped", "handling", "over"}
Replied(outcome) ==
    CASE outcome = "ok" -> "result" [] outcome = "handler_error" -> "failure" [] OTHER -> "error"

GateTypes ==
    /\ clock \in 0..MaxClock /\ gate \in [Calls -> Gates] /\ stamp \in [Calls -> 0..MaxClock]
    /\ kept \in Seq(Nat) /\ Len(kept) <= ToolLimit /\ passed \in Seq(Calls)
    /\ audited \in Seq(Calls \X Outcomes)
    /\ reply \in [Calls -> {"none", "result", "error", "failure"}]

(* The limiter keeps the stamps of the calls that passed last, which no      *)
(* longer change.                                                            *)
Dropped == Len(passed) - Len(kept)
PassedAt(i) == stamp[passed[i]]
KeptOK ==
    /\ \A i \in 1..Len(passed) : gate[passed[i]] \notin {"new", "stamped"}
    /\ Len(kept) <= Len(passed)
    /\ \A i \in 1..Len(kept) : kept[i] = PassedAt(Dropped + i)

(* In order, what was dropped is a window older than the last that passed,   *)
(* and so is the call before the last ones, as many as the limit.            *)
WindowOK ==
    InOrder(passed) =>
        /\ \A i \in 1..Dropped : PassedAt(i) + Window <= PassedAt(Len(passed))
        /\ \A i \in 1..Len(passed) : i + ToolLimit <= Len(passed) =>
               PassedAt(i) + Window <= PassedAt(i + ToolLimit)

(* A call that is over has its line, and only it.                            *)
AuditOK ==
    /\ \A i \in 1..Len(audited) : /\ gate[audited[i][1]] = "over"
                                  /\ reply[audited[i][1]] = Replied(audited[i][2])
    /\ \A i, j \in 1..Len(audited) : audited[i][1] = audited[j][1] => i = j
    /\ \A c \in Calls : gate[c] = "over" => \E i \in 1..Len(audited) : audited[i][1] = c
    /\ \A c \in Calls : gate[c] \in Outcomes => reply[c] = Replied(gate[c])

GateInv == GateTypes /\ KeptOK /\ WindowOK /\ AuditOK

LEMMA GateConstants == ToolLimit \in Nat /\ ToolLimit > 0 /\ Window \in Nat /\ Window > 0
                       /\ MaxClock \in Nat
BY GateAssumption

LEMMA GateInvInit == GateInit => GateInv
<1> SUFFICES ASSUME GateInit PROVE GateInv
  OBVIOUS
<1>1. GateTypes
  BY GateConstants DEF GateInit, GateTypes, Gates
<1>2. KeptOK /\ WindowOK
  BY GateConstants DEF GateInit, KeptOK, WindowOK, Dropped
<1>3. AuditOK
  BY DEF GateInit, AuditOK, Outcomes
<1>4. QED
  BY <1>1, <1>2, <1>3 DEF GateInv

(* A call that is not over has no line of audit.                             *)
LEMMA NoLineYet ==
  ASSUME GateTypes, AuditOK, NEW c \in Calls, gate[c] # "over"
  PROVE  \A i \in 1..Len(audited) : audited[i][1] \in Calls /\ audited[i][1] # c
<1>1. \A i \in 1..Len(audited) : audited[i] \in Calls \X Outcomes
  BY DEF GateTypes
<1>2. QED
  BY <1>1 DEF AuditOK

(* What the limiter knows changes only when a call comes to it.              *)
LEMMA LimiterRests ==
  ASSUME GateTypes, KeptOK, WindowOK, UNCHANGED <<kept, passed>>,
         \A c \in Calls : gate[c] \notin {"new", "stamped"} =>
             gate'[c] \notin {"new", "stamped"} /\ stamp'[c] = stamp[c]
  PROVE  KeptOK' /\ WindowOK'
<1>1. \A i \in 1..Len(passed) : passed[i] \in Calls
  BY DEF GateTypes
<1>2. \A i \in 1..Len(passed) : stamp'[passed[i]] = stamp[passed[i]]
  BY <1>1 DEF KeptOK
<1>3. Len(kept) \in Nat /\ Len(passed) \in Nat
  BY DEF GateTypes
<1>4. \A i \in 1..Len(kept) : Dropped + i \in 1..Len(passed)
  BY <1>3 DEF KeptOK, Dropped
<1>5. KeptOK'
  BY <1>1, <1>2, <1>4 DEF KeptOK, Dropped, PassedAt
<1>6. InOrder(passed)' => InOrder(passed)
  BY <1>2 DEF InOrder
<1>7. ASSUME InOrder(passed) PROVE /\ \A i \in 1..Dropped : PassedAt(i)' + Window <= PassedAt(Len(passed))'
                                   /\ \A i \in 1..Len(passed) : i + ToolLimit <= Len(passed) =>
                                          PassedAt(i)' + Window <= PassedAt(i + ToolLimit)'
  <2>1. \A i \in 1..Len(passed) : PassedAt(i)' = PassedAt(i)
    BY <1>2 DEF PassedAt
  <2>2. \A i \in 1..Dropped : i \in 1..Len(passed) /\ Len(passed) \in 1..Len(passed)
    BY <1>3 DEF Dropped
  <2>3. \A i \in 1..Len(passed) : i + ToolLimit <= Len(passed) => i + ToolLimit \in 1..Len(passed)
    BY <1>3, GateConstants
  <2>4. \A i \in 1..Dropped : PassedAt(i)' + Window <= PassedAt(Len(passed))'
    BY <1>7, <2>1, <2>2 DEF WindowOK
  <2>5. \A i \in 1..Len(passed) : i + ToolLimit <= Len(passed) =>
           PassedAt(i)' + Window <= PassedAt(i + ToolLimit)'
    BY <1>7, <2>1, <2>3 DEF WindowOK
  <2>6. QED
    BY <2>4, <2>5
<1>8. WindowOK'
  BY <1>6, <1>7 DEF WindowOK, Dropped, PassedAt
<1>9. QED
  BY <1>5, <1>8

(* A call below the limit enters the window with its stamp.                  *)
LEMMA Passes ==
  ASSUME GateInv, NEW c \in Calls, gate[c] = "stamped", NEW k \in FirstKept(stamp[c]),
         HasRoom(SubSeq(kept, k, Len(kept))),
         kept' = Append(SubSeq(kept, k, Len(kept)), stamp[c]), passed' = Append(passed, c),
         gate' = [gate EXCEPT ![c] = "handling"], UNCHANGED <<clock, stamp, audited, reply>>
  PROVE  GateInv'
<1> DEFINE live == SubSeq(kept, k, Len(kept))
           n == Len(passed)
           m == Len(kept)
           now == stamp[c]
           After(i) == stamp'[passed'[i]]
<1>1. GateTypes /\ KeptOK /\ WindowOK /\ AuditOK
  BY DEF GateInv
<1>2. /\ kept \in Seq(Nat) /\ m \in Nat /\ m <= ToolLimit /\ passed \in Seq(Calls) /\ n \in Nat
      /\ now \in Nat /\ stamp \in [Calls -> Nat] /\ m <= n
  BY <1>1, GateConstants DEF GateTypes, KeptOK
<1>3. /\ k \in 1..(m + 1) /\ (k > 1 => ~InWindow(kept[k - 1], now))
  BY DEF FirstKept
<1>4. /\ live \in Seq(Nat) /\ Len(live) = m + 1 - k /\ \A i \in 1..Len(live) : live[i] = kept[k - 1 + i]
  <2>1. CASE k = m + 1
    BY <1>2, <1>3, <2>1
  <2>2. CASE k # m + 1
    <3>1. k \in 1..m /\ m \in 1..m
      BY <1>2, <1>3, <2>2
    <3>2. live \in Seq(Nat) /\ Len(live) = m - k + 1 /\ \A i \in 1..(m - k + 1) : live[i] = kept[k + i - 1]
      <4>1. k \in Int /\ m \in Int /\ k <= m
        BY <1>2, <3>1
      <4>2. \A i \in 1..m : kept[i] \in Nat
        <5>1. kept \in Seq(Nat)
          BY <1>2
        <5>2. QED
          BY <5>1
      <4>3. live = SubSeq(kept, k, m)
        OBVIOUS
      <4> HIDE DEF live, m
      <4>4. \A i \in k..m : kept[i] \in Nat
        BY <3>1, <4>1, <4>2
      <4>5. QED
        BY <4>1, <4>3, <4>4, SubSeqProperties
    <3>3. \A i \in 1..(m - k + 1) : k + i - 1 = k - 1 + i
      BY <1>2, <1>3
    <3> HIDE DEF live, m
    <3>4. m - k + 1 = m + 1 - k
      BY <1>2, <1>3
    <3>5. QED
      BY <3>2, <3>3, <3>4
  <2>3. QED
    BY <2>1, <2>2
<1>5. Len(live) < ToolLimit
  BY DEF HasRoom
<1> HIDE DEF live, m, now
<1>6. /\ kept' \in Seq(Nat) /\ Len(kept') = m + 2 - k /\ kept'[m + 2 - k] = now
      /\ \A i \in 1..(m + 1 - k) : kept'[i] = kept[k - 1 + i]
  <2>1. kept' = Append(live, now)
    BY DEF live, now, m
  <2>2. /\ Append(live, now) \in Seq(Nat) /\ Len(Append(live, now)) = Len(live) + 1
        /\ Append(live, now)[Len(live) + 1] = now
        /\ \A i \in 1..Len(live) : Append(live, now)[i] = live[i]
    <3>1. live \in Seq(Nat) /\ now \in Nat
      BY <1>2, <1>4
    <3>2. QED
      BY <3>1, AppendProperties
  <2>3. Len(live) + 1 = m + 2 - k
    BY <1>2, <1>3, <1>4
  <2>4. QED
    BY <1>4, <2>1, <2>2, <2>3
<1>7. /\ passed' \in Seq(Calls) /\ Len(passed') = n + 1 /\ passed'[n + 1] = c
      /\ \A i \in 1..n : passed'[i] = passed[i]
  BY <1>2
<1> HIDE DEF n
<1>8. GateTypes'
  <2>1. "handling" \in Gates
    BY DEF Gates
  <2>2. gate' \in [Calls -> Gates]
    BY <1>1, <2>1 DEF GateTypes
  <2>3. Len(kept') <= ToolLimit
    BY <1>2, <1>3, <1>4, <1>5, <1>6, GateConstants
  <2>4. QED
    BY <1>1, <1>6, <1>7, <2>2, <2>3 DEF GateTypes
<1>9. /\ \A i \in 1..n : After(i) = PassedAt(i) /\ PassedAt(i) \in Nat
      /\ After(n + 1) = now
  <2>1. \A i \in 1..n : passed[i] \in Calls
    BY <1>2 DEF n
  <2>2. \A i \in 1..n : PassedAt(i) \in Nat /\ After(i) = PassedAt(i)
    BY <1>2, <1>7, <2>1 DEF PassedAt
  <2>3. After(n + 1) = now
    BY <1>7 DEF now
  <2>4. QED
    BY <2>2, <2>3
<1>10. Dropped = n - m /\ Dropped' = n + k - 1 - m
  <2>1. Dropped = n - m
    BY DEF Dropped, n, m
  <2>2. Dropped' = Len(passed') - Len(kept')
    BY DEF Dropped
  <2>3. Dropped' = (n + 1) - (m + 2 - k)
    BY <1>6, <1>7, <2>2
  <2>4. QED
    BY <1>2, <1>3, <2>1, <2>3
<1>11. KeptOK'
  <2>1. ASSUME NEW i \in 1..Len(passed') PROVE gate'[passed'[i]] \notin {"new", "stamped"}
    <3>1. CASE i = n + 1
      BY <1>1, <1>7, <3>1 DEF GateTypes
    <3>2. CASE i # n + 1
      <4>1. i \in 1..n /\ passed'[i] = passed[i] /\ passed[i] \in Calls
        <5>1. n \in Nat /\ Len(passed') = n + 1
          BY <1>2, <1>7
        <5>2. i \in 1..n
          BY <3>2, <5>1
        <5>3. passed[i] \in Calls
          BY <1>2, <5>2 DEF n
        <5>4. QED
          BY <1>7, <5>2, <5>3
      <4>2. gate[passed[i]] \notin {"new", "stamped"}
        BY <1>1, <4>1 DEF KeptOK, n
      <4>3. QED
        BY <1>1, <4>1, <4>2 DEF GateTypes
    <3>3. QED
      BY <3>1, <3>2
  <2>2. Len(kept') <= Len(passed')
    BY <1>2, <1>3, <1>6, <1>7
  <2>3. ASSUME NEW i \in 1..Len(kept') PROVE kept'[i] = After(Dropped' + i)
    <3>1. CASE i = m + 2 - k
      <4>1. Dropped' + i = n + 1
        BY <1>2, <1>3, <1>10, <3>1
      <4>2. After(Dropped' + i) = now
        BY <1>9, <4>1
      <4>3. QED
        BY <1>6, <3>1, <4>2
    <3>2. CASE i # m + 2 - k
      <4>1. i \in 1..(m + 1 - k) /\ k - 1 + i \in 1..m /\ Dropped' + i = Dropped + (k - 1 + i)
            /\ Dropped' + i \in 1..n
        BY <1>2, <1>3, <1>6, <1>10, <3>2
      <4>2. kept[k - 1 + i] = PassedAt(Dropped + (k - 1 + i))
        BY <1>1, <4>1 DEF KeptOK, m
      <4>3. QED
        BY <1>6, <1>9, <4>1, <4>2
    <3>3. QED
      BY <3>1, <3>2
  <2>4. QED
    BY <2>1, <2>2, <2>3 DEF KeptOK, PassedAt
<1>12. WindowOK'
  <2> SUFFICES ASSUME InOrder(passed)'
               PROVE  /\ \A i \in 1..Dropped' : After(i) + Window <= After(n + 1)
                      /\ \A i \in 1..(n + 1) : i + ToolLimit <= n + 1 =>
                             After(i) + Window <= After(i + ToolLimit)
    BY <1>7 DEF WindowOK, PassedAt
  <2>1. \A i, j \in 1..(n + 1) : i < j => After(i) <= After(j)
    BY <1>7 DEF InOrder, PassedAt
  <2>2. /\ \A i, j \in 1..n : i < j => PassedAt(i) <= PassedAt(j)
        /\ \A i \in 1..n : PassedAt(i) <= now
    <3>1. \A i \in 1..n : i \in 1..(n + 1) /\ n + 1 \in 1..(n + 1) /\ i < n + 1
      BY <1>2
    <3>2. \A i, j \in 1..n : i < j => After(i) <= After(j)
      BY <2>1, <3>1
    <3>3. \A i \in 1..n : After(i) <= After(n + 1)
      BY <2>1, <3>1
    <3> HIDE DEF After
    <3>4. QED
      BY <1>9, <3>2, <3>3
  <2>3. InOrder(passed)
    BY <2>2 DEF InOrder, PassedAt, n
  <2>4. /\ \A i \in 1..Dropped : PassedAt(i) + Window <= PassedAt(n)
        /\ \A i \in 1..n : i + ToolLimit <= n => PassedAt(i) + Window <= PassedAt(i + ToolLimit)
    BY <1>1, <2>3 DEF WindowOK, n
  <2>5. \A i \in 1..Dropped' : i \in 1..n /\ PassedAt(i) + Window <= now
    <3> SUFFICES ASSUME NEW i \in 1..Dropped' PROVE i \in 1..n /\ PassedAt(i) + Window <= now
      OBVIOUS
    <3>1. i \in 1..n
      BY <1>2, <1>3, <1>10
    <3>2. CASE i <= Dropped
      <4>1. i \in 1..Dropped /\ n \in 1..n
        BY <1>2, <1>10, <3>1, <3>2
      <4>2. PassedAt(i) + Window <= PassedAt(n) /\ PassedAt(n) <= now
        BY <2>2, <2>4, <4>1
      <4>3. QED
        BY <1>2, <1>9, <3>1, <4>1, <4>2, GateConstants
    <3>3. CASE i > Dropped
      <4>1. k > 1 /\ k - 1 \in 1..m /\ Dropped + (k - 1) \in 1..n /\ i <= Dropped + (k - 1)
        BY <1>2, <1>3, <1>10, <3>1, <3>3
      <4>2. kept[k - 1] = PassedAt(Dropped + (k - 1))
        BY <1>1, <4>1 DEF KeptOK, m
      <4>3. PassedAt(Dropped + (k - 1)) + Window <= now
        BY <1>2, <1>3, <1>9, <4>1, <4>2, GateConstants DEF InWindow
      <4>4. PassedAt(i) <= PassedAt(Dropped + (k - 1))
        BY <1>2, <1>9, <1>10, <2>2, <3>1, <4>1
      <4>5. QED
        BY <1>2, <1>9, <3>1, <4>1, <4>3, <4>4, GateConstants, SMTT(30)
    <3>4. QED
      BY <1>2, <1>10, <3>1, <3>2, <3>3
  <2>6. \A i \in 1..Dropped' : After(i) + Window <= After(n + 1)
    BY <1>9, <2>5
  <2>7. ASSUME NEW i \in 1..(n + 1), i + ToolLimit <= n + 1
        PROVE  After(i) + Window <= After(i + ToolLimit)
    <3>1. i \in 1..n /\ i + ToolLimit \in 1..(n + 1)
      BY <1>2, <2>7, GateConstants
    <3>2. CASE i + ToolLimit = n + 1
      <4>1. m + 1 - k < ToolLimit
        BY <1>4, <1>5
      <4>2. i <= n + k - 1 - m
        BY <1>2, <1>3, <3>1, <3>2, <4>1, GateConstants
      <4>3. i \in 1..Dropped'
        BY <1>2, <1>3, <1>10, <3>1, <4>2
      <4>4. QED
        BY <2>6, <3>2, <4>3
    <3>3. CASE i + ToolLimit # n + 1
      <4>1. i + ToolLimit \in 1..n /\ i + ToolLimit <= n
        BY <1>2, <3>1, <3>3, GateConstants
      <4>2. QED
        BY <1>9, <2>4, <3>1, <4>1
    <3>4. QED
      BY <3>2, <3>3
  <2>8. QED
    BY <2>6, <2>7
<1>13. AuditOK'
  <2>1. \A i \in 1..Len(audited) : audited[i][1] \in Calls /\ audited[i][1] # c
    BY <1>1, NoLineYet
  <2>2. \A d \in Calls : d # c => gate'[d] = gate[d]
    OBVIOUS
  <2>3. gate'[c] = "handling"
    BY <1>1 DEF GateTypes
  <2>4. QED
    BY <1>1, <2>1, <2>2, <2>3 DEF AuditOK, Outcomes
<1>14. QED
  BY <1>8, <1>11, <1>12, <1>13 DEF GateInv

(* A call at the limit drops nothing: the window is full of what is kept.    *)
LEMMA Refused ==
  ASSUME GateInv, NEW c \in Calls, gate[c] = "stamped", NEW k \in FirstKept(stamp[c]),
         ~HasRoom(SubSeq(kept, k, Len(kept))), kept' = SubSeq(kept, k, Len(kept)),
         gate' = [gate EXCEPT ![c] = "rate_limited"], reply' = [reply EXCEPT ![c] = "error"],
         UNCHANGED <<clock, stamp, audited, passed>>
  PROVE  GateInv'
<1>1. GateTypes /\ KeptOK /\ WindowOK /\ AuditOK
  BY DEF GateInv
<1>2. kept \in Seq(Nat) /\ Len(kept) \in Nat /\ Len(kept) <= ToolLimit /\ k \in 1..(Len(kept) + 1)
  BY <1>1 DEF GateTypes, FirstKept
<1>3. k = 1
  <2>1. Len(SubSeq(kept, k, Len(kept))) = Len(kept) + 1 - k
    <3>1. CASE k = Len(kept) + 1
      BY <1>2, <3>1
    <3>2. CASE k # Len(kept) + 1
      <4> DEFINE m == Len(kept)
      <4>1. m \in Nat /\ k \in 1..(m + 1) /\ k # m + 1
        BY <1>2, <3>2
      <4> HIDE DEF m
      <4>2. k \in 1..m /\ m \in 1..m /\ m - k + 1 = m + 1 - k
        BY <4>1
      <4>3. Len(SubSeq(kept, k, m)) = m - k + 1
        BY <1>2, <4>2 DEF m
      <4>4. QED
        BY <4>2, <4>3 DEF m
    <3>3. QED
      BY <3>1, <3>2
  <2>2. Len(SubSeq(kept, k, Len(kept))) >= ToolLimit
    BY <1>2, <2>1, GateConstants DEF HasRoom
  <2>3. QED
    BY <1>2, <2>1, <2>2, GateConstants
<1>4. kept' = kept
  BY <1>2, <1>3
<1>5. gate'[c] = "rate_limited" /\ reply'[c] = "error" /\ \A d \in Calls : d # c => gate'[d] = gate[d] /\ reply'[d] = reply[d]
  BY <1>1 DEF GateTypes
<1>6. GateTypes'
  <2>1. "rate_limited" \in Gates
    BY DEF Gates, Outcomes
  <2>2. QED
    BY <1>1, <1>4, <2>1 DEF GateTypes
<1>7. KeptOK' /\ WindowOK'
  <2>1. \A d \in Calls : gate[d] \notin {"new", "stamped"} =>
            gate'[d] \notin {"new", "stamped"} /\ stamp'[d] = stamp[d]
    BY <1>5
  <2>2. QED
    BY <1>1, <1>4, <2>1, LimiterRests
<1>8. AuditOK'
  <2>1. \A i \in 1..Len(audited) : audited[i][1] \in Calls /\ audited[i][1] # c
    <3>1. gate[c] # "over"
      OBVIOUS
    <3>2. QED
      BY <1>1, <3>1, NoLineYet
  <2>2. Replied("rate_limited") = "error"
    BY DEF Replied
  <2>3. QED
    BY <1>1, <1>5, <2>1, <2>2 DEF AuditOK
<1>9. QED
  BY <1>6, <1>7, <1>8 DEF GateInv

(* The answer is what the line of audit will say.                            *)
LEMMA Handles == ASSUME GateInv, NEW c \in Calls, Handle(c) PROVE GateInv'
<1>1. GateTypes /\ KeptOK /\ WindowOK /\ AuditOK
  BY DEF GateInv
<1>2. PICK o \in Outcomes : /\ gate' = [gate EXCEPT ![c] = o]
                            /\ reply' = [reply EXCEPT ![c] = Replied(o)]
  BY DEF Handle, Replied
<1>3. gate[c] = "handling" /\ UNCHANGED <<clock, stamp, kept, audited, passed>>
  BY DEF Handle
<1>4. Replied(o) \in {"result", "failure", "error"} /\ o \in Gates /\ o \notin {"new", "stamped", "over"}
  BY DEF Replied, Gates, Outcomes
<1>5. /\ gate'[c] = o /\ reply'[c] = Replied(o)
      /\ \A d \in Calls : d # c => gate'[d] = gate[d] /\ reply'[d] = reply[d]
  BY <1>1, <1>2 DEF GateTypes
<1>6. GateTypes'
  BY <1>1, <1>2, <1>3, <1>4 DEF GateTypes
<1>7. KeptOK' /\ WindowOK'
  <2>1. \A d \in Calls : gate[d] \notin {"new", "stamped"} =>
            gate'[d] \notin {"new", "stamped"} /\ stamp'[d] = stamp[d]
    BY <1>3, <1>4, <1>5
  <2>2. QED
    BY <1>1, <1>3, <2>1, LimiterRests
<1>8. AuditOK'
  <2>1. \A i \in 1..Len(audited) : audited[i][1] \in Calls /\ audited[i][1] # c
    <3>1. gate[c] # "over"
      BY <1>3
    <3>2. QED
      BY <1>1, <3>1, NoLineYet
  <2>2. QED
    BY <1>1, <1>3, <1>4, <1>5, <2>1 DEF AuditOK
<1>9. QED
  BY <1>6, <1>7, <1>8 DEF GateInv

(* The line is written once, and says what the call answered.                *)
LEMMA Audits == ASSUME GateInv, NEW c \in Calls, Audit(c) PROVE GateInv'
<1>1. GateTypes /\ KeptOK /\ WindowOK /\ AuditOK
  BY DEF GateInv
<1>2. /\ gate[c] \in Outcomes /\ audited' = Append(audited, <<c, gate[c]>>)
      /\ gate' = [gate EXCEPT ![c] = "over"] /\ UNCHANGED <<clock, stamp, kept, passed, reply>>
  BY DEF Audit
<1>3. gate'[c] = "over" /\ \A d \in Calls : d # c => gate'[d] = gate[d]
  BY <1>1, <1>2 DEF GateTypes
<1> DEFINE line == <<c, gate[c]>>
           n == Len(audited)
<1>4. audited \in Seq(Calls \X Outcomes) /\ n \in Nat /\ line \in Calls \X Outcomes
      /\ line[1] = c /\ line[2] = gate[c]
  BY <1>1, <1>2 DEF GateTypes
<1>5. audited' = Append(audited, line)
  BY <1>2
<1> HIDE DEF line, n
<1>6. /\ audited' \in Seq(Calls \X Outcomes) /\ Len(audited') = n + 1 /\ audited'[n + 1] = line
      /\ \A i \in 1..n : audited'[i] = audited[i]
  BY <1>4, <1>5 DEF n
<1>7. GateTypes'
  <2>1. "over" \in Gates
    BY DEF Gates
  <2>2. QED
    BY <1>1, <1>2, <1>6, <2>1 DEF GateTypes
<1>8. KeptOK' /\ WindowOK'
  <2>1. \A d \in Calls : gate[d] \notin {"new", "stamped"} =>
            gate'[d] \notin {"new", "stamped"} /\ stamp'[d] = stamp[d]
    BY <1>2, <1>3
  <2>2. QED
    BY <1>1, <1>2, <2>1, LimiterRests
<1>9. AuditOK'
  <2>1. \A i \in 1..n : audited[i][1] \in Calls /\ audited[i][1] # c
    <3>1. gate[c] # "over"
      BY <1>2 DEF Outcomes
    <3>2. QED
      BY <1>1, <3>1, NoLineYet DEF n
  <2>2. \A i \in 1..(n + 1) : i = n + 1 \/ i \in 1..n
    BY <1>4
  <2>3. \A i \in 1..(n + 1) : /\ gate'[audited'[i][1]] = "over"
                              /\ reply'[audited'[i][1]] = Replied(audited'[i][2])
    <3>1. \A i \in 1..n : /\ gate'[audited'[i][1]] = "over"
                          /\ reply'[audited'[i][1]] = Replied(audited'[i][2])
      <4> TAKE i \in 1..n
      <4>1. gate[audited[i][1]] = "over" /\ reply[audited[i][1]] = Replied(audited[i][2])
        BY <1>1 DEF AuditOK, n
      <4>2. audited'[i] = audited[i] /\ reply' = reply
        BY <1>2, <1>6
      <4>3. gate'[audited[i][1]] = gate[audited[i][1]]
        BY <1>3, <2>1
      <4> QED BY <4>1, <4>2, <4>3
    <3>2. reply[c] = Replied(gate[c])
      BY <1>1, <1>2 DEF AuditOK
    <3>3. gate'[audited'[n + 1][1]] = "over" /\ reply'[audited'[n + 1][1]] = Replied(audited'[n + 1][2])
      BY <1>2, <1>3, <1>4, <1>6, <3>2
    <3>4. QED
      BY <2>2, <3>1, <3>3
  <2>4. \A i, j \in 1..(n + 1) : audited'[i][1] = audited'[j][1] => i = j
    BY <1>1, <1>4, <1>6, <2>1, <2>2 DEF AuditOK, n
  <2>5. ASSUME NEW d \in Calls, gate'[d] = "over" PROVE \E i \in 1..(n + 1) : audited'[i][1] = d
    <3>1. n + 1 \in 1..(n + 1) /\ \A i \in 1..n : i \in 1..(n + 1)
      BY <1>4
    <3>2. CASE d = c
      BY <1>4, <1>6, <3>1, <3>2
    <3>3. CASE d # c
      BY <1>1, <1>3, <1>6, <2>5, <3>1, <3>3 DEF AuditOK, n
    <3>4. QED
      BY <3>2, <3>3
  <2>6. \A d \in Calls : gate'[d] \in Outcomes => reply'[d] = Replied(gate'[d])
    BY <1>1, <1>2, <1>3 DEF AuditOK, Outcomes
  <2>7. QED
    BY <1>6, <2>3, <2>4, <2>5, <2>6 DEF AuditOK
<1>10. QED
  BY <1>7, <1>8, <1>9 DEF GateInv

(* The clock, and the stamp a call takes before it comes to the limiter.     *)
LEMMA TicksAndStamps ==
  ASSUME GateInv, Tick \/ (\E c \in Calls : Stamp(c)) \/ UNCHANGED gateVars
  PROVE  GateInv'
<1>1. GateTypes /\ KeptOK /\ WindowOK /\ AuditOK
  BY DEF GateInv
<1>2. ASSUME Tick \/ UNCHANGED gateVars PROVE GateInv'
  <2>1. UNCHANGED <<gate, stamp, kept, audited, passed, reply>> /\ clock' \in 0..MaxClock
    BY <1>1, <1>2, GateConstants DEF Tick, gateVars, GateTypes
  <2>2. GateTypes' /\ AuditOK'
    BY <1>1, <2>1 DEF GateTypes, AuditOK
  <2>3. KeptOK' /\ WindowOK'
    BY <1>1, <2>1, LimiterRests
  <2>4. QED
    BY <2>2, <2>3 DEF GateInv
<1>3. ASSUME NEW c \in Calls, Stamp(c) PROVE GateInv'
  <2>1. /\ gate[c] = "new" /\ gate' = [gate EXCEPT ![c] = "stamped"]
        /\ stamp' = [stamp EXCEPT ![c] = clock] /\ UNCHANGED <<clock, kept, audited, passed, reply>>
    BY <1>3 DEF Stamp
  <2>2. gate'[c] = "stamped" /\ \A d \in Calls : d # c => gate'[d] = gate[d] /\ stamp'[d] = stamp[d]
    BY <1>1, <2>1 DEF GateTypes
  <2>3. GateTypes'
    <3>1. "stamped" \in Gates
      BY DEF Gates
    <3>2. QED
      BY <1>1, <2>1, <3>1 DEF GateTypes
  <2>4. KeptOK' /\ WindowOK'
    <3>1. \A d \in Calls : gate[d] \notin {"new", "stamped"} =>
              gate'[d] \notin {"new", "stamped"} /\ stamp'[d] = stamp[d]
      BY <2>1, <2>2
    <3>2. QED
      BY <1>1, <2>1, <3>1, LimiterRests
  <2>5. AuditOK'
    <3>1. \A i \in 1..Len(audited) : audited[i][1] \in Calls /\ audited[i][1] # c
      BY <1>1, <2>1, NoLineYet
    <3>2. QED
      BY <1>1, <2>1, <2>2, <3>1 DEF AuditOK, Outcomes
  <2>6. QED
    BY <2>3, <2>4, <2>5 DEF GateInv
<1>4. QED
  BY <1>2, <1>3

LEMMA GateInvStep == GateInv /\ [GateNext]_gateVars => GateInv'
<1> SUFFICES ASSUME GateInv, [GateNext]_gateVars PROVE GateInv'
  OBVIOUS
<1>1. ASSUME NEW c \in Calls, Allow(c) PROVE GateInv'
  <2>1. PICK k \in FirstKept(stamp[c]) :
          \/ /\ HasRoom(SubSeq(kept, k, Len(kept)))
             /\ kept' = Append(SubSeq(kept, k, Len(kept)), stamp[c]) /\ passed' = Append(passed, c)
             /\ gate' = [gate EXCEPT ![c] = "handling"] /\ UNCHANGED reply
          \/ /\ ~HasRoom(SubSeq(kept, k, Len(kept)))
             /\ kept' = SubSeq(kept, k, Len(kept)) /\ gate' = [gate EXCEPT ![c] = "rate_limited"]
             /\ reply' = [reply EXCEPT ![c] = "error"] /\ UNCHANGED passed
    BY <1>1 DEF Allow
  <2>2. gate[c] = "stamped" /\ UNCHANGED <<clock, stamp, audited>>
    BY <1>1 DEF Allow
  <2>3. CASE HasRoom(SubSeq(kept, k, Len(kept)))
    BY <2>1, <2>2, <2>3, Passes
  <2>4. CASE ~HasRoom(SubSeq(kept, k, Len(kept)))
    BY <2>1, <2>2, <2>4, Refused
  <2>5. QED
    BY <2>3, <2>4
<1>2. QED
  BY <1>1, TicksAndStamps, Handles, Audits DEF GateNext

(* In order, a window that begins with one of the calls holds no more of     *)
(* them than the limit.                                                      *)
LEMMA GateInvImpliesSound == GateInv => GateSound
<1> SUFFICES ASSUME GateInv PROVE GateSound
  OBVIOUS
<1>1. GateTypes /\ KeptOK /\ WindowOK /\ AuditOK
  BY DEF GateInv
<1>2. GateTypeOK
  BY <1>1 DEF GateTypes, GateTypeOK, Gates, ToSet
<1>3. GateWindow
  <2> DEFINE n == Len(passed)
  <2> SUFFICES ASSUME InOrder(passed), NEW i \in 1..n
               PROVE  Cardinality({j \in i..n : stamp[passed[j]] < stamp[passed[i]] + Window}) <= ToolLimit
    BY DEF GateWindow, WithinWindow
  <2> DEFINE inside == {j \in i..n : stamp[passed[j]] < stamp[passed[i]] + Window}
             last == i + ToolLimit - 1
  <2>1. n \in Nat /\ \A j \in 1..n : PassedAt(j) \in Nat
    BY <1>1, GateConstants DEF GateTypes, PassedAt
  <2>2. inside \subseteq i..last
    <3> SUFFICES ASSUME NEW j \in i..n, j > last PROVE ~(PassedAt(j) < PassedAt(i) + Window)
      BY <2>1, GateConstants DEF PassedAt
    <3>1. i + ToolLimit \in 1..n /\ j \in 1..n /\ i + ToolLimit <= j
      BY <2>1, GateConstants
    <3>2. PassedAt(i) + Window <= PassedAt(i + ToolLimit)
      BY <1>1, <3>1 DEF WindowOK
    <3>3. PassedAt(i + ToolLimit) <= PassedAt(j)
      BY <2>1, <3>1, GateConstants DEF InOrder, PassedAt
    <3>4. QED
      BY <2>1, <3>1, <3>2, <3>3, GateConstants
  <2>3. IsFiniteSet(i..last) /\ Cardinality(i..last) = ToolLimit
    <3>1. i \in Int /\ last \in Int /\ i <= last /\ last - i + 1 = ToolLimit
      BY <2>1, GateConstants
    <3> HIDE DEF last
    <3>2. QED
      BY <3>1, FS_Interval
  <2> HIDE DEF inside, last
  <2>4. Cardinality(inside) <= Cardinality(i..last)
    BY <2>2, <2>3, FS_Subset
  <2>5. QED
    BY <2>3, <2>4 DEF inside
<1>4. GateAudited
  <2> SUFFICES ASSUME NEW c \in Calls
               PROVE  LET own == {i \in 1..Len(audited) : audited[i][1] = c}
                      IN /\ Cardinality(own) = IF gate[c] = "over" THEN 1 ELSE 0
                         /\ \A i \in own :
                               reply[c] = CASE audited[i][2] = "ok" -> "result"
                                            [] audited[i][2] = "handler_error" -> "failure"
                                            [] OTHER -> "error"
    BY DEF GateAudited
  <2> DEFINE own == {i \in 1..Len(audited) : audited[i][1] = c}
  <2>1. \A i \in own : gate[c] = "over" /\ reply[c] = Replied(audited[i][2])
    BY <1>1 DEF AuditOK
  <2>2. \A i, j \in own : i = j
    BY <1>1 DEF AuditOK
  <2>3. gate[c] = "over" => own # {}
    BY <1>1 DEF AuditOK
  <2> HIDE DEF own
  <2>4. Cardinality(own) = IF gate[c] = "over" THEN 1 ELSE 0
    <3>1. CASE own = {}
      BY <2>3, <3>1, FS_EmptySet
    <3>2. CASE own # {}
      <4>1. \E i : own = {i}
        BY <2>2, <3>2
      <4>2. QED
        BY <2>1, <3>2, <4>1, FS_Singleton
    <3>3. QED
      BY <3>1, <3>2
  <2>5. QED
    BY <2>1, <2>4 DEF own, Replied
<1>5. QED
  BY <1>2, <1>3, <1>4 DEF GateSound

(* The inductive invariant of the gate: the limiter remembers the stamps of  *)
(* the calls that passed last, and a line of audit is written once.          *)
THEOREM GateInvariant == GateSafety => []GateInv
<1>1. GateInv /\ [GateNext]_gateVars => GateInv'
  BY GateInvStep
<1>2. QED
  BY GateInvInit, <1>1, PTL DEF GateSafety

(* While calls come to the limiter in the order of their stamps no window    *)
(* holds more of them than the limit, and each call that is over has one     *)
(* line of audit that says what it answered (cmd/mcp/main.go).               *)
THEOREM GateIsSound == GateSafety => []GateSound
BY GateInvariant, GateInvImpliesSound, PTL

-----------------------------------------------------------------------------
(* The swarm controller.                                                     *)
SwarmSafety == SwarmInit /\ [][SwarmNext]_swarmVars

-----------------------------------------------------------------------------
Line == (StartLine + 1)..NumLines

(* The chunks on their way, by the place that holds them.  A node holds its  *)
(* chunk until it has handed the result on, or failed.                       *)
Holding(n) == nodePc[n] \in {"invoke", "hung", "send"}
Queued == Range(chunkCh)
Worked == {nodeChunk[n] : n \in {m \in Nodes : Holding(m)}}
Answered == Range(resultCh)
Reported == Range(collected)
Given == Queued \union Worked \union Answered \union Reported
Chunks == Given \union {current}

Apart(c, d) == Range(c) \intersect Range(d) = {}
Once(s) == \A i, j \in DOMAIN s : s[i] = s[j] => i = j

ChunkerOK ==
    /\ cut \in {"run", "send", "end"} /\ lineNum \in 0..NumLines
    /\ current \in Seq(Line) /\ chunkShut = (cut = "end")
    /\ cut = "send" => current # <<>>

ChannelsOK ==
    /\ chunkCh \in Seq(Seq(Line)) /\ Len(chunkCh) <= NodeCap
    /\ resultCh \in Seq(Seq(Line)) /\ Len(resultCh) <= NodeCap
    /\ collected \in Seq(Seq(Line))

NodesOK ==
    /\ nodePc \in [Nodes -> {"idle", "invoke", "hung", "fail", "send", "end"}]
    /\ nodeChunk \in [Nodes -> Seq(Line)]

FlagsOK ==
    /\ errCh \in {{}, {"scan"}, {"chunk"}} /\ resultShut \in BOOLEAN /\ cancelled \in BOOLEAN
    /\ ctl \in {"run", "ok", "error", "cancelled"} /\ interrupted \in BOOLEAN
    /\ failedChunks \subseteq Seq(Line)

(* What is in a chunk was read; two chunks share no line; a chunk is in one  *)
(* place.                                                                    *)
ContentOK ==
    /\ \A c \in Chunks : \A l \in Range(c) : l <= lineNum
    /\ \A c, d \in Chunks : c # d => Apart(c, d)
    /\ <<>> \notin Given /\ current \notin Given

PlacesOK ==
    /\ Once(chunkCh) /\ Once(resultCh) /\ Once(collected)
    /\ \A m, n \in Nodes : Holding(m) /\ Holding(n) /\ nodeChunk[m] = nodeChunk[n] => m = n
    /\ Queued \intersect Worked = {} /\ Queued \intersect Answered = {}
    /\ Queued \intersect Reported = {} /\ Worked \intersect Answered = {}
    /\ Worked \intersect Reported = {} /\ Answered \intersect Reported = {}

(* Nothing went wrong so far.                                                *)
Smooth == ctl = "run" /\ ~interrupted /\ failedChunks = {}

(* While nothing went wrong, every line read is in a chunk, the chunker ends *)
(* at the end of the list or with an error under way, and a node ends when   *)
(* the chunks have.                                                          *)
CoverOK ==
    /\ ctl = "run" /\ cancelled => interrupted
    /\ \A n \in Nodes : nodePc[n] = "fail" => failedChunks # {}
    /\ resultShut => \A n \in Nodes : nodePc[n] = "end"
    /\ Smooth => \A l \in (StartLine + 1)..lineNum : \E c \in Chunks : l \in Range(c)
    /\ Smooth /\ cut = "end" /\ errCh = {} => lineNum = NumLines /\ current = <<>>
    /\ Smooth => \A n \in Nodes : nodePc[n] = "end" => cut = "end" /\ chunkCh = <<>>

IInv == ChunkerOK /\ ChannelsOK /\ NodesOK /\ FlagsOK /\ ContentOK /\ PlacesOK /\ CoverOK
        /\ SwarmLossExplained

-----------------------------------------------------------------------------
LEMMA RangeOfEmpty == Range(<<>>) = {} /\ Once(<<>>)
  BY DEF Range, Once

LEMMA RangeOfAppend ==
  ASSUME NEW S, NEW s \in Seq(S), NEW e \in S
  PROVE  /\ Append(s, e) \in Seq(S) /\ Append(s, e) # <<>>
         /\ Len(Append(s, e)) = Len(s) + 1
         /\ Range(Append(s, e)) = Range(s) \union {e}
         /\ Once(s) /\ e \notin Range(s) => Once(Append(s, e))
<1>1. /\ Append(s, e) \in Seq(S) /\ Len(Append(s, e)) = Len(s) + 1 /\ Len(s) \in Nat
      /\ \A i \in 1..Len(s) : Append(s, e)[i] = s[i]
      /\ Append(s, e)[Len(s) + 1] = e
      /\ DOMAIN Append(s, e) = 1..(Len(s) + 1) /\ DOMAIN s = 1..Len(s)
  BY AppendProperties
<1>2. \A i \in 1..(Len(s) + 1) : i \in 1..Len(s) \/ i = Len(s) + 1
  BY <1>1
<1>3. Range(Append(s, e)) = Range(s) \union {e}
  BY <1>1, <1>2 DEF Range
<1>4. Append(s, e) # <<>>
  BY <1>1
<1>5. Once(s) /\ e \notin Range(s) => Once(Append(s, e))
  BY <1>1, <1>2 DEF Range, Once
<1>6. QED
  BY <1>1, <1>3, <1>4, <1>5

LEMMA RangeOfTail ==
  ASSUME NEW S, NEW s \in Seq(S), s # <<>>, Once(s)
  PROVE  /\ Head(s) \in S /\ Tail(s) \in Seq(S) /\ Len(Tail(s)) = Len(s) - 1
         /\ Once(Tail(s)) /\ Head(s) \in Range(s)
         /\ Range(Tail(s)) = Range(s) \ {Head(s)}
<1>1. /\ Head(s) \in S /\ Tail(s) \in Seq(S) /\ Len(Tail(s)) = Len(s) - 1
      /\ Len(s) \in Nat /\ Len(s) >= 1 /\ Head(s) = s[1]
      /\ \A i \in 1..(Len(s) - 1) : Tail(s)[i] = s[i + 1]
      /\ DOMAIN s = 1..Len(s) /\ DOMAIN Tail(s) = 1..(Len(s) - 1)
  BY HeadTailProperties, EmptySeq, LenProperties
<1>2. Once(Tail(s))
  <2> SUFFICES ASSUME NEW i \in 1..(Len(s) - 1), NEW j \in 1..(Len(s) - 1), Tail(s)[i] = Tail(s)[j]
               PROVE  i = j
    BY <1>1 DEF Once
  <2>1. s[i + 1] = s[j + 1] /\ i + 1 \in 1..Len(s) /\ j + 1 \in 1..Len(s)
    BY <1>1
  <2>2. i + 1 = j + 1
    BY <1>1, <2>1 DEF Once
  <2>3. QED
    BY <2>2
<1>3. Head(s) \in Range(s)
  BY <1>1 DEF Range
<1>4. ASSUME NEW x \in Range(Tail(s)) PROVE x \in Range(s) /\ x # Head(s)
  <2>1. PICK i \in 1..(Len(s) - 1) : x = Tail(s)[i]
    BY <1>1 DEF Range
  <2>2. x = s[i + 1] /\ i + 1 \in 1..Len(s) /\ i + 1 # 1 /\ 1 \in 1..Len(s)
    BY <1>1, <2>1
  <2>3. QED
    BY <1>1, <2>2 DEF Range, Once
<1>5. ASSUME NEW x \in Range(s), x # Head(s) PROVE x \in Range(Tail(s))
  <2>1. PICK i \in 1..Len(s) : x = s[i]
    BY <1>1 DEF Range
  <2>2. i - 1 \in 1..(Len(s) - 1) /\ Tail(s)[i - 1] = s[(i - 1) + 1] /\ (i - 1) + 1 = i
    BY <1>1, <1>5, <2>1
  <2>3. QED
    BY <1>1, <2>1, <2>2 DEF Range
<1>6. QED
  BY <1>1, <1>2, <1>3, <1>4, <1>5

LEMMA NodeCapType == NodeCap \in Nat
  BY FS_CardinalityType, SwarmAssumption DEF NodeCap

(* A set of chunks that only moved between places, or shrank, stays sound.   *)
LEMMA ContentSame ==
  ASSUME ContentOK, lineNum' = lineNum, Chunks' \subseteq Chunks \union {<<>>},
         <<>> \notin Given', current' \notin Given'
  PROVE  ContentOK'
<1>1. \A c \in Chunks' : \A l \in Range(c) : l <= lineNum'
  BY RangeOfEmpty DEF ContentOK
<1>2. \A c, d \in Chunks' : c # d => Apart(c, d)
  BY RangeOfEmpty DEF ContentOK, Apart
<1>3. QED
  BY <1>1, <1>2 DEF ContentOK

(* Where every chunk went on its way, what was covered is covered.           *)
LEMMA CoveredStill ==
  ASSUME CoverOK, lineNum' = lineNum, Smooth' => Smooth /\ Chunks \subseteq Chunks' \union {<<>>}
  PROVE  Smooth' => \A l \in (StartLine + 1)..lineNum' : \E c \in Chunks' : l \in Range(c)
<1> SUFFICES ASSUME Smooth', NEW l \in (StartLine + 1)..lineNum
             PROVE  \E c \in Chunks' : l \in Range(c)
  OBVIOUS
<1>1. PICK c \in Chunks : l \in Range(c)
  BY DEF CoverOK
<1>2. QED
  BY <1>1, RangeOfEmpty

-----------------------------------------------------------------------------
LEMMA IInvInit == SwarmInit => IInv
<1> SUFFICES ASSUME SwarmInit PROVE IInv
  OBVIOUS
<1>1. /\ <<>> \in Seq(Line) /\ <<>> \in Seq(Seq(Line)) /\ Len(<<>>) = 0
      /\ NumLines \in Nat /\ StartLine \in Nat /\ NodeCap \in Nat
  BY NodeCapType, SwarmAssumption, EmptySeq
<1>2. ChunkerOK
  <2>1. cut = "run" /\ lineNum = 0 /\ current = <<>> /\ chunkShut = FALSE
    BY DEF SwarmInit
  <2>2. 0 \in 0..NumLines
    BY <1>1
  <2>3. QED
    BY <1>1, <2>1, <2>2 DEF ChunkerOK
<1>3. ChannelsOK
  BY <1>1 DEF SwarmInit, ChannelsOK
<1>4. NodesOK /\ FlagsOK
  BY <1>1 DEF SwarmInit, NodesOK, FlagsOK
<1>5. Worked = {} /\ Queued = {} /\ Answered = {} /\ Reported = {} /\ current = <<>>
  BY RangeOfEmpty DEF SwarmInit, Worked, Holding, Queued, Answered, Reported
<1>6. Given = {} /\ Chunks = {<<>>}
  BY <1>5 DEF Given, Chunks
<1>7. ContentOK
  BY <1>6, RangeOfEmpty DEF ContentOK
<1>8. PlacesOK
  BY <1>5, RangeOfEmpty DEF SwarmInit, PlacesOK, Holding
<1>9. CoverOK
  <2>1. (StartLine + 1)..lineNum = {}
    BY <1>1 DEF SwarmInit
  <2>2. QED
    BY <2>1 DEF SwarmInit, CoverOK
<1>10. SwarmLossExplained
  BY DEF SwarmInit, SwarmLossExplained
<1>11. QED
  BY <1>2, <1>3, <1>4, <1>7, <1>8, <1>9, <1>10 DEF IInv

-----------------------------------------------------------------------------
LEMMA PlacesSame ==
  ASSUME UNCHANGED <<chunkCh, nodePc, nodeChunk, resultCh, collected>>
  PROVE  /\ Queued' = Queued /\ Worked' = Worked /\ Answered' = Answered /\ Reported' = Reported
         /\ Given' = Given /\ (PlacesOK => PlacesOK')
<1>1. /\ Queued' = Queued /\ Worked' = Worked /\ Answered' = Answered /\ Reported' = Reported
      /\ \A n \in Nodes : Holding(n)' = Holding(n)
  BY DEF Queued, Worked, Answered, Reported, Holding
<1>2. QED
  BY <1>1 DEF Given, PlacesOK

LEMMA LossSame ==
  ASSUME SwarmLossExplained, UNCHANGED <<ctl, collected>>, failedChunks \subseteq failedChunks',
         interrupted => interrupted', errCh' = {} => errCh = {}
  PROVE  SwarmLossExplained'
BY DEF SwarmLossExplained, Collected

(* The chunker puts the next line into the chunk it fills, or comes to its   *)
(* end.                                                                      *)
LEMMA ChunkReadStep ==
  ASSUME IInv, ChunkRead
  PROVE  IInv'
<1>0. /\ NumLines \in Nat /\ StartLine \in Nat /\ ChunkSize \in Nat \ {0}
      /\ lineNum \in 0..NumLines /\ current \in Seq(Line) /\ chunkShut = (cut = "end")
  BY SwarmAssumption DEF IInv, ChunkerOK
<1>1. /\ cut = "run"
      /\ UNCHANGED <<chunkCh, nodePc, nodeChunk, failedChunks, resultCh, resultShut, cancelled,
                     ctl, collected, interrupted>>
  BY DEF ChunkRead, nodeVars, ctlVars
<1>2. Given' = Given /\ PlacesOK'
  BY <1>1, PlacesSame DEF IInv
<1>3. ChannelsOK' /\ NodesOK'
  BY <1>1 DEF IInv, ChannelsOK, NodesOK
<1>4. CASE /\ ~cancelled /\ lineNum < NumLines
           /\ lineNum' = lineNum + 1
           /\ current' = IF lineNum' <= StartLine THEN current ELSE Append(current, lineNum')
           /\ cut' = IF Full(current') THEN "send" ELSE "run"
           /\ UNCHANGED <<chunkShut, errCh>>
  <2>1. /\ lineNum' \in 1..NumLines /\ lineNum' > lineNum
        /\ lineNum' \in Line \/ lineNum' <= StartLine
    BY <1>0, <1>4 DEF Line
  <2>2. \/ lineNum' <= StartLine /\ current' = current
        \/ /\ lineNum' > StartLine /\ current' = Append(current, lineNum')
           /\ Range(current') = Range(current) \union {lineNum'}
           /\ current' \in Seq(Line)
    <3>1. CASE lineNum' <= StartLine
      BY <1>4, <3>1
    <3>2. CASE lineNum' > StartLine
      <4>1. lineNum' \in Line /\ current' = Append(current, lineNum')
        BY <1>0, <1>4, <2>1, <3>2
      <4>2. QED
        BY <1>0, <3>2, <4>1, RangeOfAppend
    <3>3. QED
      BY <1>0, <2>1, <3>1, <3>2
  <2>3. Range(current') \subseteq Range(current) \union {lineNum'} /\ current' \in Seq(Line)
    BY <1>0, <2>2
  <2>4. ChunkerOK'
    <3>1. Full(current') => current' # <<>>
      BY <1>0, EmptySeq DEF Full
    <3>2. QED
      BY <1>0, <1>1, <1>4, <2>1, <2>3, <3>1 DEF ChunkerOK
  <2>5. FlagsOK'
    BY <1>1, <1>4 DEF IInv, FlagsOK
  <2>6. \A c \in Chunks : lineNum' \notin Range(c) /\ \A l \in Range(c) : l <= lineNum'
    <3>1. ASSUME NEW c \in Chunks, NEW l \in Range(c) PROVE l <= lineNum' /\ l # lineNum'
      <4>1. l <= lineNum
        BY DEF IInv, ContentOK
      <4>2. l \in Int
        <5>1. c \in Seq(Line)
          <6>1. c \in Range(chunkCh) \/ c \in Worked \/ c \in Range(resultCh)
                \/ c \in Range(collected) \/ c = current
            BY DEF Chunks, Given, Queued, Answered, Reported
          <6>2. chunkCh \in Seq(Seq(Line)) /\ resultCh \in Seq(Seq(Line)) /\ collected \in Seq(Seq(Line))
                /\ nodeChunk \in [Nodes -> Seq(Line)]
            BY DEF IInv, ChannelsOK, NodesOK
          <6>3. QED
            BY <1>0, <6>1, <6>2, ElementOfSeq DEF Range, Worked
        <5>2. QED
          BY <1>0, <5>1, ElementOfSeq DEF Range, Line
      <4>3. QED
        BY <1>0, <2>1, <4>1, <4>2
    <3>2. QED
      BY <3>1
  <2>7. ContentOK'
    <3>1. Chunks' = Given \union {current'} /\ Chunks = Given \union {current}
      BY <1>2 DEF Chunks
    <3>2. ASSUME NEW c \in Chunks', NEW l \in Range(c) PROVE l <= lineNum'
      BY <1>0, <2>1, <2>3, <2>6, <3>1
    <3>3. ASSUME NEW d \in Given PROVE Apart(current', d) /\ Apart(d, current') /\ d # current'
      <4>1. Apart(current, d) /\ lineNum' \notin Range(d)
        BY <2>6, <3>1 DEF IInv, ContentOK
      <4>2. Apart(current', d)
        BY <2>3, <4>1 DEF Apart
      <4>3. d # current'
        BY <2>2, <2>6, <3>1 DEF IInv, ContentOK
      <4>4. QED
        BY <4>2, <4>3 DEF Apart
    <3>4. \A c, d \in Chunks' : c # d => Apart(c, d)
      BY <3>1, <3>3 DEF IInv, ContentOK
    <3>5. QED
      BY <1>2, <3>2, <3>3, <3>4 DEF IInv, ContentOK
  <2>8. CoverOK'
    <3>1. Smooth' => Smooth
      BY <1>1 DEF Smooth
    <3>2. ASSUME Smooth', NEW l \in (StartLine + 1)..lineNum'
          PROVE  \E c \in Chunks' : l \in Range(c)
      <4>1. CASE l = lineNum'
        BY <1>0, <2>1, <2>2, <4>1, <3>2 DEF Chunks
      <4>2. CASE l # lineNum'
        <5>1. l \in (StartLine + 1)..lineNum
          BY <1>0, <1>4, <2>1, <4>2
        <5>2. PICK c \in Chunks : l \in Range(c)
          BY <3>1, <3>2, <5>1 DEF IInv, CoverOK
        <5>3. CASE c \in Given
          BY <1>2, <5>2, <5>3 DEF Chunks
        <5>4. CASE c = current
          BY <2>2, <5>2, <5>4 DEF Chunks
        <5>5. QED
          BY <5>3, <5>4 DEF Chunks
      <4>3. QED
        BY <4>1, <4>2
    <3>3. cut' # "end"
      BY <1>4
    <3>4. Smooth => \A n \in Nodes : nodePc[n] # "end"
      BY <1>1 DEF IInv, CoverOK
    <3>5. QED
      BY <1>1, <3>1, <3>2, <3>3, <3>4 DEF IInv, CoverOK
  <2>9. SwarmLossExplained'
    BY <1>1, <1>4, LossSame DEF IInv
  <2>10. QED
    BY <1>2, <1>3, <2>4, <2>5, <2>7, <2>8, <2>9 DEF IInv
<1>5. CASE /\ UNCHANGED <<lineNum, current>>
           /\ \/ /\ lineNum = NumLines
                 /\ cut' = IF SendsLast THEN "send" ELSE "end"
                 /\ chunkShut' = ~SendsLast /\ errCh' = errCh
              \/ /\ cancelled /\ cut' = "end" /\ chunkShut' = TRUE /\ errCh' = errCh
              \/ /\ cut' = "end" /\ chunkShut' = TRUE
                 /\ errCh' = IF errCh = {} THEN {"scan"} ELSE errCh
  <2>1. ChunkerOK'
    BY <1>0, <1>5 DEF ChunkerOK, SendsLast
  <2>2. FlagsOK' /\ (errCh' = {} => errCh = {})
    BY <1>1, <1>5 DEF IInv, FlagsOK
  <2>3. Chunks' = Chunks
    BY <1>2, <1>5 DEF Chunks
  <2>4. ContentOK'
    BY <1>2, <1>5, <2>3, ContentSame DEF IInv, ContentOK
  <2>5. CoverOK'
    <3>1. Smooth' = Smooth
      BY <1>1 DEF Smooth
    <3>2. Smooth' => \A l \in (StartLine + 1)..lineNum' : \E c \in Chunks' : l \in Range(c)
      BY <1>5, <2>3, <3>1, CoveredStill DEF IInv
    <3>3. Smooth' /\ cut' = "end" /\ errCh' = {} => lineNum' = NumLines /\ current' = <<>>
      BY <1>5, <3>1 DEF IInv, CoverOK, Smooth, SendsLast
    <3>4. Smooth => \A n \in Nodes : nodePc[n] # "end"
      BY <1>1 DEF IInv, CoverOK
    <3>5. QED
      BY <1>1, <3>1, <3>2, <3>3, <3>4 DEF IInv, CoverOK
  <2>6. SwarmLossExplained'
    BY <1>1, <2>2, LossSame DEF IInv
  <2>7. QED
    BY <1>2, <1>3, <2>1, <2>2, <2>4, <2>5, <2>6 DEF IInv
<1>6. QED
  BY <1>4, <1>5 DEF ChunkRead

LEMMA ChunkSendStep ==
  ASSUME IInv, ChunkSend
  PROVE  IInv'
<1>0. /\ current \in Seq(Line) /\ chunkShut = (cut = "end") /\ current # <<>>
      /\ chunkCh \in Seq(Seq(Line)) /\ Len(chunkCh) \in Nat /\ NodeCap \in Nat
  BY NodeCapType DEF IInv, ChunkerOK, ChannelsOK, ChunkSend
<1>1. /\ cut = "send"
      /\ UNCHANGED <<lineNum, nodePc, nodeChunk, failedChunks, resultCh, resultShut, errCh,
                     cancelled, ctl, collected, interrupted>>
  BY DEF ChunkSend, nodeVars, ctlVars
<1>2. NodesOK' /\ FlagsOK' /\ SwarmLossExplained'
  BY <1>1, LossSame DEF IInv, NodesOK, FlagsOK
<1>3. Smooth' = Smooth /\ (Smooth => \A n \in Nodes : nodePc[n] # "end")
  BY <1>1 DEF IInv, CoverOK, Smooth
<1>4. /\ Worked' = Worked /\ Answered' = Answered /\ Reported' = Reported
      /\ \A n \in Nodes : Holding(n)' = Holding(n)
  BY <1>1 DEF Worked, Holding, Answered, Reported
<1>5. CASE /\ Len(chunkCh) < NodeCap
           /\ chunkCh' = Append(chunkCh, current) /\ current' = <<>>
           /\ cut' = "run" /\ UNCHANGED chunkShut
  <2>1. ChunkerOK'
    BY <1>1, <1>5, EmptySeq DEF IInv, ChunkerOK
  <2>2. /\ chunkCh' \in Seq(Seq(Line)) /\ Len(chunkCh') = Len(chunkCh) + 1
        /\ Queued' = Queued \union {current}
        /\ Once(chunkCh) /\ current \notin Queued => Once(chunkCh')
    BY <1>0, <1>5, RangeOfAppend DEF Queued
  <2>3. ChannelsOK'
    BY <1>0, <1>1, <1>5, <2>2 DEF IInv, ChannelsOK
  <2>4. current \notin Given
    BY DEF IInv, ContentOK
  <2>5. PlacesOK'
    BY <1>1, <1>4, <2>2, <2>4 DEF IInv, PlacesOK, Given
  <2>6. Given' = Given \union {current} /\ Chunks' = Chunks \union {<<>>}
    BY <1>4, <1>5, <2>2 DEF Given, Chunks
  <2>7. ContentOK'
    BY <1>0, <1>1, <1>5, <2>6, ContentSame DEF IInv, ContentOK
  <2>8. CoverOK'
    <3>1. Smooth' => \A l \in (StartLine + 1)..lineNum' : \E c \in Chunks' : l \in Range(c)
      BY <1>1, <1>3, <2>6, CoveredStill DEF IInv
    <3>2. QED
      BY <1>1, <1>3, <1>5, <3>1 DEF IInv, CoverOK
  <2>9. QED
    BY <1>2, <2>1, <2>3, <2>5, <2>7, <2>8 DEF IInv
<1>6. CASE cancelled /\ cut' = "end" /\ chunkShut' = TRUE /\ UNCHANGED <<chunkCh, current>>
  <2>1. ChunkerOK' /\ ChannelsOK'
    BY <1>1, <1>6 DEF IInv, ChunkerOK, ChannelsOK
  <2>2. PlacesOK' /\ Given' = Given /\ Chunks' = Chunks
    BY <1>1, <1>6, PlacesSame DEF IInv, Chunks
  <2>3. ContentOK'
    BY <1>1, <1>6, <2>2, ContentSame DEF IInv, ContentOK
  <2>4. ~Smooth
    BY <1>6 DEF IInv, CoverOK, Smooth
  <2>5. CoverOK'
    BY <1>1, <1>3, <2>4 DEF IInv, CoverOK
  <2>6. QED
    BY <1>2, <2>1, <2>2, <2>3, <2>5 DEF IInv
<1>7. QED
  BY <1>5, <1>6 DEF ChunkSend

-----------------------------------------------------------------------------
(* What a node has in hand changes when it takes a chunk and when it lets go *)
(* of one.                                                                   *)
LEMMA WorkedMore ==
  ASSUME NodesOK, NEW n \in Nodes, ~Holding(n), NEW c,
         nodeChunk' = [nodeChunk EXCEPT ![n] = c], nodePc' = [nodePc EXCEPT ![n] = "invoke"]
  PROVE  Worked' = Worked \union {c}
<1>1. \A m \in Nodes : m # n => Holding(m)' = Holding(m) /\ nodeChunk'[m] = nodeChunk[m]
  BY DEF NodesOK, Holding
<1>2. Holding(n)' /\ nodeChunk'[n] = c
  BY DEF NodesOK, Holding
<1>3. QED
  BY <1>1, <1>2 DEF Worked

LEMMA WorkedLess ==
  ASSUME NodesOK, PlacesOK, NEW n \in Nodes, Holding(n), NEW p \in {"idle", "fail", "end"},
         nodeChunk' = nodeChunk, nodePc' = [nodePc EXCEPT ![n] = p]
  PROVE  Worked' = Worked \ {nodeChunk[n]} /\ nodeChunk[n] \in Worked
<1>1. \A m \in Nodes : m # n => Holding(m)' = Holding(m)
  BY DEF NodesOK, Holding
<1>2. ~Holding(n)'
  BY DEF NodesOK, Holding
<1>3. \A m \in Nodes : Holding(m) /\ nodeChunk[m] = nodeChunk[n] => m = n
  BY DEF PlacesOK
<1>4. QED
  BY <1>1, <1>2, <1>3 DEF Worked

LEMMA NodeTakeStep ==
  ASSUME IInv, NEW n \in Nodes, NodeTake(n)
  PROVE  IInv'
<1>1. /\ nodePc[n] = "idle" /\ ~Holding(n)
      /\ UNCHANGED <<cut, lineNum, current, chunkShut, resultCh, resultShut, errCh, cancelled,
                     ctl, collected, interrupted, failedChunks>>
  BY DEF NodeTake, cutVars, ctlVars, Holding
<1>2. /\ chunkCh \in Seq(Seq(Line)) /\ Once(chunkCh) /\ Len(chunkCh) <= NodeCap
      /\ Len(chunkCh) \in Nat /\ NodeCap \in Nat
  BY NodeCapType DEF IInv, ChannelsOK, PlacesOK
<1>3. ChunkerOK' /\ FlagsOK' /\ SwarmLossExplained'
  BY <1>1, LossSame DEF IInv, ChunkerOK, FlagsOK
<1>4. Smooth' = Smooth
  BY <1>1 DEF Smooth
<1>5. Answered' = Answered /\ Reported' = Reported
  BY <1>1 DEF Answered, Reported
<1>6. ~resultShut
  BY <1>1 DEF IInv, CoverOK
<1>7. CASE /\ chunkCh # <<>>
           /\ nodeChunk' = [nodeChunk EXCEPT ![n] = Head(chunkCh)] /\ chunkCh' = Tail(chunkCh)
           /\ nodePc' = [nodePc EXCEPT ![n] = "invoke"]
  <2> DEFINE c == Head(chunkCh)
  <2>1. /\ c \in Seq(Line) /\ chunkCh' \in Seq(Seq(Line)) /\ Len(chunkCh') = Len(chunkCh) - 1
        /\ Once(chunkCh') /\ c \in Queued /\ Queued' = Queued \ {c}
    BY <1>2, <1>7, RangeOfTail DEF Queued
  <2>2. Worked' = Worked \union {c}
    BY <1>1, <1>7, WorkedMore DEF IInv
  <2>3. ChannelsOK'
    BY <1>1, <1>2, <2>1 DEF IInv, ChannelsOK
  <2>4. NodesOK'
    BY <1>7, <2>1 DEF IInv, NodesOK
  <2>5. \A m \in Nodes : /\ m # n => /\ Holding(m)' = Holding(m) /\ nodeChunk'[m] = nodeChunk[m]
                                     /\ nodePc'[m] = nodePc[m]
                         /\ m = n => nodeChunk'[m] = c /\ nodePc'[m] = "invoke"
    BY <1>7 DEF IInv, NodesOK, Holding
  <2>6. PlacesOK'
    <3>1. c \notin Worked /\ c \notin Answered /\ c \notin Reported
      BY <2>1 DEF IInv, PlacesOK
    <3>2. \A m \in Nodes : Holding(m) => nodeChunk[m] # c
      BY <3>1 DEF Worked
    <3>3. \A m, o \in Nodes : Holding(m)' /\ Holding(o)' /\ nodeChunk'[m] = nodeChunk'[o] => m = o
      BY <2>5, <3>2 DEF IInv, PlacesOK
    <3>4. Once(chunkCh') /\ Once(resultCh') /\ Once(collected')
      BY <1>1, <2>1 DEF IInv, PlacesOK
    <3>5. /\ Queued' \intersect Worked' = {} /\ Queued' \intersect Answered' = {}
          /\ Queued' \intersect Reported' = {} /\ Worked' \intersect Answered' = {}
          /\ Worked' \intersect Reported' = {} /\ Answered' \intersect Reported' = {}
      BY <1>5, <2>1, <2>2, <3>1 DEF IInv, PlacesOK
    <3>6. QED
      BY <3>3, <3>4, <3>5 DEF PlacesOK, Once
  <2>7. Given' = Given /\ Chunks' = Chunks
    BY <1>1, <1>5, <2>1, <2>2 DEF Given, Chunks
  <2>8. ContentOK'
    BY <1>1, <2>7, ContentSame DEF IInv, ContentOK
  <2>9. CoverOK'
    <3>1. Smooth' => \A l \in (StartLine + 1)..lineNum' : \E d \in Chunks' : l \in Range(d)
      BY <1>1, <1>4, <2>7, CoveredStill DEF IInv
    <3>2. \A m \in Nodes : nodePc'[m] \in {"fail", "end"} => nodePc[m] = nodePc'[m]
      BY <2>5
    <3>3. Smooth => \A m \in Nodes : nodePc'[m] # "end"
      BY <1>7, <3>2 DEF IInv, CoverOK
    <3>4. QED
      BY <1>1, <1>4, <1>6, <3>1, <3>2, <3>3 DEF IInv, CoverOK
  <2>10. QED
    BY <1>3, <2>3, <2>4, <2>6, <2>8, <2>9 DEF IInv
<1>8. CASE /\ chunkCh = <<>> /\ chunkShut
           /\ nodePc' = [nodePc EXCEPT ![n] = "end"] /\ UNCHANGED <<nodeChunk, chunkCh>>
  <2>1. ChannelsOK' /\ NodesOK'
    BY <1>1, <1>8 DEF IInv, ChannelsOK, NodesOK
  <2>2. \A m \in Nodes : /\ Holding(m)' = Holding(m)
                         /\ nodePc'[m] = nodePc[m] \/ nodePc'[m] = "end"
    BY <1>1, <1>8 DEF IInv, NodesOK, Holding
  <2>3. Queued' = Queued /\ Worked' = Worked
    BY <1>8, <2>2 DEF Queued, Worked
  <2>4. PlacesOK'
    BY <1>1, <1>5, <1>8, <2>2, <2>3 DEF IInv, PlacesOK
  <2>5. Given' = Given /\ Chunks' = Chunks
    BY <1>1, <1>5, <2>3 DEF Given, Chunks
  <2>6. ContentOK'
    BY <1>1, <2>5, ContentSame DEF IInv, ContentOK
  <2>7. CoverOK'
    <3>1. Smooth' => \A l \in (StartLine + 1)..lineNum' : \E d \in Chunks' : l \in Range(d)
      BY <1>1, <1>4, <2>5, CoveredStill DEF IInv
    <3>2. cut = "end"
      BY <1>8 DEF IInv, ChunkerOK
    <3>3. QED
      BY <1>1, <1>4, <1>6, <1>8, <2>2, <3>1, <3>2 DEF IInv, CoverOK
  <2>8. QED
    BY <1>3, <2>1, <2>4, <2>6, <2>7 DEF IInv
<1>9. QED
  BY <1>7, <1>8 DEF NodeTake

(* A node that lets go of its chunk without handing it on loses it: then     *)
(* something went wrong.                                                     *)
LEMMA ChunkLost ==
  ASSUME IInv, NEW n \in Nodes, Holding(n), NEW p \in {"fail", "end"},
         nodePc' = [nodePc EXCEPT ![n] = p], failedChunks \subseteq failedChunks', ~Smooth',
         failedChunks' \subseteq Seq(Line), p = "fail" => failedChunks' # {},
         UNCHANGED <<cut, lineNum, current, chunkCh, chunkShut, nodeChunk, resultCh, resultShut,
                     errCh, cancelled, ctl, collected, interrupted>>
  PROVE  IInv'
<1>1. Worked' = Worked \ {nodeChunk[n]}
  BY WorkedLess DEF IInv
<1>2. Queued' = Queued /\ Answered' = Answered /\ Reported' = Reported
  BY DEF Queued, Answered, Reported
<1>3. ChunkerOK' /\ ChannelsOK' /\ FlagsOK' /\ SwarmLossExplained'
  BY LossSame DEF IInv, ChunkerOK, ChannelsOK, FlagsOK
<1>4. NodesOK'
  BY DEF IInv, NodesOK
<1>5. \A m \in Nodes : /\ Holding(m)' => Holding(m)
                       /\ m # n => nodePc'[m] = nodePc[m]
                       /\ m = n => nodePc'[m] = p
  BY DEF IInv, NodesOK, Holding
<1>6. PlacesOK'
  BY <1>1, <1>2, <1>5 DEF IInv, PlacesOK
<1>7. Given' \subseteq Given /\ Chunks' \subseteq Chunks
  BY <1>1, <1>2 DEF Given, Chunks
<1>8. ContentOK'
  BY <1>7, ContentSame DEF IInv, ContentOK
<1>9. CoverOK'
  <2>1. ~resultShut
    BY DEF IInv, CoverOK, Holding
  <2>2. \A m \in Nodes : nodePc'[m] = "fail" => failedChunks' # {}
    BY <1>5 DEF IInv, CoverOK
  <2>3. QED
    BY <2>1, <2>2 DEF IInv, CoverOK
<1>10. QED
  BY <1>3, <1>4, <1>6, <1>8, <1>9 DEF IInv

LEMMA InvokeStep ==
  ASSUME IInv, NEW n \in Nodes, Invoke(n)
  PROVE  IInv'
<1>1. /\ nodePc[n] = "invoke" /\ Holding(n)
      /\ UNCHANGED <<cut, lineNum, current, chunkShut, chunkCh, nodeChunk, resultCh, resultShut,
                     errCh, cancelled, ctl, collected, interrupted>>
  BY DEF Invoke, cutVars, ctlVars, Holding
<1>2. PICK ok \in BOOLEAN :
          /\ nodePc' = [nodePc EXCEPT ![n] = IF ok THEN "send" ELSE "fail"]
          /\ failedChunks' = IF ok THEN failedChunks ELSE failedChunks \union {nodeChunk[n]}
  BY DEF Invoke
<1>3. CASE ok
  <2>1. nodePc' = [nodePc EXCEPT ![n] = "send"] /\ failedChunks' = failedChunks
    BY <1>2, <1>3
  <2>2. ChunkerOK' /\ ChannelsOK' /\ FlagsOK' /\ SwarmLossExplained'
    BY <1>1, <2>1, LossSame DEF IInv, ChunkerOK, ChannelsOK, FlagsOK
  <2>3. NodesOK'
    BY <1>1, <2>1 DEF IInv, NodesOK
  <2>4. \A m \in Nodes : /\ Holding(m)' = Holding(m)
                         /\ m # n => nodePc'[m] = nodePc[m]
                         /\ m = n => nodePc'[m] = "send"
    BY <1>1, <2>1 DEF IInv, NodesOK, Holding
  <2>5. Queued' = Queued /\ Worked' = Worked /\ Answered' = Answered /\ Reported' = Reported
    BY <1>1, <2>4 DEF Queued, Worked, Answered, Reported
  <2>6. PlacesOK' /\ Given' = Given /\ Chunks' = Chunks
    BY <1>1, <2>4, <2>5 DEF IInv, PlacesOK, Given, Chunks
  <2>7. ContentOK'
    BY <1>1, <2>6, ContentSame DEF IInv, ContentOK
  <2>8. CoverOK'
    <3>1. Smooth' = Smooth /\ ~resultShut
      BY <1>1, <2>1 DEF IInv, CoverOK, Smooth
    <3>2. Smooth' => \A l \in (StartLine + 1)..lineNum' : \E d \in Chunks' : l \in Range(d)
      BY <1>1, <2>6, <3>1, CoveredStill DEF IInv
    <3>3. \A m \in Nodes : nodePc'[m] \in {"fail", "end"} => nodePc[m] = nodePc'[m]
      BY <2>4
    <3>4. QED
      BY <1>1, <2>1, <3>1, <3>2, <3>3 DEF IInv, CoverOK
  <2>9. QED
    BY <2>2, <2>3, <2>6, <2>7, <2>8 DEF IInv
<1>4. CASE ~ok
  <2>1. /\ nodePc' = [nodePc EXCEPT ![n] = "fail"]
        /\ failedChunks' = failedChunks \union {nodeChunk[n]}
    BY <1>2, <1>4
  <2>2. failedChunks' # {} /\ failedChunks' \subseteq Seq(Line) /\ failedChunks \subseteq failedChunks'
    BY <2>1 DEF IInv, FlagsOK, NodesOK
  <2>3. ~Smooth'
    BY <2>2 DEF Smooth
  <2>4. QED
    BY <1>1, <2>1, <2>2, <2>3, ChunkLost
<1>5. QED
  BY <1>3, <1>4

(* A node whose worker's engine hangs keeps its chunk.                       *)
LEMMA InvokeHangsStep ==
  ASSUME IInv, NEW n \in Nodes, InvokeHangs(n)
  PROVE  IInv'
<1>1. /\ nodePc[n] = "invoke" /\ nodePc' = [nodePc EXCEPT ![n] = "hung"]
      /\ UNCHANGED <<cut, lineNum, current, chunkShut, chunkCh, nodeChunk, failedChunks, resultCh,
                     resultShut, errCh, cancelled, ctl, collected, interrupted>>
  BY DEF InvokeHangs, cutVars, ctlVars
<1>2. ChunkerOK' /\ ChannelsOK' /\ FlagsOK' /\ SwarmLossExplained'
  BY <1>1, LossSame DEF IInv, ChunkerOK, ChannelsOK, FlagsOK
<1>3. NodesOK'
  BY <1>1 DEF IInv, NodesOK
<1>4. \A m \in Nodes : /\ Holding(m)' = Holding(m)
                       /\ nodePc'[m] \in {"fail", "end"} => nodePc[m] = nodePc'[m]
                       /\ nodePc[m] = "end" => nodePc'[m] = "end"
  BY <1>1 DEF IInv, NodesOK, Holding
<1>5. Queued' = Queued /\ Worked' = Worked /\ Answered' = Answered /\ Reported' = Reported
  BY <1>1, <1>4 DEF Queued, Worked, Answered, Reported
<1>6. PlacesOK' /\ Given' = Given /\ Chunks' = Chunks
  BY <1>1, <1>4, <1>5 DEF IInv, PlacesOK, Given, Chunks
<1>7. ContentOK'
  BY <1>1, <1>6, ContentSame DEF IInv, ContentOK
<1>8. CoverOK'
  <2>1. Smooth' = Smooth
    BY <1>1 DEF Smooth
  <2>2. Smooth' => \A l \in (StartLine + 1)..lineNum' : \E d \in Chunks' : l \in Range(d)
    BY <1>1, <1>6, <2>1 DEF IInv, CoverOK
  <2>3. QED
    BY <1>1, <1>4, <2>1, <2>2 DEF IInv, CoverOK
<1>9. QED
  BY <1>2, <1>3, <1>6, <1>7, <1>8 DEF IInv

LEMMA NodeFailStep ==
  ASSUME IInv, NEW n \in Nodes, NodeFail(n)
  PROVE  IInv'
<1>1. /\ nodePc[n] = "fail" /\ nodePc' = [nodePc EXCEPT ![n] = "end"]
      /\ errCh' = IF errCh = {} THEN {"chunk"} ELSE errCh
      /\ UNCHANGED <<cut, lineNum, current, chunkShut, chunkCh, nodeChunk, failedChunks, resultCh,
                     resultShut, cancelled, ctl, collected, interrupted>>
  BY DEF NodeFail, cutVars, ctlVars
<1>2. ~Smooth /\ ~Smooth' /\ ~resultShut
  BY <1>1 DEF IInv, CoverOK, Smooth
<1>3. errCh' \in {{}, {"scan"}, {"chunk"}} /\ (errCh' = {} => errCh = {})
  BY <1>1 DEF IInv, FlagsOK
<1>4. ChunkerOK' /\ ChannelsOK' /\ FlagsOK' /\ SwarmLossExplained'
  BY <1>1, <1>3, LossSame DEF IInv, ChunkerOK, ChannelsOK, FlagsOK
<1>5. NodesOK'
  BY <1>1 DEF IInv, NodesOK
<1>6. \A m \in Nodes : Holding(m)' = Holding(m) /\ (nodePc'[m] = "fail" => nodePc[m] = "fail")
  BY <1>1 DEF IInv, NodesOK, Holding
<1>7. Queued' = Queued /\ Worked' = Worked /\ Answered' = Answered /\ Reported' = Reported
  BY <1>1, <1>6 DEF Queued, Worked, Answered, Reported
<1>8. PlacesOK' /\ Given' = Given /\ Chunks' = Chunks
  BY <1>1, <1>6, <1>7 DEF IInv, PlacesOK, Given, Chunks
<1>9. ContentOK'
  BY <1>1, <1>8, ContentSame DEF IInv, ContentOK
<1>10. CoverOK'
  BY <1>1, <1>2, <1>6 DEF IInv, CoverOK
<1>11. QED
  BY <1>4, <1>5, <1>8, <1>9, <1>10 DEF IInv

LEMMA NodeSendStep ==
  ASSUME IInv, NEW n \in Nodes, NodeSend(n)
  PROVE  IInv'
<1>1. /\ nodePc[n] = "send" /\ Holding(n)
      /\ UNCHANGED <<cut, lineNum, current, chunkShut, chunkCh, nodeChunk, failedChunks,
                     resultShut, errCh, cancelled, ctl, collected, interrupted>>
  BY DEF NodeSend, cutVars, ctlVars, Holding
<1>2. CASE /\ Len(resultCh) < NodeCap
           /\ resultCh' = Append(resultCh, nodeChunk[n])
           /\ nodePc' = [nodePc EXCEPT ![n] = "idle"]
  <2> DEFINE c == nodeChunk[n]
  <2>1. c \in Seq(Line) /\ resultCh \in Seq(Seq(Line)) /\ Len(resultCh) \in Nat /\ NodeCap \in Nat
    BY NodeCapType DEF IInv, NodesOK, ChannelsOK
  <2>2. Worked' = Worked \ {c} /\ c \in Worked
    BY <1>1, <1>2, WorkedLess DEF IInv
  <2>3. c \notin Queued /\ c \notin Answered /\ c \notin Reported
    BY <2>2 DEF IInv, PlacesOK
  <2>4. /\ resultCh' \in Seq(Seq(Line)) /\ Len(resultCh') = Len(resultCh) + 1
        /\ Answered' = Answered \union {c} /\ Once(resultCh')
    BY <1>2, <2>1, <2>3, RangeOfAppend DEF Answered, IInv, PlacesOK
  <2>5. Queued' = Queued /\ Reported' = Reported
    BY <1>1 DEF Queued, Reported
  <2>6. \A m \in Nodes : /\ Holding(m)' => Holding(m)
                         /\ nodePc'[m] \in {"fail", "end"} => nodePc[m] = nodePc'[m]
    BY <1>2 DEF IInv, NodesOK, Holding
  <2>7. ChunkerOK' /\ FlagsOK' /\ SwarmLossExplained'
    BY <1>1, LossSame DEF IInv, ChunkerOK, FlagsOK
  <2>8. ChannelsOK'
    BY <1>1, <1>2, <2>1, <2>4 DEF IInv, ChannelsOK
  <2>9. NodesOK'
    BY <1>1, <1>2 DEF IInv, NodesOK
  <2>10. PlacesOK'
    <3>1. \A m, o \in Nodes : Holding(m)' /\ Holding(o)' /\ nodeChunk'[m] = nodeChunk'[o] => m = o
      BY <1>1, <2>6 DEF IInv, PlacesOK
    <3>2. Once(chunkCh') /\ Once(resultCh') /\ Once(collected')
      BY <1>1, <2>4 DEF IInv, PlacesOK
    <3>3. /\ Queued' \intersect Worked' = {} /\ Queued' \intersect Answered' = {}
          /\ Queued' \intersect Reported' = {} /\ Worked' \intersect Answered' = {}
          /\ Worked' \intersect Reported' = {} /\ Answered' \intersect Reported' = {}
      BY <2>2, <2>3, <2>4, <2>5 DEF IInv, PlacesOK
    <3>4. QED
      BY <3>1, <3>2, <3>3 DEF PlacesOK, Once
  <2>11. Given' = Given /\ Chunks' = Chunks
    BY <1>1, <2>2, <2>4, <2>5 DEF Given, Chunks
  <2>12. ContentOK'
    BY <1>1, <2>11, ContentSame DEF IInv, ContentOK
  <2>13. CoverOK'
    <3>1. Smooth' = Smooth /\ ~resultShut
      BY <1>1 DEF IInv, CoverOK, Smooth
    <3>2. Smooth' => \A l \in (StartLine + 1)..lineNum' : \E d \in Chunks' : l \in Range(d)
      BY <1>1, <2>11, <3>1, CoveredStill DEF IInv
    <3>3. QED
      BY <1>1, <2>6, <3>1, <3>2 DEF IInv, CoverOK
  <2>14. QED
    BY <2>7, <2>8, <2>9, <2>10, <2>12, <2>13 DEF IInv
<1>3. CASE cancelled /\ nodePc' = [nodePc EXCEPT ![n] = "end"] /\ UNCHANGED resultCh
  <2>1. ~Smooth'
    BY <1>1, <1>3 DEF IInv, CoverOK, Smooth
  <2>2. failedChunks' \subseteq Seq(Line)
    BY <1>1 DEF IInv, FlagsOK
  <2>3. QED
    BY <1>1, <1>3, <2>1, <2>2, ChunkLost
<1>4. QED
  BY <1>2, <1>3 DEF NodeSend

-----------------------------------------------------------------------------
LEMMA CollectedLines ==
  ASSUME ChannelsOK
  PROVE  Collected \subseteq Line /\ \A l : l \in Collected <=> \E c \in Reported : l \in Range(c)
<1>1. \A l : l \in Collected <=> \E c \in Reported : l \in Range(c)
  BY DEF Collected, Reported, Range
<1>2. ASSUME NEW c \in Reported PROVE Range(c) \subseteq Line
  <2>1. c \in Seq(Line)
    BY ElementOfSeq DEF ChannelsOK, Reported, Range
  <2>2. QED
    BY <2>1, ElementOfSeq DEF Range
<1>3. QED
  BY <1>1, <1>2

LEMMA CloserStep ==
  ASSUME IInv, Closer
  PROVE  IInv'
<1>1. /\ CloserReady /\ resultShut' = TRUE
      /\ UNCHANGED <<cut, lineNum, current, chunkShut, chunkCh, nodePc, nodeChunk, failedChunks,
                     resultCh, errCh, cancelled, ctl, collected, interrupted>>
  BY DEF Closer, cutVars, nodeVars, ctlVars
<1>2. ChunkerOK' /\ ChannelsOK' /\ NodesOK' /\ FlagsOK' /\ SwarmLossExplained'
  BY <1>1, LossSame DEF IInv, ChunkerOK, ChannelsOK, NodesOK, FlagsOK
<1>3. PlacesOK' /\ Given' = Given /\ Chunks' = Chunks
  BY <1>1, PlacesSame DEF IInv, Chunks
<1>4. ContentOK'
  BY <1>1, <1>3, ContentSame DEF IInv, ContentOK
<1>5. CoverOK'
  <2>1. Smooth' = Smooth
    BY <1>1 DEF Smooth
  <2>2. Smooth' => \A l \in (StartLine + 1)..lineNum' : \E d \in Chunks' : l \in Range(d)
    BY <1>1, <1>3, <2>1, CoveredStill DEF IInv
  <2>3. QED
    BY <1>1, <2>1, <2>2 DEF IInv, CoverOK, CloserReady
<1>6. QED
  BY <1>2, <1>3, <1>4, <1>5 DEF IInv

(* The controller reports success on a closed and empty channel: then every  *)
(* node has ended, and unless something went wrong every chunk is reported.  *)
LEMMA SuccessIsComplete ==
  ASSUME IInv, Smooth, errCh = {}, resultCh = <<>>, resultShut
  PROVE  Collected = Line
<1>1. /\ \A n \in Nodes : nodePc[n] = "end"
      /\ cut = "end" /\ chunkCh = <<>>
  BY SwarmAssumption DEF IInv, CoverOK
<1>2. lineNum = NumLines /\ current = <<>>
  BY <1>1 DEF IInv, CoverOK
<1>3. Queued = {} /\ Worked = {} /\ Answered = {}
  BY <1>1, RangeOfEmpty DEF Queued, Worked, Answered, Holding
<1>4. Chunks = Reported \union {<<>>}
  BY <1>2, <1>3 DEF Chunks, Given
<1>5. ASSUME NEW l \in Line PROVE \E c \in Reported : l \in Range(c)
  <2>1. PICK c \in Chunks : l \in Range(c)
    BY <1>2 DEF IInv, CoverOK, Line
  <2>2. QED
    BY <1>4, <2>1, RangeOfEmpty
<1>6. QED
  BY <1>5, CollectedLines DEF IInv

LEMMA ControllerStep ==
  ASSUME IInv, Controller
  PROVE  IInv'
<1>1. /\ ctl = "run"
      /\ UNCHANGED <<cut, lineNum, current, chunkShut, chunkCh, nodePc, nodeChunk, failedChunks,
                     resultShut, interrupted>>
  BY DEF Controller, cutVars, nodeVars
<1>2. ChunkerOK' /\ NodesOK'
  BY <1>1 DEF IInv, ChunkerOK, NodesOK
<1>3. CASE /\ resultCh # <<>>
           /\ collected' = Append(collected, Head(resultCh)) /\ resultCh' = Tail(resultCh)
           /\ UNCHANGED <<errCh, ctl, cancelled>>
  <2> DEFINE c == Head(resultCh)
  <2>1. /\ resultCh \in Seq(Seq(Line)) /\ Once(resultCh) /\ Len(resultCh) \in Nat
        /\ NodeCap \in Nat /\ Len(resultCh) <= NodeCap
        /\ collected \in Seq(Seq(Line)) /\ Once(collected)
    BY NodeCapType DEF IInv, ChannelsOK, PlacesOK
  <2>2. /\ c \in Seq(Line) /\ resultCh' \in Seq(Seq(Line)) /\ Len(resultCh') = Len(resultCh) - 1
        /\ Once(resultCh') /\ c \in Answered /\ Answered' = Answered \ {c}
    BY <1>3, <2>1, RangeOfTail DEF Answered
  <2>3. c \notin Reported /\ c \notin Queued /\ c \notin Worked
    BY <2>2 DEF IInv, PlacesOK
  <2>4. collected' \in Seq(Seq(Line)) /\ Once(collected') /\ Reported' = Reported \union {c}
    BY <1>3, <2>1, <2>2, <2>3, RangeOfAppend DEF Reported
  <2>5. /\ Queued' = Queued /\ Worked' = Worked
        /\ \A n \in Nodes : Holding(n)' = Holding(n)
    BY <1>1 DEF Queued, Worked, Holding
  <2>6. ChannelsOK' /\ FlagsOK'
    BY <1>1, <1>3, <2>1, <2>2, <2>4 DEF IInv, ChannelsOK, FlagsOK
  <2>7. PlacesOK'
    <3>1. \A m, n \in Nodes : Holding(m)' /\ Holding(n)' /\ nodeChunk'[m] = nodeChunk'[n] => m = n
      BY <1>1, <2>5 DEF IInv, PlacesOK
    <3>2. Once(chunkCh')
      BY <1>1 DEF IInv, PlacesOK
    <3>3. /\ Queued' \intersect Worked' = {} /\ Queued' \intersect Answered' = {}
          /\ Queued' \intersect Reported' = {} /\ Worked' \intersect Answered' = {}
          /\ Worked' \intersect Reported' = {} /\ Answered' \intersect Reported' = {}
      BY <2>2, <2>3, <2>4, <2>5 DEF IInv, PlacesOK
    <3>4. QED
      BY <2>2, <2>4, <3>1, <3>2, <3>3 DEF PlacesOK, Once
  <2>8. Given' = Given /\ Chunks' = Chunks
    BY <1>1, <2>2, <2>4, <2>5 DEF Given, Chunks
  <2>9. ContentOK'
    BY <1>1, <2>8, ContentSame DEF IInv, ContentOK
  <2>10. CoverOK'
    <3>1. Smooth' = Smooth
      BY <1>1, <1>3 DEF Smooth
    <3>2. Smooth' => \A l \in (StartLine + 1)..lineNum' : \E d \in Chunks' : l \in Range(d)
      BY <1>1, <2>8, <3>1, CoveredStill DEF IInv
    <3>3. QED
      BY <1>1, <1>3, <3>1, <3>2 DEF IInv, CoverOK
  <2>11. SwarmLossExplained'
    BY <1>1, <1>3 DEF SwarmLossExplained
  <2>12. QED
    BY <1>2, <2>6, <2>7, <2>9, <2>10, <2>11 DEF IInv
<1>4. CASE /\ UNCHANGED <<resultCh, collected>> /\ ctl' \in {"ok", "error", "cancelled"}
           /\ errCh' \in {{}, errCh} /\ cancelled' \in {TRUE, cancelled}
           /\ ctl' = "ok" => resultCh = <<>> /\ resultShut /\ errCh' = errCh
  <2>1. ChannelsOK' /\ FlagsOK'
    BY <1>1, <1>4 DEF IInv, ChannelsOK, FlagsOK
  <2>2. PlacesOK' /\ Given' = Given /\ Chunks' = Chunks
    BY <1>1, <1>4, PlacesSame DEF IInv, Chunks
  <2>3. ContentOK'
    BY <1>1, <2>2, ContentSame DEF IInv, ContentOK
  <2>4. CoverOK'
    BY <1>1, <1>4 DEF IInv, CoverOK, Smooth
  <2>5. SwarmLossExplained'
    <3> SUFFICES ASSUME ctl' = "ok", failedChunks' = {}, errCh' = {}, ~interrupted'
                 PROVE  Collected' = Line
      BY DEF SwarmLossExplained, Line
    <3>1. Smooth /\ errCh = {} /\ resultCh = <<>> /\ resultShut
      BY <1>1, <1>4 DEF Smooth
    <3>2. Collected' = Collected
      BY <1>4 DEF Collected
    <3>3. QED
      BY <3>1, <3>2, SuccessIsComplete
  <2>6. QED
    BY <1>2, <2>1, <2>2, <2>3, <2>4, <2>5 DEF IInv
<1>5. QED
  BY <1>3, <1>4 DEF Controller

LEMMA InterruptStep ==
  ASSUME IInv, Interrupt
  PROVE  IInv'
<1>1. /\ ctl = "run" /\ cancelled' = TRUE /\ interrupted' = TRUE
      /\ UNCHANGED <<cut, lineNum, current, chunkShut, chunkCh, nodePc, nodeChunk, failedChunks,
                     resultCh, resultShut, errCh, ctl, collected>>
  BY DEF Interrupt, cutVars, nodeVars
<1>2. ChunkerOK' /\ ChannelsOK' /\ NodesOK' /\ FlagsOK' /\ SwarmLossExplained'
  BY <1>1, LossSame DEF IInv, ChunkerOK, ChannelsOK, NodesOK, FlagsOK
<1>3. PlacesOK' /\ Given' = Given /\ Chunks' = Chunks
  BY <1>1, PlacesSame DEF IInv, Chunks
<1>4. ContentOK'
  BY <1>1, <1>3, ContentSame DEF IInv, ContentOK
<1>5. CoverOK'
  BY <1>1 DEF IInv, CoverOK, Smooth
<1>6. QED
  BY <1>2, <1>3, <1>4, <1>5 DEF IInv

-----------------------------------------------------------------------------
LEMMA IInvStep == IInv /\ [SwarmNext]_swarmVars => IInv'
<1>1. ASSUME IInv, UNCHANGED swarmVars
      PROVE  IInv'
  <2>1. ChunkerOK' /\ ChannelsOK' /\ NodesOK' /\ FlagsOK' /\ SwarmLossExplained'
    BY <1>1, LossSame DEF swarmVars, IInv, ChunkerOK, ChannelsOK, NodesOK, FlagsOK
  <2>2. PlacesOK' /\ Given' = Given /\ Chunks' = Chunks /\ Smooth' = Smooth
    BY <1>1, PlacesSame DEF swarmVars, IInv, Chunks, Smooth
  <2>3. ContentOK'
    BY <1>1, <2>2, ContentSame DEF swarmVars, IInv, ContentOK
  <2>4. CoverOK'
    BY <1>1, <2>2 DEF swarmVars, IInv, CoverOK
  <2>5. QED
    BY <2>1, <2>2, <2>3, <2>4 DEF IInv
<1>2. ASSUME IInv, NEW n \in Nodes, Node(n) \/ InvokeHangs(n)
      PROVE  IInv'
  BY <1>2, NodeTakeStep, InvokeStep, InvokeHangsStep, NodeFailStep, NodeSendStep DEF Node
<1>3. QED
  BY <1>1, <1>2, ChunkReadStep, ChunkSendStep, CloserStep, ControllerStep, InterruptStep
     DEF SwarmNext

LEMMA IInvImpliesSound == IInv => SwarmSound
<1> SUFFICES ASSUME IInv PROVE SwarmSound
  OBVIOUS
<1>1. SwarmTypeOK
  <2>1. Cardinality({}) = 0 /\ Cardinality({"scan"}) = 1 /\ Cardinality({"chunk"}) = 1
    BY FS_EmptySet, FS_Singleton
  <2>2. errCh = {} \/ errCh = {"scan"} \/ errCh = {"chunk"}
    BY DEF IInv, FlagsOK
  <2>3. Cardinality(errCh) \in {0, 1}
    BY <2>1, <2>2
  <2>4. Cardinality(errCh) <= 1
    BY <2>3
  <2>5. QED
    BY <2>4 DEF IInv, ChannelsOK, NodesOK, SwarmTypeOK
<1>2. SwarmLinesOnce
  <2>1. ASSUME NEW i \in DOMAIN collected, NEW j \in DOMAIN collected, i # j
        PROVE  Range(collected[i]) \intersect Range(collected[j]) = {}
    <3>1. collected[i] # collected[j]
      BY <2>1 DEF IInv, PlacesOK, Once
    <3>2. collected[i] \in Chunks /\ collected[j] \in Chunks
      BY DEF Chunks, Given, Reported, Range
    <3>3. QED
      BY <3>1, <3>2 DEF IInv, ContentOK, Apart
  <2>2. \A l \in Collected : l > StartLine
    BY CollectedLines, SwarmAssumption DEF IInv, Line
  <2>3. QED
    BY <2>1, <2>2 DEF SwarmLinesOnce
<1>3. QED
  BY <1>1, <1>2 DEF IInv, SwarmSound

(* Every run of the controller keeps the inductive invariant.                *)
THEOREM SwarmInvariant == SwarmSafety => []IInv
  BY IInvInit, IInvStep, PTL DEF SwarmSafety

(* Whatever nodes fail, whenever the user interrupts and whichever ready     *)
(* case each select takes, no line of the list is reported twice, and a      *)
(* success that no failure or interrupt explains has every line from the     *)
(* start line on (cmd/dirfuzz/swarm.go:252-356).                             *)
THEOREM SwarmIsSound == SwarmSafety => []SwarmSound
  BY SwarmInvariant, IInvImpliesSound, PTL
=============================================================================

------------------------------ MODULE TuiList ------------------------------
(* The result list of the terminal screen (pkg/tui): the lines and hits it    *)
(* keeps up to a limit, the two indexes that merge a repeated finding into    *)
(* its line when history is appended, the marks of the analyst and their side *)
(* file, the anomaly filter, the cursor and the scrolled window.              *)
(* Indexes count from zero as in the code; bubbletea runs Update one message  *)
(* at a time, so a message is one action.                                     *)
EXTENDS Integers, Sequences, FiniteSets, Functions, SequencesExt

CONSTANTS Keys,          \* identities of findings: method and target
          OddKeys,       \* findings that are anomalous by themselves
          NoHit,         \* the identity of a line without a finding
          MaxLogEntries, \* lines, and hits, the screen keeps
          Height,        \* lines the window shows
          MaxResults     \* bound: messages that add a line

ASSUME ListAssumption ==
    /\ IsFiniteSet(Keys) /\ NoHit \notin Keys
    /\ MaxLogEntries \in Nat \ {0} /\ Height \in Nat \ {0} /\ MaxResults \in Nat

VARIABLES view, logs, hits, logIndexByKey, hitIndexByKey, markedHitKeys,
          selectedIndex, listScrollIdx, atBottom, anomalyFilterOnly,
          logsChanged, appendMode, uiFile, uiStateDirty, received, slipped

listVars == <<view, logs, hits, logIndexByKey, hitIndexByKey, markedHitKeys,
              selectedIndex, listScrollIdx, atBottom, anomalyFilterOnly,
              logsChanged, appendMode, uiFile, uiStateDirty, received, slipped>>

Line == [key : Keys \cup {NoHit}, marked : BOOLEAN]
Hit == [key : Keys, marked : BOOLEAN]

Higher(a, b) == IF a > b THEN a ELSE b
Lower(a, b) == IF a < b THEN a ELSE b

ListInit ==
    /\ view = "list" /\ logs = <<>> /\ hits = <<>>
    /\ logIndexByKey = <<>> /\ hitIndexByKey = <<>> /\ markedHitKeys = {}
    /\ selectedIndex = 0 /\ listScrollIdx = 0 /\ atBottom = TRUE
    /\ anomalyFilterOnly = FALSE /\ logsChanged = FALSE
    /\ appendMode \in BOOLEAN
    /\ uiFile = [marks |-> {}, only |-> FALSE] /\ uiStateDirty = FALSE
    /\ received = 0 /\ slipped = FALSE

----------------------------------------------------------------------------
(* What the window shows.                                                     *)

isAnomalousHit(l) == l.key # NoHit /\ (l.marked \/ l.key \in OddKeys)

\* The indexes of the lines that are shown, as a set: the screen has them in
\* ascending order, so that the position of one is the number of smaller ones.
visibleListIndexes(ls, only) == {i \in 0 .. Len(ls) - 1 : ~only \/ isAnomalousHit(ls[i + 1])}
PosIn(vis, i) == Cardinality({j \in vis : j < i})
AtPos(vis, pos) == CHOOSE i \in vis : PosIn(vis, i) = pos

selectedVisiblePos(vis, sel) == IF sel \in vis THEN PosIn(vis, sel) ELSE -1

\* The cursor after normalisation: where it is, or the first line shown.
normalizeVisibleSelection(vis, cur) ==
    IF vis = {} THEN [sel |-> 0, pos |-> -1, scroll |-> 0, bottom |-> TRUE]
    ELSE IF selectedVisiblePos(vis, cur.sel) >= 0
         THEN [cur EXCEPT !.pos = selectedVisiblePos(vis, cur.sel)]
         ELSE [sel |-> AtPos(vis, 0), pos |-> 0, scroll |-> 0, bottom |-> Cardinality(vis) = 1]

\* The window moves so that position cur.pos lies inside it.
syncVisibleScroll(vis, cur) ==
    LET maxScroll == Higher(0, Cardinality(vis) - Height)
        clamped == Higher(0, Lower(cur.scroll, maxScroll))
        reached == IF cur.pos < clamped THEN cur.pos
                   ELSE IF cur.pos >= clamped + Height THEN cur.pos - Height + 1
                   ELSE clamped
    IN  [cur EXCEPT !.scroll = Higher(0, Lower(reached, maxScroll)),
                    !.bottom = cur.pos = Cardinality(vis) - 1]

Cursor == [sel |-> selectedIndex, pos |-> -1, scroll |-> listScrollIdx, bottom |-> atBottom]

SetCursor(cur) ==
    /\ selectedIndex' = cur.sel
    /\ listScrollIdx' = cur.scroll
    /\ atBottom' = cur.bottom

\* renderListView over the lines ls: an empty list leaves the cursor alone.
Rendered(ls, only, cur) ==
    LET vis == visibleListIndexes(ls, only)
        norm == normalizeVisibleSelection(vis, cur)
    IN  IF ls = <<>> THEN cur
        ELSE IF vis = {} THEN norm ELSE syncVisibleScroll(vis, norm)

renderListView(ls, only, cur) == SetCursor(Rendered(ls, only, cur))

----------------------------------------------------------------------------
(* Adding a line.                                                             *)

applyMarkedHit(k) == [key |-> k, marked |-> k \in markedHitKeys]

\* Mutation: the keys of the remaining lines keep their old positions.
decrementIndexesForgets(index, oldest) == Restrict(index, DOMAIN index \ {oldest})

\* The indexes after the oldest of ls went: its own key and stale zeroes are
\* dropped, the others move down.
decrementIndexes(index, oldest) ==
    LET kept == {k \in DOMAIN index : k # oldest /\ index[k] > 0}
    IN  [k \in kept |-> index[k] - 1]

Full(s) == Len(s) >= MaxLogEntries
Trim(s) == IF Full(s) THEN Tail(s) ELSE s
Added(s, line) == Append(Trim(s), line)

\* The index of s after a finding was added to s.
AddedIndex(index, s, key) ==
    LET moved == IF Full(s) THEN decrementIndexes(index, s[1].key) ELSE index
    IN  [k \in DOMAIN moved \cup {key} |-> IF k = key THEN Len(Trim(s)) ELSE moved[k]]

\* The cursor after the oldest line went.
Shifted == [Cursor EXCEPT !.sel = Higher(0, @ - 1), !.scroll = Higher(0, @ - 1)]

\* The cursor after a line was added to ls: it stays at the end if it was there.
Followed(ls, cur) ==
    IF ~cur.bottom THEN cur
    ELSE [cur EXCEPT !.sel = Len(ls) - 1, !.scroll = Higher(0, Len(ls) - Height)]

Grows == received < MaxResults /\ received' = received + 1

\* A line without a finding, or any line when history is not appended: the
\* indexes are not touched, not even when the oldest line goes.
appendLog(line) ==
    /\ logs' = Added(logs, line)
    /\ hits' = IF line.key = NoHit THEN hits ELSE Added(hits, line)
    /\ SetCursor(Followed(Added(logs, line), IF Full(logs) THEN Shifted ELSE Cursor))
    /\ slipped' = (slipped \/ (appendMode /\ Full(logs)))
    /\ UNCHANGED <<logIndexByKey, hitIndexByKey>>

\* A finding whose key is indexed replaces its line and its hit.
Merge(hit, at) ==
    /\ logs' = [logs EXCEPT ![at + 1] = hit]
    /\ IF hit.key \in DOMAIN hitIndexByKey /\ hitIndexByKey[hit.key] < Len(hits)
       THEN /\ hits' = [hits EXCEPT ![hitIndexByKey[hit.key] + 1] = hit]
            /\ UNCHANGED hitIndexByKey
       ELSE /\ hits' = Added(hits, hit)
            /\ hitIndexByKey' = AddedIndex(hitIndexByKey, hits, hit.key)
    /\ SetCursor(Cursor)
    /\ UNCHANGED <<logIndexByKey, slipped>>

\* A finding that is not indexed gets a new line and a new hit.
Extend(hit) ==
    /\ logs' = Added(logs, hit) /\ hits' = Added(hits, hit)
    /\ logIndexByKey' = AddedIndex(logIndexByKey, logs, hit.key)
    /\ hitIndexByKey' = AddedIndex(hitIndexByKey, hits, hit.key)
    /\ SetCursor(Followed(Added(logs, hit), IF Full(logs) THEN Shifted ELSE Cursor))
    /\ UNCHANGED slipped

upsertHistoryHit(hit) ==
    IF hit.key \in DOMAIN logIndexByKey /\ logIndexByKey[hit.key] < Len(logs)
    THEN Merge(hit, logIndexByKey[hit.key])
    ELSE Extend(hit)

\* ResultMsg with a finding.
ResultMsg(k) ==
    /\ Grows
    /\ IF appendMode THEN upsertHistoryHit(applyMarkedHit(k))
                     ELSE appendLog(applyMarkedHit(k))
    /\ logsChanged' = TRUE
    /\ UNCHANGED <<view, markedHitKeys, anomalyFilterOnly, appendMode,
                   uiFile, uiStateDirty>>

\* ResultMsg of the auto-filter: a line without a finding.
AutoFilterMsg ==
    /\ Grows
    /\ appendLog([key |-> NoHit, marked |-> FALSE])
    /\ logsChanged' = TRUE
    /\ UNCHANGED <<view, markedHitKeys, anomalyFilterOnly, appendMode,
                   uiFile, uiStateDirty>>

----------------------------------------------------------------------------
(* Keys, commands, ticks and the side file.                                   *)

Bound == UNCHANGED <<appendMode, received, slipped>>

moveListSelection(delta) ==
    /\ view = "list"
    /\ LET vis == visibleListIndexes(logs, anomalyFilterOnly)
           norm == normalizeVisibleSelection(vis, Cursor)
           pos == Higher(0, Lower(norm.pos + delta, Cardinality(vis) - 1))
           moved == syncVisibleScroll(vis, [norm EXCEPT !.sel = AtPos(vis, pos), !.pos = pos])
       IN  IF vis = {} THEN renderListView(logs, anomalyFilterOnly, norm)
           ELSE renderListView(logs, anomalyFilterOnly, moved)
    /\ Bound
    /\ UNCHANGED <<view, logs, hits, logIndexByKey, hitIndexByKey, markedHitKeys,
                   anomalyFilterOnly, logsChanged, uiFile, uiStateDirty>>

SelectedHit == selectedIndex < Len(logs) /\ logs[selectedIndex + 1].key # NoHit

Remarked(s, marks) ==
    [i \in DOMAIN s |-> IF s[i].key = NoHit THEN s[i]
                        ELSE [s[i] EXCEPT !.marked = s[i].key \in marks]]

\* t, :mark and :unmark: the key is marked or not, and every line and hit that
\* carries it follows.
setMarkedHitByKey(key, marked) ==
    LET marks == IF marked THEN markedHitKeys \cup {key} ELSE markedHitKeys \ {key}
        ls == Remarked(logs, marks)
    IN  /\ markedHitKeys' = marks
        /\ logs' = ls
        /\ hits' = Remarked(hits, marks)
        /\ IF view = "list" THEN renderListView(ls, anomalyFilterOnly, Cursor)
           ELSE SetCursor(Cursor)

toggleSelectedHitMarked ==
    /\ view \in {"list", "detail"} /\ SelectedHit
    /\ LET line == logs[selectedIndex + 1]
       IN  setMarkedHitByKey(line.key, ~line.marked)
    /\ logsChanged' = TRUE
    /\ uiStateDirty' = appendMode
    /\ Bound
    /\ UNCHANGED <<view, logIndexByKey, hitIndexByKey, anomalyFilterOnly, uiFile>>

setAnomalyFilterOnly ==
    /\ view \in {"list", "detail"}
    /\ anomalyFilterOnly' = ~anomalyFilterOnly
    /\ renderListView(logs, ~anomalyFilterOnly, [Cursor EXCEPT !.scroll = 0])
    /\ uiStateDirty' = appendMode
    /\ Bound
    /\ UNCHANGED <<view, logs, hits, logIndexByKey, hitIndexByKey, markedHitKeys,
                   logsChanged, uiFile>>

\* Enter opens the detail of the finding under the cursor.
OpenDetail ==
    /\ view = "list" /\ SelectedHit
    /\ view' = "detail"
    /\ Bound
    /\ UNCHANGED <<logs, hits, logIndexByKey, hitIndexByKey, markedHitKeys, selectedIndex,
                   listScrollIdx, atBottom, anomalyFilterOnly, logsChanged, uiFile, uiStateDirty>>

\* q and esc.
BackToList ==
    /\ view # "list"
    /\ view' = "list"
    /\ renderListView(logs, anomalyFilterOnly, Cursor)
    /\ Bound
    /\ UNCHANGED <<logs, hits, logIndexByKey, hitIndexByKey, markedHitKeys,
                   anomalyFilterOnly, logsChanged, uiFile, uiStateDirty>>

\* :clear, and :restart when history is not appended.
clearScanLogs ==
    /\ view = "list"
    /\ logs' = <<>> /\ hits' = <<>> /\ logIndexByKey' = <<>> /\ hitIndexByKey' = <<>>
    /\ SetCursor([sel |-> 0, pos |-> -1, scroll |-> 0, bottom |-> TRUE])
    /\ Bound
    /\ UNCHANGED <<view, markedHitKeys, anomalyFilterOnly, logsChanged,
                   uiFile, uiStateDirty>>

FlushPersistedUIState ==
    /\ uiFile' = IF appendMode THEN [marks |-> markedHitKeys, only |-> anomalyFilterOnly] ELSE uiFile
    /\ uiStateDirty' = FALSE

\* TickMsg: the side file is saved once the screen rested, a changed list is
\* drawn again whichever view is open.
TickMsg ==
    /\ logsChanged \/ uiStateDirty
    /\ logsChanged' = FALSE
    /\ IF logsChanged THEN renderListView(logs, anomalyFilterOnly, Cursor) ELSE SetCursor(Cursor)
    /\ \/ FlushPersistedUIState /\ uiStateDirty
       \/ UNCHANGED <<uiFile, uiStateDirty>>
    /\ Bound
    /\ UNCHANGED <<view, logs, hits, logIndexByKey, hitIndexByKey, markedHitKeys,
                   anomalyFilterOnly>>

\* The program ends, cleanly or not, and starts again over the same output
\* file: the findings of the ledger are merged in, then the side file is read.
LoadPersisted(ks, clean) ==
    /\ appendMode /\ Grows
    /\ LET file == IF clean THEN [marks |-> markedHitKeys, only |-> anomalyFilterOnly] ELSE uiFile
           ls == [i \in DOMAIN ks |-> [key |-> ks[i], marked |-> ks[i] \in file.marks]]
           index == [k \in Range(ks) |-> CHOOSE i \in 0 .. Len(ks) - 1 : ks[i + 1] = k]
           start == Followed(ls, [sel |-> 0, pos |-> -1, scroll |-> 0, bottom |-> TRUE])
       IN  /\ uiFile' = file
           /\ markedHitKeys' = file.marks
           /\ anomalyFilterOnly' = file.only
           /\ logs' = ls /\ hits' = ls
           /\ logIndexByKey' = index /\ hitIndexByKey' = index
           /\ renderListView(ls, FALSE, start)
    /\ view' = "list"
    /\ logsChanged' = TRUE /\ uiStateDirty' = FALSE /\ slipped' = FALSE
    /\ UNCHANGED appendMode

\* The ledger holds what was found, each finding once after the merge.
Ledgers == {ks \in SeqOf(Keys, Lower(MaxLogEntries, Cardinality(Keys))) :
                ks # <<>> /\ \A i, j \in DOMAIN ks : ks[i] = ks[j] => i = j}

ListNext ==
    \/ \E k \in Keys : ResultMsg(k)
    \/ AutoFilterMsg
    \/ \E delta \in {-1, 1, -Height, Height} : moveListSelection(delta)
    \/ toggleSelectedHitMarked \/ setAnomalyFilterOnly
    \/ OpenDetail \/ BackToList \/ clearScanLogs \/ TickMsg
    \/ \E ks \in Ledgers, clean \in BOOLEAN : LoadPersisted(ks, clean)

----------------------------------------------------------------------------

\* The lists respect their limit and the fields have their types.
ListTypeOK ==
    /\ view \in {"list", "detail"}
    /\ logs \in Seq(Line) /\ Len(logs) <= MaxLogEntries
    /\ hits \in Seq(Hit) /\ Len(hits) <= MaxLogEntries
    /\ DOMAIN logIndexByKey \subseteq Keys /\ DOMAIN hitIndexByKey \subseteq Keys
    /\ markedHitKeys \subseteq Keys /\ uiFile.marks \subseteq Keys
    /\ {atBottom, anomalyFilterOnly, logsChanged, appendMode, uiStateDirty, slipped} \subseteq BOOLEAN
    /\ received \in 0 .. MaxResults

\* The cursor names a line whenever there is one, through trimming, merging,
\* filtering and clearing; and once the list is drawn, the line under the
\* cursor is one the filter shows and lies inside the window (Update indexes
\* logLineHits by the cursor; syncVisibleScroll).
ListCursorValid ==
    LET vis == visibleListIndexes(logs, anomalyFilterOnly)
        pos == selectedVisiblePos(vis, selectedIndex)
    IN  /\ logs # <<>> => selectedIndex \in 0 .. Len(logs) - 1
        /\ (view = "list" /\ ~logsChanged /\ vis # {}) =>
               pos >= listScrollIdx /\ pos < listScrollIdx + Height

\* A mark belongs to the finding, not to a line: every line and every hit of a
\* marked key is marked and no other is, however often the finding is seen
\* again, trimmed, merged or reloaded (applyMarkedHit, setMarkedHitByKey).
ListMarksAgree ==
    /\ \A i \in DOMAIN logs : logs[i].key # NoHit =>
           (logs[i].marked <=> logs[i].key \in markedHitKeys)
    /\ \A i \in DOMAIN hits : hits[i].marked <=> hits[i].key \in markedHitKeys

\* With history appended the index of the hits names a hit of the same finding,
\* so that a merge replaces no other; and a finding has at most one line, which
\* the index names (upsertHistoryHit) -- as long as no line without a finding
\* pushed the oldest line out, which moves the lines and not the index. A
\* finding whose line was pushed out by others while its hit is still kept is a
\* new one: then the hits hold it twice, and the index names the newer.
ListMergesByIdentity ==
    appendMode =>
        /\ \A k \in DOMAIN hitIndexByKey :
               hitIndexByKey[k] < Len(hits) /\ hits[hitIndexByKey[k] + 1].key = k
        /\ \A i \in DOMAIN logs : ~slipped /\ logs[i].key # NoHit =>
               logs[i].key \in DOMAIN logIndexByKey /\ logIndexByKey[logs[i].key] = i - 1

\* While nothing is waiting to be saved, the side file holds the marks and the
\* filter of the screen: no change of them forgets to ask for a save
\* (markUIStateDirty, FlushPersistedUIState, LoadPersistedUIState).
ListFlushed ==
    (appendMode /\ ~uiStateDirty) =>
        uiFile = [marks |-> markedHitKeys, only |-> anomalyFilterOnly]

\* The list shows its cursor, marks follow findings, repeated findings are
\* merged into their own places, and the side file is up to date.
ListSound ==
    ListTypeOK /\ ListCursorValid /\ ListMarksAgree /\ ListMergesByIdentity /\ ListFlushed

\* The change log of 2026-05-26: append-mode history merges "repeated findings
\* by endpoint identity so the visible list updates to the latest snapshot
\* instead of duplicating every rediscovery".
ListNoDuplicates ==
    appendMode =>
        \A i, j \in DOMAIN logs : logs[i].key = logs[j].key /\ logs[i].key # NoHit => i = j
=============================================================================

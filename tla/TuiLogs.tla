------------------------------ MODULE TuiLogs ------------------------------
(* The system-log panel of the terminal screen (pkg/tui): a ring of the last  *)
(* events, level filters and a search term over it, a cursor, a window that   *)
(* follows the end or the cursor, and a cache of the drawn panel.             *)
(* Entries are numbered in order of arrival; indexes count from zero.         *)
EXTENDS Integers, Sequences, FiniteSets

CONSTANTS Levels,      \* levels an event can have
          LogCapacity, \* entries the ring keeps
          LogHeight,   \* lines the window shows
          MaxEvents    \* bound: events in one run

ASSUME LogsAssumption ==
    LogCapacity \in Nat \ {0} /\ LogHeight \in Nat \ {0} /\ MaxEvents \in Nat

VARIABLES ring,        \* systemLogRingBuffer: entries, start, size
          logged,      \* every event since the last reset, for the properties
          panel,       \* filters, search, details, cursor and window
          panelDirty, panelCache

logVars == <<ring, logged, panel, panelDirty, panelCache>>

Blank == [n |-> 0, level |-> "none", found |-> FALSE]
EmptyRing == [entries |-> [i \in 0 .. LogCapacity - 1 |-> Blank], start |-> 0, size |-> 0]
NoPanel == [key |-> <<>>, lines |-> <<>>]
FreshPanel(filters) == [filters |-> filters, search |-> FALSE, expanded |-> FALSE,
                        sel |-> 0, scroll |-> 0, auto |-> TRUE]

LogsInit ==
    /\ ring = EmptyRing /\ logged = <<>>
    /\ panel = FreshPanel(Levels) /\ panelDirty = FALSE /\ panelCache = NoPanel

\* Mutation: a full ring overwrites its oldest entry and keeps its start.
ringAppendStays(r, e) ==
    IF r.size < LogCapacity
    THEN [r EXCEPT !.entries[(r.start + r.size) % LogCapacity] = e, !.size = @ + 1]
    ELSE [r EXCEPT !.entries[r.start] = e]

ringAppend(r, e) ==
    IF r.size < LogCapacity
    THEN [r EXCEPT !.entries[(r.start + r.size) % LogCapacity] = e, !.size = @ + 1]
    ELSE [r EXCEPT !.entries[r.start] = e, !.start = (@ + 1) % LogCapacity]

ringSnapshot(r) == [i \in 1 .. r.size |-> r.entries[(r.start + i - 1) % LogCapacity]]

\* What the filters and the search term of p let through, oldest first.
Shown(filters, search) ==
    {i \in 1 .. ring.size : LET e == ringSnapshot(ring)[i]
                            IN  e.level \in filters /\ (search => e.found)}
Nth(S, k) == CHOOSE i \in S : Cardinality({j \in S : j <= i}) = k
visibleSystemLogEntries(p) ==
    LET at == Shown(p.filters, p.search)
    IN  [k \in 1 .. Cardinality(at) |-> ringSnapshot(ring)[Nth(at, k)]]

BiggerOf(a, b) == IF a > b THEN a ELSE b
SmallerOf(a, b) == IF a < b THEN a ELSE b

\* Lines of the panel: an entry takes two when details are expanded, and an
\* empty panel says so in one.
LinesPerEntry(p) == IF p.expanded THEN 2 ELSE 1
PanelLines(p) ==
    LET es == visibleSystemLogEntries(p)
    IN  IF es = <<>> THEN <<0>>
        ELSE [i \in 1 .. Len(es) * LinesPerEntry(p) |-> es[(i - 1) \div LinesPerEntry(p) + 1].n]

Window(p) == SubSeq(PanelLines(p), p.scroll + 1, SmallerOf(p.scroll + LogHeight, Len(PanelLines(p))))

\* The first line of a window that has the cursor's line in it.
FollowCursor(line, first) ==
    IF line < first THEN line
    ELSE IF line >= first + LogHeight THEN line - LogHeight + 1 ELSE first

\* The panel after drawing: the window is put in range, the cursor too, and the
\* window follows the cursor.
Settled(p) ==
    LET maxOffset == BiggerOf(0, Len(PanelLines(p)) - LogHeight)
        atEnd == p.auto \/ p.scroll > maxOffset
        first == IF atEnd THEN maxOffset ELSE p.scroll
        es == visibleSystemLogEntries(p)
        cursor == SmallerOf(p.sel, Len(es) - 1)
    IN  IF es = <<>> THEN [p EXCEPT !.auto = atEnd, !.scroll = first]
        ELSE [p EXCEPT !.auto = atEnd, !.sel = cursor,
                       !.scroll = SmallerOf(maxOffset, FollowCursor(cursor * LinesPerEntry(p), first))]

CacheKey(p) == <<p.scroll, Len(PanelLines(p)), p.filters, p.search, p.expanded>>

\* renderLogsPanel of the panel p: the cache serves if nothing marked the panel
\* dirty and the key is the same.
renderLogsPanel(p, dirty) ==
    LET q == Settled(p)
    IN  /\ panel' = q
        /\ panelDirty' = FALSE
        /\ panelCache' = IF ~dirty /\ panelCache.key = CacheKey(q) THEN panelCache
                         ELSE [key |-> CacheKey(q), lines |-> Window(q)]

Logged(level, found) ==
    LET e == [n |-> Len(logged) + 1, level |-> level, found |-> found]
    IN  /\ Len(logged) < MaxEvents
        /\ ring' = ringAppend(ring, e)
        /\ logged' = Append(logged, e)
        /\ UNCHANGED <<panel, panelCache>>

\* LogEventMsg.
appendSystemLog(level, found) == Logged(level, found) /\ panelDirty' = TRUE

\* Up, down, page up and page down in the panel.
moveLogSelection(delta) ==
    LET es == visibleSystemLogEntries(panel)
    IN  /\ IF es = <<>>
           THEN panel' = [panel EXCEPT !.sel = 0, !.scroll = 0] /\ UNCHANGED panelDirty
           ELSE /\ panel' = [panel EXCEPT !.sel = BiggerOf(0, SmallerOf(@ + delta, Len(es) - 1)),
                                         !.auto = FALSE]
                /\ panelDirty' = TRUE
        /\ UNCHANGED <<ring, logged, panelCache>>

\* :logs filter and x change the panel and draw it at once.
Redraws(p) == renderLogsPanel(p, TRUE) /\ UNCHANGED <<ring, logged>>

FilterLogs(level) ==
    Redraws([panel EXCEPT !.filters = IF level \in @ THEN @ \ {level} ELSE @ \cup {level}])

ToggleDetails == Redraws([panel EXCEPT !.expanded = ~@])

\* :logs search; the command line hides the panel until it is drawn.
SearchLogs ==
    /\ panel' = [panel EXCEPT !.search = ~@, !.sel = 0, !.auto = TRUE]
    /\ panelDirty' = TRUE
    /\ UNCHANGED <<ring, logged, panelCache>>

\* L and m open the panel at its end.
OpenPanel ==
    /\ renderLogsPanel([panel EXCEPT !.auto = TRUE, !.scroll = BiggerOf(0, ring.size - LogHeight)],
                       panelDirty)
    /\ UNCHANGED <<ring, logged>>

\* View, and a tick that finds the panel dirty.
Draw == renderLogsPanel(panel, panelDirty) /\ UNCHANGED <<ring, logged>>

\* :clear and :restart empty the ring and the panel; the filters stay.
ResetLogs ==
    /\ logged # <<>>
    /\ ring' = EmptyRing /\ logged' = <<>>
    /\ panel' = FreshPanel(panel.filters) /\ panelDirty' = TRUE /\ panelCache' = NoPanel

LogsNext ==
    \/ \E level \in Levels, found \in BOOLEAN : appendSystemLog(level, found)
    \/ \E delta \in {-1, 1} : moveLogSelection(delta)
    \/ \E level \in Levels : FilterLogs(level)
    \/ SearchLogs \/ ToggleDetails \/ OpenPanel \/ Draw \/ ResetLogs

----------------------------------------------------------------------------

LogsTypeOK ==
    /\ ring.size \in 0 .. LogCapacity /\ ring.start \in 0 .. LogCapacity - 1
    /\ panel.filters \subseteq Levels
    /\ panel.sel \in 0 .. LogCapacity /\ panel.scroll \in 0 .. 2 * LogCapacity
    /\ {panel.search, panel.expanded, panel.auto, panelDirty} \subseteq BOOLEAN

\* The ring holds the newest events, oldest first, however often it wrapped
\* round (systemLogRingBuffer.append and snapshot).
LogRingKeepsNewest ==
    ringSnapshot(ring) = SubSeq(logged, BiggerOf(0, Len(logged) - LogCapacity) + 1, Len(logged))

\* When the cache would serve the panel, it holds the lines a drawing would
\* give: whatever its key does not tell apart has marked the panel dirty
\* (renderLogsPanel, cacheLogPanel, appendSystemLog). The highlight of the
\* cursor's line is not part of it.
LogPanelFresh ==
    (~panelDirty /\ panelCache.key = CacheKey(Settled(panel))) =>
        panelCache.lines = Window(Settled(panel))

\* Until something asks for another drawing, the cursor is one of the entries
\* that are shown and its line is in the window, and Enter acts on an entry
\* that is seen (renderLogsPanel, moveLogSelection, jumpToSelectedLogResult).
LogCursorShown ==
    LET es == visibleSystemLogEntries(panel)
    IN  (~panelDirty /\ panelCache # NoPanel /\ es # <<>>) =>
            /\ panel.sel < Len(es)
            /\ panel.sel * LinesPerEntry(panel) \in panel.scroll .. panel.scroll + LogHeight - 1

\* The log panel shows the newest entries and its cursor, from the cache too.
LogsSound == LogsTypeOK /\ LogRingKeepsNewest /\ LogPanelFresh /\ LogCursorShown
=============================================================================

----------------------------- MODULE TuiScreen -----------------------------
(* Keys and commands of the terminal screen (pkg/tui Update and the command   *)
(* table): which view a key leads to, the command line with its suggestions   *)
(* and history, the diff that needs two samples, and the commands that change *)
(* the engine's settings. Moving about inside a view is left to TuiList,      *)
(* TuiLogs and TuiRepeater.                                                   *)
EXTENDS Integers, FiniteSets

CONSTANTS Settings,     \* settings a command can switch
          MaxCommands,  \* bound: commands remembered in the history
          MaxSuggestions \* bound: suggestions offered at once

ASSUME ScreenAssumption == MaxCommands \in Nat /\ MaxSuggestions \in Nat

VARIABLES scr,          \* what the keys act on
          config,       \* Engine.Config
          snapshot,     \* the immutable copy the workers read
          pendingTarget, scanned

screenVars == <<scr, config, snapshot, pendingTarget, scanned>>

Views == {"list", "dashboard", "logs", "detail", "hex", "diff", "command", "repeater", "graph"}

ScreenInit ==
    /\ scr = [view |-> "list", previous |-> "list", logs |-> FALSE, command |-> FALSE,
              suggestions |-> 0, chosen |-> 0, history |-> 0, recalled |-> 0,
              reference |-> FALSE, current |-> FALSE, quitting |-> FALSE]
    /\ config = [x \in Settings |-> FALSE] /\ snapshot = config
    /\ pendingTarget = FALSE /\ scanned = "old"

----------------------------------------------------------------------------
(* What one key does to s. hit says whether the selected line is a finding    *)
(* with saved bytes.                                                          *)

Pages == {"dashboard", "detail", "hex", "diff"}

KeyQ(s) ==
    IF s.view \in Pages THEN [s EXCEPT !.view = "list"]
    ELSE IF ~s.command THEN [s EXCEPT !.quitting = TRUE] ELSE s

KeyColon(s) ==
    IF s.view = "list" /\ ~s.command
    THEN [s EXCEPT !.command = TRUE, !.view = "command", !.suggestions = 0, !.chosen = 0]
    ELSE s

KeyEsc(s) ==
    IF s.command THEN [s EXCEPT !.command = FALSE, !.view = "list", !.suggestions = 0]
    ELSE IF s.view \in Pages \cup {"repeater"} THEN [s EXCEPT !.view = "list"] ELSE s

toggleDashboardView(s) ==
    [s EXCEPT !.view = IF s.view = "dashboard" THEN "list" ELSE "dashboard"]

toggleLogsPanel(s) ==
    IF ~s.logs
    THEN [s EXCEPT !.logs = TRUE, !.previous = s.view,
                   !.view = IF s.view = "list" THEN "logs" ELSE s.view]
    ELSE [s EXCEPT !.logs = FALSE,
                   !.view = IF s.view # "logs" THEN s.view
                            ELSE IF s.previous = "logs" THEN "list" ELSE s.previous]

\* m
cycleMetricsView(s) ==
    CASE s.view = "list" /\ s.logs -> [s EXCEPT !.logs = FALSE]
      [] s.view = "list" /\ ~s.logs -> [s EXCEPT !.view = "dashboard"]
      [] s.view = "dashboard" -> [s EXCEPT !.logs = TRUE, !.previous = "list", !.view = "logs"]
      [] s.view = "logs" -> [s EXCEPT !.logs = FALSE, !.view = "list"]
      [] OTHER -> toggleDashboardView(s)

\* g
toggleGraphView(s) ==
    IF s.view = "graph" THEN [s EXCEPT !.view = s.previous]
    ELSE [s EXCEPT !.previous = s.view, !.view = "graph"]

\* enter outside the command line; in the logs it jumps to the linked finding.
KeyEnter(s, hit) ==
    CASE s.view = "list" /\ hit -> [s EXCEPT !.view = "detail"]
      [] s.view = "logs" /\ hit -> [s EXCEPT !.view = "list"]
      [] OTHER -> s

OnHit(s) == s.view \in {"list", "detail"}

openHexView(s, hit) == IF OnHit(s) /\ hit THEN [s EXCEPT !.view = "hex"] ELSE s

saveDiffReference(s, hit) == IF OnHit(s) /\ hit THEN [s EXCEPT !.reference = TRUE] ELSE s

\* d: a reference saved before, or the baseline an Eagle finding brings along.
openDiffView(s, hit, baseline) ==
    IF OnHit(s) /\ hit /\ (s.reference \/ baseline)
    THEN [s EXCEPT !.reference = TRUE, !.current = TRUE, !.view = "diff"] ELSE s

openRepeater(s, hit) == IF s.view = "list" /\ hit THEN [s EXCEPT !.view = "repeater"] ELSE s

\* The single keys as a function of the screen; the letters are text while the
\* command line or the repeater is open.
Press(s, key, hit) ==
    IF key = "esc" THEN KeyEsc(s)
    ELSE IF s.command \/ s.view = "repeater" THEN s
    ELSE CASE key = "enter" -> KeyEnter(s, hit)
           [] key = "q" -> KeyQ(s)
           [] key = ":" -> KeyColon(s)
           [] key = "m" -> cycleMetricsView(s)
           [] key = "L" -> toggleLogsPanel(s)
           [] key = "g" -> toggleGraphView(s)
           [] key = "h" -> openHexView(s, hit)
           [] key = "R" -> saveDiffReference(s, hit)
           [] key = "d" -> openDiffView(s, hit, FALSE)
           [] key = "D" -> openDiffView(s, hit, TRUE)
           [] key = "r" -> openRepeater(s, hit)
           [] OTHER -> s

KeySet == {"esc", "enter", "q", ":", "m", "L", "g", "h", "R", "d", "D", "r"}

Key(key, hit) ==
    /\ scr' = Press(scr, key, hit)
    /\ UNCHANGED <<config, snapshot, pendingTarget, scanned>>

----------------------------------------------------------------------------
(* The command line.                                                          *)

\* Typing looks the suggestions up again: any number of names may fit.
updateSuggestions(n) ==
    /\ scr.command
    /\ scr' = [scr EXCEPT !.suggestions = n, !.chosen = IF n = 0 THEN @ ELSE 0]
    /\ UNCHANGED <<config, snapshot, pendingTarget, scanned>>

Forward(s) ==
    IF s.suggestions > 0 THEN [s EXCEPT !.chosen = (@ + 1) % s.suggestions]
    ELSE IF s.recalled < s.history - 1 THEN [s EXCEPT !.recalled = @ + 1] ELSE s

Backward(s) ==
    IF s.suggestions > 0 THEN [s EXCEPT !.chosen = (@ + s.suggestions - 1) % s.suggestions]
    ELSE IF s.recalled > 0 THEN [s EXCEPT !.recalled = @ - 1] ELSE s

\* up and down choose a suggestion, or recall a command.
Arrow ==
    /\ scr.command
    /\ scr' \in {Forward(scr), Backward(scr)}
    /\ UNCHANGED <<config, snapshot, pendingTarget, scanned>>

\* Mutation: the view a handler opened stays while the command line is open.
AfterCommandKeepsView(s) ==
    [s EXCEPT !.history = @ + 1, !.recalled = s.history + 1, !.suggestions = 0, !.chosen = 0,
              !.command = TRUE]

\* After a command, whatever its handler did to the view, the command line is
\* open again and empty.
AfterCommand(s) ==
    [s EXCEPT !.history = @ + 1, !.recalled = s.history + 1, !.suggestions = 0, !.chosen = 0,
              !.command = TRUE, !.view = "command"]

\* :logs search
SearchCommand(s) ==
    IF ~s.logs THEN toggleLogsPanel(s) ELSE [s EXCEPT !.previous = s.view, !.view = "logs"]

executeCommand(effect) ==
    /\ scr.command /\ scr.history < MaxCommands
    /\ scr' = AfterCommand(effect)

ViewCommand ==
    /\ executeCommand(toggleDashboardView(scr)) \/ executeCommand(SearchCommand(scr))
    /\ UNCHANGED <<config, snapshot, pendingTarget, scanned>>

\* :spider, :methods, :fw, :body, :saveraw and their like change a setting under
\* the lock and publish a new copy of all of them.
SettingCommand(x) ==
    /\ executeCommand(scr)
    /\ config' = [config EXCEPT ![x] = ~@]
    /\ snapshot' = config'
    /\ UNCHANGED <<pendingTarget, scanned>>

\* A command whose argument does not parse, or that only shows something.
RefusedCommand == executeCommand(scr) /\ UNCHANGED <<config, snapshot, pendingTarget, scanned>>

\* :changeurl
QueueTarget ==
    /\ executeCommand(scr)
    /\ pendingTarget' = TRUE
    /\ UNCHANGED <<config, snapshot, scanned>>

\* :restart takes the queued target over first; if the target is refused the
\* scan is left alone and the target stays queued.
RestartScan(accepted) ==
    /\ executeCommand(scr)
    /\ IF pendingTarget /\ accepted THEN scanned' = "new" /\ pendingTarget' = FALSE
       ELSE UNCHANGED <<scanned, pendingTarget>>
    /\ UNCHANGED <<config, snapshot>>

ScreenNext ==
    /\ ~scr.quitting
    /\ \/ \E key \in KeySet, hit \in BOOLEAN : Key(key, hit)
       \/ \E n \in 0 .. MaxSuggestions : updateSuggestions(n)
       \/ Arrow \/ ViewCommand \/ RefusedCommand
       \/ \E x \in Settings : SettingCommand(x)
       \/ QueueTarget \/ \E accepted \in BOOLEAN : RestartScan(accepted)

----------------------------------------------------------------------------

ScreenTypeOK ==
    /\ scr.view \in Views /\ scr.previous \in Views
    /\ scr.history \in 0 .. MaxCommands
    /\ scanned \in {"old", "new"} /\ pendingTarget \in BOOLEAN

\* Keys are text exactly while the command line is open: no handler, not even
\* one that opens another view, parts the flag from the view (Update).
ScreenCommandMode == scr.command <=> scr.view = "command"

\* Tab and the arrows index the suggestions and the command history in range,
\* whatever was typed or run in between (Update would panic otherwise).
ScreenIndexSafe ==
    /\ scr.suggestions > 0 => scr.chosen \in 0 .. scr.suggestions - 1
    /\ scr.recalled \in 0 .. scr.history

\* A diff is only shown of two samples (openDiffViewFromSelected, updateDiffView).
ScreenDiffHasBoth == scr.view = "diff" => scr.reference /\ scr.current

\* From wherever the keys have led, at most two keys lead back to the list
\* without ending the program: no view is a dead end (Update, toggleGraphView,
\* toggleLogsPanel, cycleMetricsView).
ScreenWayHome ==
    \E first, second \in KeySet :
        LET once == Press(scr, first, FALSE)
            twice == Press(once, second, FALSE)
        IN  \/ scr.quitting
            \/ ~once.quitting /\ once.view = "list"
            \/ ~once.quitting /\ ~twice.quitting /\ twice.view = "list"

\* The copy the workers read has every change a command made
\* (RefreshConfigSnapshot after every edit of Config).
ScreenSettingsSeen == snapshot = config

\* Keys reach the command line exactly while it is shown, no index leaves its
\* list, no view opens without its data or has no way back, and settings reach
\* the workers.
ScreenSound ==
    /\ ScreenTypeOK /\ ScreenCommandMode /\ ScreenIndexSafe /\ ScreenDiffHasBoth
    /\ ScreenWayHome /\ ScreenSettingsSeen
=============================================================================

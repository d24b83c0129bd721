------------------------------- MODULE McpGate -------------------------------
(* What surrounds every tool of the MCP server (cmd/mcp/main.go,             *)
(* wrapToolHandler): the sliding-window rate limiter, the recovery of a      *)
(* panic and the audit entry.  Calls run concurrently; a call takes its time *)
(* stamp before it gets the limiter's lock.                                  *)
EXTENDS Naturals, Sequences, FiniteSets, SequencesExt

CONSTANTS
    Calls,       \* the calls of one tool
    ToolLimit,   \* rateLimitRule.Limit
    Window,      \* rateLimitRule.Window, in clock ticks
    MaxClock     \* bound on the clock

(* A rule without a limit or a window lets every call pass.                  *)
ASSUME GateAssumption ==
    ToolLimit \in Nat \ {0} /\ Window \in Nat \ {0} /\ MaxClock \in Nat

VARIABLES
    clock,
    gate,      \* per call: "new", "stamped", "handling", or its outcome before the audit, then "over"
    stamp,     \* start of the call
    kept,      \* toolRateLimiter.calls of the tool
    audited,   \* the audit log: <<call, outcome>> in order
    passed,    \* history: calls the limiter let through, in order
    reply      \* what each call answered: "none", "result", "error", "failure"

gateVars == <<clock, gate, stamp, kept, audited, passed, reply>>

Outcomes == {"ok", "tool_error", "handler_error", "rate_limited", "panic"}

GateInit ==
    /\ clock = 0 /\ gate = [c \in Calls |-> "new"] /\ stamp = [c \in Calls |-> 0]
    /\ kept = <<>> /\ audited = <<>> /\ passed = <<>> /\ reply = [c \in Calls |-> "none"]

Tick == clock < MaxClock /\ clock' = clock + 1 /\ UNCHANGED <<gate, stamp, kept, audited, passed, reply>>

Stamp(c) ==
    /\ gate[c] = "new"
    /\ gate' = [gate EXCEPT ![c] = "stamped"] /\ stamp' = [stamp EXCEPT ![c] = clock]
    /\ UNCHANGED <<clock, kept, audited, passed, reply>>

InWindow(at, now) == at + Window > now

(* What sort.Search may return: a place with a stamp in the window and none  *)
(* before it.  In a list that is in order there is one such place.           *)
FirstKept(now) ==
    {k \in 1..(Len(kept) + 1) : /\ k <= Len(kept) => InWindow(kept[k], now)
                                /\ k > 1 => ~InWindow(kept[k - 1], now)}

HasRoomForOneMore(live) == Len(live) <= ToolLimit

HasRoom(live) == Len(live) < ToolLimit

(* allow, and the refusal of a call above the limit.                         *)
Allow(c) ==
    /\ gate[c] = "stamped"
    /\ \E k \in FirstKept(stamp[c]) :
          LET live == SubSeq(kept, k, Len(kept))
          IN  \/ /\ HasRoom(live)
                 /\ kept' = Append(live, stamp[c]) /\ passed' = Append(passed, c)
                 /\ gate' = [gate EXCEPT ![c] = "handling"] /\ UNCHANGED reply
              \/ /\ ~HasRoom(live)
                 /\ kept' = live /\ gate' = [gate EXCEPT ![c] = "rate_limited"]
                 /\ reply' = [reply EXCEPT ![c] = "error"] /\ UNCHANGED passed
    /\ UNCHANGED <<clock, stamp, audited>>

(* The handler returns a result, an error result or an error, or panics.     *)
Handle(c) ==
    /\ gate[c] = "handling"
    /\ \E o \in Outcomes \ {"rate_limited"} :
          /\ gate' = [gate EXCEPT ![c] = o]
          /\ reply' = [reply EXCEPT ![c] = CASE o = "ok" -> "result"
                                             [] o = "handler_error" -> "failure"
                                             [] OTHER -> "error"]
    /\ UNCHANGED <<clock, stamp, kept, audited, passed>>

(* The deferred function writes one line; an error of the file is ignored.   *)
Audit(c) ==
    /\ gate[c] \in Outcomes
    /\ audited' = Append(audited, <<c, gate[c]>>)
    /\ gate' = [gate EXCEPT ![c] = "over"]
    /\ UNCHANGED <<clock, stamp, kept, passed, reply>>

GateNext == Tick \/ \E c \in Calls : Stamp(c) \/ Allow(c) \/ Handle(c) \/ Audit(c)

-----------------------------------------------------------------------------
GateTypeOK ==
    /\ clock \in 0..MaxClock /\ gate \in [Calls -> Outcomes \cup {"new", "stamped", "handling", "over"}]
    /\ stamp \in [Calls -> 0..MaxClock] /\ Len(kept) <= ToolLimit
    /\ ToSet(passed) \subseteq Calls /\ reply \in [Calls -> {"none", "result", "error", "failure"}]

(* The stamps reached the limiter in the order they were taken.              *)
InOrder(calls) == \A i, j \in 1..Len(calls) : i < j => stamp[calls[i]] <= stamp[calls[j]]

WithinWindow(calls) ==
    \A i \in 1..Len(calls) :
        Cardinality({j \in i..Len(calls) : stamp[calls[j]] < stamp[calls[i]] + Window}) <= ToolLimit

(* While the calls reach the limiter in the order of their stamps, no window *)
(* holds more of them than the limit (main.go:114).                          *)
GateWindow == InOrder(passed) => WithinWindow(passed)

(* The limiter never lets more calls through in a window than the limit,     *)
(* whatever order the concurrent calls reach its lock in                     *)
(* (docs/MCP_README.md:14: "each tool call is checked against a              *)
(* sliding-window limiter").                                                 *)
GateWindowAlways ==
    \A c \in ToSet(passed) :
        Cardinality({d \in ToSet(passed) : stamp[d] \in stamp[c]..(stamp[c] + Window - 1)}) <= ToolLimit

(* Every call that is over has exactly one line of audit, and the line says  *)
(* what the call answered (main.go:366).                                     *)
GateAudited ==
    \A c \in Calls :
        LET lines == {i \in 1..Len(audited) : audited[i][1] = c}
        IN /\ Cardinality(lines) = IF gate[c] = "over" THEN 1 ELSE 0
           /\ \A i \in lines :
                 reply[c] = CASE audited[i][2] = "ok" -> "result"
                              [] audited[i][2] = "handler_error" -> "failure"
                              [] OTHER -> "error"

(* The limiter keeps its window and every call leaves a true line of audit.  *)
GateSound == GateTypeOK /\ GateWindow /\ GateAudited
=============================================================================

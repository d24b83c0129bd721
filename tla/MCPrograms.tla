----------------------------- MODULE MCPrograms ------------------------------
(* The programs round the engine for TLC: the swarm controller, the monitor, *)
(* the scans of the MCP server, and the scope check that stands before a     *)
(* scan.  They share no state; a behaviour moves one of them.                *)
EXTENDS Swarm, McpScans, Monitor, ScopeGate, TLC

VARIABLE part

(* Files of a scope directory: exact hosts, wildcards, addresses, assets that *)
(* are not eligible, a torn file and one that is gone.                        *)
Asset(type, scheme, host, port, block, eligible) ==
    [type |-> type, scheme |-> scheme, host |-> host, port |-> port, block |-> block,
     eligible |-> eligible]
File(assets) == [state |-> "ok", assets |-> assets]
MCServed ==   \* a change of the status, moves within the tolerance, two methods alike
    [r \in {"GET", "POST"} \X (1..2) |->
        CASE r = <<"GET", 1>> -> [status |-> 200, size |-> 1000]
          [] r = <<"GET", 2>> -> [status |-> 403, size |-> 1000]
          [] r = <<"POST", 1>> -> [status |-> 200, size |-> 1010]
          [] r = <<"POST", 2>> -> [status |-> 200, size |-> 1020]]
MCFiles == <<"f1", "f2">>
MCContents ==
    {File({}), [state |-> "malformed", assets |-> {}], [state |-> "absent", assets |-> {}],
     File({Asset("url", Unset, <<"a", "x">>, Unset, {}, TRUE),
           Asset("url", "http", <<"b", "x">>, Unset, {}, TRUE)}),
     File({Asset("wildcard", Unset, <<"*", "x">>, Unset, {}, TRUE),
           Asset("url", "other", <<"x">>, Unset, {}, TRUE)}),
     File({Asset("wildcard", Unset, <<"*", "a", "x">>, "8443", {}, TRUE),
           Asset("url", Unset, <<"x">>, Unset, {}, FALSE),
           Asset("source", Unset, <<"x">>, Unset, {}, TRUE)}),
     File({Asset("cidr", Unset, <<>>, Unset, {"10.1", "10.2"}, TRUE),
           Asset("url", "https", <<"10.3">>, Unset, {}, TRUE)})}
MCTargets ==
    {[scheme |-> s, host |-> h, port |-> p] : s \in {Unset, "http", "other"},
        h \in {<<"x">>, <<"a", "x">>, <<"b", "a", "x">>}, p \in {Unset, "8443"}}
    \cup {[scheme |-> Unset, host |-> <<i>>, port |-> Unset] : i \in {"10.1", "10.3"}}
    \cup {[scheme |-> s, host |-> <<"b", "x">>, port |-> Unset] : s \in {"http", Unset}}

-----------------------------------------------------------------------------

Init ==
    /\ part \in {"swarm", "monitor", "mcp", "scope"}
    /\ SwarmInit
    /\ MonitorInit
    /\ ~forceBaseline /\ (part = "monitor" \/ site = NoRows)
    /\ ScansInit /\ (part = "mcp" \/ (pc["x1"] = "new" /\ subject["c1"] = "s1"))
    /\ ScopeInit /\ (part = "scope" \/ dir = [f \in Range(Files) |-> File({})])

Next ==
    \/ part = "swarm" /\ SwarmNext /\ UNCHANGED <<part, monitorVars, scanVars, scopeVars>>
    \/ /\ part = "monitor" /\ MonitorNext /\ UNCHANGED <<part, swarmVars, scanVars, scopeVars>>
       /\ crashes' + signals'.sent <= 1   \* bound: a crash or a signal
    \/ part = "mcp" /\ ScansNext /\ UNCHANGED <<part, swarmVars, monitorVars, scopeVars>>
    \/ part = "scope" /\ ScopeNext /\ UNCHANGED <<part, swarmVars, monitorVars, scanVars>>

(* Goroutines that can go on do; an engine that was shut down closes its     *)
(* channel or hangs.  Users, signals, crashes, timeouts and the site owe     *)
(* nothing.                                                                  *)
Spec ==
    /\ Init /\ [][Next]_<<part, swarmVars, monitorVars, scanVars, scopeVars>>
    /\ WF_swarmVars(part = "swarm" /\ (ChunkRead \/ ChunkSend))
    /\ WF_swarmVars(part = "swarm" /\ Closer)
    /\ WF_swarmVars(part = "swarm" /\ Controller)
    /\ \A n \in Nodes : WF_swarmVars(part = "swarm" /\ Node(n))
    /\ WF_monitorVars(part = "monitor" /\ Main)
    /\ WF_monitorVars(part = "monitor" /\ SignalHandler)
    /\ \A r \in Runs :
          /\ WF_scanVars(part = "mcp" /\ Handler(r))
          /\ WF_scanVars(part = "mcp" /\ Close(r))
          /\ WF_scanVars(part = "mcp" /\ Watcher(r))
    /\ \A s \in Scans : WF_scanVars(part = "mcp" /\ ScanHandler(s))

-----------------------------------------------------------------------------
(* Each program comes to its end unless a Shutdown hangs: executeSwarm        *)
(* returns without a goroutine left behind, the monitor exits after a signal, *)
(* and a cancelled or expired scan answers.                                   *)
ProgramsEnd ==
    /\ part = "swarm" => SwarmReturns
    /\ MonitorStops
    /\ McpCancelEnds
=============================================================================

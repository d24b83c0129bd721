------------------------------- MODULE ScopeGate -------------------------------
(* The scope check before a scan (pkg/scope/validator.go as handleScan and    *)
(* handleExpand call it): the files of a directory are read one by one while  *)
(* another program rewrites them, their assets are compiled into lookup       *)
(* tables, and the target is looked up.  Hosts are sequences of labels, an    *)
(* address is a host of one label, a CIDR block a set of such labels.         *)
EXTENDS Naturals, Sequences, FiniteSets, SequencesExt

CONSTANTS
    Files,     \* *.json files, in the order of Glob
    Contents,  \* what a file may be: [state, assets], "ok", "malformed" or "absent"
    Targets,   \* targets: [scheme, host, port]
    Labels,    \* labels of hosts
    MaxEdits   \* bound: times the directory is changed

Unset == "unset"   \* a scheme or a port that is not there

(* An asset: [type, scheme, host, port, block, eligible].  "other" is a scheme *)
(* that is neither http nor https.                                            *)
ASSUME ScopeAssumption ==
    /\ Targets # {} /\ MaxEdits \in Nat /\ Files \in Seq(Range(Files))
    /\ \A t \in Targets : t.host \in Seq(Labels)
    /\ \A c \in Contents : \A a \in c.assets : a.host \in Seq(Labels)

VARIABLES dir, edits, asked, unread, loaded, check, onDisk

scopeVars == <<dir, edits, asked, unread, loaded, check, onDisk>>

defaultPortForScheme(scheme) == CASE scheme = "http" -> "80" [] scheme = "https" -> "443" [] OTHER -> Unset
NoEndpoint == [host |-> <<>>, port |-> Unset]
WithDefault(x, scheme) ==
    IF scheme = "other" THEN NoEndpoint
    ELSE [host |-> x.host, port |-> IF x.port = Unset THEN defaultPortForScheme(scheme) ELSE x.port]
(* A target without a scheme is https; an asset without one has any port.     *)
extractTargetEndpoint(t) == WithDefault(t, IF t.scheme = Unset THEN "https" ELSE t.scheme)
extractAssetEndpoint(a) == WithDefault(a, a.scheme)

(* CompileAssets and the lookups.  The key of a host without port is "host:". *)
Of(assets, type) == {a \in assets : a.eligible /\ a.type = type}
exactURLs(assets) ==
    {e \in {extractAssetEndpoint(a) : a \in Of(assets, "url")} : e.host # <<>>}
matchWildcard(e, a) ==
    LET id == extractAssetEndpoint(a)
        base == Tail(id.host)
    IN /\ id.host # <<>> /\ Head(id.host) = "*" /\ base # <<>>
       /\ Len(e.host) > Len(base) /\ IsSuffix(base, e.host) /\ id.port \in {Unset, e.port}
IsAllowed(t, assets) ==
    LET e == extractTargetEndpoint(t)
    IN /\ e.host # <<>> /\ assets # {}
       /\ \/ e \in exactURLs(assets)
          \/ [e EXCEPT !.port = Unset] \in exactURLs(assets)
          \/ \E a \in Of(assets, "cidr") : Len(e.host) = 1 /\ e.host[1] \in a.block
          \/ \E a \in Of(assets, "wildcard") : matchWildcard(e, a)

ScopeInit ==
    /\ dir \in [Range(Files) -> Contents] /\ edits = 0 /\ asked = CHOOSE t \in Targets : TRUE
    /\ unread = {} /\ loaded = {} /\ check = "idle" /\ onDisk = {}

Disk(d) == UNION {d[f].assets : f \in Range(Files)}

(* The watcher of the program's scope writes a file anew.                     *)
EditScope ==
    /\ edits < MaxEdits /\ edits' = edits + 1
    /\ \E f \in Range(Files), c \in Contents : dir' = [dir EXCEPT ![f] = c]
    /\ onDisk' = onDisk \cup Disk(dir')
    /\ UNCHANGED <<asked, unread, loaded, check>>

(* Every call reads the directory anew; a file that cannot be read, because it *)
(* went after it was listed or is torn, ends the call.                        *)
LoadCached == loaded
LoadFresh == {}
LoadDir ==
    /\ check \in {"idle", "allowed", "blocked", "error"}
    /\ asked' \in Targets /\ loaded' = LoadFresh /\ check' = "reading"
    /\ unread' = {i \in DOMAIN Files : dir[Files[i]].state # "absent"}
    /\ onDisk' = Disk(dir) /\ UNCHANGED <<dir, edits>>
RefuseMalformed == check' = "error"
ReadFile ==
    /\ check = "reading"
    /\ \E i \in unread :
          /\ \A k \in unread : i <= k
          /\ unread' = unread \ {i}
          /\ LET c == dir[Files[i]]
             IN IF c.state # "ok" THEN RefuseMalformed /\ loaded' = loaded
                ELSE loaded' = loaded \cup c.assets /\ check' = check
    /\ UNCHANGED <<dir, edits, asked, onDisk>>
Decide ==
    /\ check = "reading" /\ unread = {}
    /\ check' = IF IsAllowed(asked, loaded) THEN "allowed" ELSE "blocked"
    /\ UNCHANGED <<dir, edits, asked, unread, loaded, onDisk>>

ScopeNext == EditScope \/ LoadDir \/ ReadFile \/ Decide

-----------------------------------------------------------------------------
ScopeTypeOK ==
    /\ dir \in [Range(Files) -> Contents] /\ edits \in 0..MaxEdits /\ asked \in Targets
    /\ check \in {"idle", "reading", "allowed", "blocked", "error"}
    /\ loaded \subseteq UNION {c.assets : c \in Contents}

(* What an asset says of a target, one at a time: the meaning the tables and  *)
(* their fallback keys must keep (matchURL, matchCIDR and portMatches).       *)
Covers(a, t) ==
    LET e == extractTargetEndpoint(t)
        id == extractAssetEndpoint(a)
        samePort == id.port = Unset \/ id.port = e.port
    IN /\ a.eligible /\ e.host # <<>>
       /\ CASE a.type = "url" -> id.host = e.host /\ samePort
            [] a.type = "wildcard" ->
                 /\ samePort /\ Len(id.host) > 1 /\ id.host[1] = "*"
                 /\ \E k \in 1..(Len(e.host) - 1) :
                        SubSeq(e.host, k + 1, Len(e.host)) = Tail(id.host)
            [] a.type = "cidr" -> Len(e.host) = 1 /\ e.host[1] \in a.block
            [] OTHER -> FALSE

(* A call is let through exactly when one eligible asset it read covers the   *)
(* target: neither the tables nor the fallback keys add or lose one.          *)
ScopeAgrees ==
    check \in {"allowed", "blocked"} =>
        ((check = "allowed") <=> \E a \in loaded : Covers(a, asked))

(* No call is let through by an asset that was on no disk during that call:   *)
(* neither an earlier call's reading nor a torn file lends it one.            *)
ScopeNotStale ==
    check = "allowed" => \E a \in onDisk : Covers(a, asked)

(* A file that stayed malformed throughout a call lets nothing through.       *)
ScopeFailsClosed ==
    check = "allowed" /\ edits = 0 => \A f \in Range(Files) : dir[f].state # "malformed"

(* No call is let through but by an asset that covers its target and was on   *)
(* disk, and by none when a file is malformed.                                *)
ScopeSound == ScopeTypeOK /\ ScopeAgrees /\ ScopeNotStale /\ ScopeFailsClosed
=============================================================================

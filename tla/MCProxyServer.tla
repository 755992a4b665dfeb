--------------------------- MODULE MCProxyServer ---------------------------
(* Two callers of chosen operations on a server with two ports, for TLC.   *)
EXTENDS ProxyServer, TLC

CONSTANTS a, b

MCCallers  == {a, b}
MCPorts    == {1, 2}
MCNoPorts  == {}
MCAlways   == {TRUE}
MCBoolean  == {TRUE, FALSE}
Scene(o, f) == [ops |-> o, faulty |-> f]

\* The operations behind a.mu, restarts that hold restartMu alone, and an exit
\* beside StopProxy.
MCApp      == {"start", "port", "ssl", "stop"}
MCScenes   == {Scene(MCApp, TRUE), Scene({"external"}, TRUE), Scene({"stop", "exit"}, FALSE)}
MCLive     == MCScenes \cup {Scene(MCApp \cup {"system"}, FALSE)}
MCHang     == {Scene({"stop", "external"}, FALSE)}
Symmetric  == Permutations({a, b})
=============================================================================

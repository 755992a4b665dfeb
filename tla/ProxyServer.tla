----------------------------- MODULE ProxyServer -----------------------------
(***************************************************************************)
(* The life of the proxy server: Start, Stop and Restart of                *)
(* pkg/proxy/server.go with its accept loops, called by the operations of  *)
(* app_proxy.go and app.go that the GUI and the window's end run.          *)
(*                                                                         *)
(* Every caller is a goroutine.  a.mu is held by StartProxy, SetProxyPort, *)
(* SetSSLEnabled and StopProxy, not by SetExternalProxy and the exit path; *)
(* restartMu is held by Restart, not by Stop.  Each access to a field that *)
(* another goroutine may change is a step.                                 *)
(***************************************************************************)
EXTENDS Naturals, Sequences, FiniteSets

CONSTANTS
    Callers,   \* goroutines that may call an operation
    Ports,     \* TCP ports
    Port0,     \* the port of the first configuration
    StartPorts,\* ports StartProxy is given besides 0, "the current one"
    StartSys,  \* the values of enableSystemProxy StartProxy is given
    Scenes,    \* of one behaviour: the operations that are called, and whether
               \* another program may hold the port
    MaxCalls,  \* calls of one behaviour (bound)
    MaxConns   \* connections accepted but not yet begun (bound)

AllOps == {"start", "port", "ssl", "external", "stop", "exit", "system"}

Nobody == "nobody"

ASSUME ServerAssumption ==
    /\ Nobody \notin Callers
    /\ Scenes \subseteq [ops : SUBSET AllOps, faulty : BOOLEAN]
    /\ Ports \subseteq Nat \ {0} /\ Port0 \in Ports /\ StartPorts \subseteq Ports
    /\ StartSys \subseteq BOOLEAN
    /\ MaxCalls \in Nat /\ MaxConns \in Nat

VARIABLES
    cfg,       \* s.cfg: port, EnableSystemProxy and EnableSSL
    running,   \* s.running
    listener,  \* s.listener, an index into sockets, or 0
    sockets,   \* every TCP listener ever bound: its port and whether it is open
    ctx,       \* s.ctx, s.cancel: the number of the current context
    cancelled, \* contexts whose cancel function has been called
    services,  \* discovery and QUIC, when running
    loops,     \* the accept loops ever started, s.wg counts those not done
    pending,   \* connections accepted whose goroutine has not read s.ctx
    conns,     \* contexts of the connections being served
    appMu,     \* holder of a.mu
    restartMu, \* holder of s.restartMu
    sysProxy,  \* the port the OS sends traffic to, or 0
    byHand,    \* it was set by SetSystemProxy, not by a start (history)
    scene,     \* the scene of this behaviour
    pc, op, arg, mine, was, ok, calls   \* per caller: where it is, its call, the
               \* configuration it passes, the socket it bound, IsRunning as it
               \* began, no error so far; and the calls made in all

server == <<cfg, running, listener, sockets, ctx, cancelled, services>>
goroutines == <<loops, pending, conns, scene>>
locks == <<appMu, restartMu>>
osProxy == <<sysProxy, byHand>>
callers == <<pc, op, arg, mine, was, ok, calls>>
vars == <<server, goroutines, locks, osProxy, callers>>

Labels == {"idle", "lock", "stopCheck", "stopFlag", "stopCancel", "stopServices",
           "stopListener", "stopWait", "config", "context", "startCheck", "listen",
           "startField", "startFlag", "startServices", "startLoop", "unlock",
           "again", "system", "point", "return"}

Configs == [port : Ports, sys : BOOLEAN, ssl : BOOLEAN]

\* The server of startup(), never started; or the same after a first start.
Init ==
    /\ cfg = [port |-> Port0, sys |-> FALSE, ssl |-> TRUE]
    /\ \/ /\ running = FALSE /\ listener = 0 /\ sockets = <<>> /\ loops = <<>>
          /\ services = {}
       \/ /\ running = TRUE /\ listener = 1 /\ services = {"discovery", "quic"}
          /\ sockets = <<[port |-> Port0, open |-> TRUE]>>
          /\ loops = <<[at |-> "accept", on |-> 1]>>
    /\ ctx = 0 /\ cancelled = {}
    /\ pending = 0 /\ conns = {}
    /\ appMu = Nobody /\ restartMu = Nobody
    /\ sysProxy = 0 /\ byHand = FALSE /\ scene \in Scenes
    /\ pc = [c \in Callers |-> "idle"]
    /\ op = [c \in Callers |-> "stop"]
    /\ arg = [c \in Callers |-> cfg]
    /\ mine = [c \in Callers |-> 0]
    /\ was = [c \in Callers |-> FALSE]
    /\ ok = [c \in Callers |-> TRUE]
    /\ calls = 0

Goto(c, label) == pc' = [pc EXCEPT ![c] = label]
Step(c, from, to) == pc[c] = from /\ Goto(c, to)

-----------------------------------------------------------------------------
(* The operations of App                                                   *)

\* A call of o that passes configuration r to Restart and goes on at "to".
Enter(c, o, r, to) ==
    /\ pc[c] = "idle" /\ o \in scene.ops /\ calls < MaxCalls
    /\ op' = [op EXCEPT ![c] = o]
    /\ arg' = [arg EXCEPT ![c] = r]
    /\ was' = [was EXCEPT ![c] = running]
    /\ ok' = [ok EXCEPT ![c] = TRUE]
    /\ calls' = calls + 1
    /\ Goto(c, to)
    /\ UNCHANGED <<server, goroutines, restartMu, mine>>

TakeAppMu(c) == appMu = Nobody /\ appMu' = c

StartProxy(c) ==
    /\ TakeAppMu(c)
    /\ \E p \in {cfg.port} \cup StartPorts, s \in StartSys, e \in BOOLEAN :
          Enter(c, "start", [port |-> p, sys |-> s, ssl |-> e], "lock")
    /\ UNCHANGED osProxy

SetProxyPort(c) ==
    /\ TakeAppMu(c)
    /\ \E p \in Ports : Enter(c, "port", [cfg EXCEPT !.port = p], "lock")
    /\ UNCHANGED osProxy

\* SetSSLEnabled restarts a server that runs and does nothing to another.
SetSSLEnabled(c) ==
    /\ TakeAppMu(c)
    /\ Enter(c, "ssl", [cfg EXCEPT !.ssl = ~ @], IF running THEN "lock" ELSE "return")
    /\ UNCHANGED osProxy

\* SetExternalProxy passes back the configuration it has read on entry.
SetExternalProxy(c) ==
    /\ Enter(c, "external", cfg, "lock")
    /\ UNCHANGED <<appMu, osProxy>>

TurnOff == sysProxy' = 0 /\ byHand' = FALSE

\* StopProxy and the exit path turn the system proxy off before anything else.
StopProxy(c) ==
    /\ TakeAppMu(c)
    /\ TurnOff
    /\ Enter(c, "stop", cfg, "stopCheck")

\* beforeClose, shutdown and ExitApp.
ExitApp(c) ==
    /\ TurnOff
    /\ Enter(c, "exit", cfg, "stopCheck")
    /\ UNCHANGED appMu

\* SetSystemProxy reads the port and then sets or unsets the proxy of the OS, whether
\* or not the server runs.
SetSystemProxy(c) ==
    /\ \E e \in BOOLEAN : Enter(c, "system", [cfg EXCEPT !.sys = e], "point")
    /\ UNCHANGED <<appMu, osProxy>>

Point(c) ==
    /\ Step(c, "point", "return")
    /\ IF arg[c].sys THEN sysProxy' = arg[c].port /\ byHand' = TRUE ELSE TurnOff
    /\ UNCHANGED <<server, goroutines, locks, op, arg, mine, was, ok, calls>>

\* After a Restart without error StartProxy, and SetProxyPort when it found the
\* server running, start it if it does not run.
Again(c) ==
    /\ pc[c] = "again"
    /\ Goto(c, IF running \/ (op[c] = "port" /\ ~ was[c]) THEN "system" ELSE "startCheck")
    /\ UNCHANGED <<server, goroutines, locks, osProxy, op, arg, mine, was, ok, calls>>

\* Mutant: only StartProxy points the system proxy at the port.
SystemOnlyAtStart(c) ==
    /\ Step(c, "system", "return")
    /\ IF arg[c].sys /\ op[c] = "start"
         THEN sysProxy' = arg[c].port /\ byHand' = FALSE ELSE UNCHANGED osProxy
    /\ UNCHANGED <<server, goroutines, locks, op, arg, mine, was, ok, calls>>

\* The system proxy is pointed at the port.
System(c) ==
    /\ Step(c, "system", "return")
    /\ IF arg[c].sys /\ (op[c] = "start" \/ was[c])
         THEN sysProxy' = arg[c].port /\ byHand' = FALSE ELSE UNCHANGED osProxy
    /\ UNCHANGED <<server, goroutines, locks, op, arg, mine, was, ok, calls>>

Return(c) ==
    /\ Step(c, "return", "idle")
    /\ appMu' = IF appMu = c THEN Nobody ELSE appMu
    /\ UNCHANGED <<server, goroutines, restartMu, osProxy, op, arg, mine, was, ok, calls>>

-----------------------------------------------------------------------------
(* Server.Stop                                                             *)

Stopped(c) == IF op[c] \in {"stop", "exit"} THEN "return" ELSE "config"

StopCheck(c) ==
    /\ Step(c, "stopCheck", IF running THEN "stopFlag" ELSE Stopped(c))
    /\ UNCHANGED <<server, goroutines, locks, osProxy, op, arg, mine, was, ok, calls>>

StopFlag(c) ==
    /\ Step(c, "stopFlag", "stopCancel")
    /\ running' = FALSE
    /\ UNCHANGED <<cfg, listener, sockets, ctx, cancelled, services, goroutines, locks, osProxy,
                   op, arg, mine, was, ok, calls>>

\* Mutant: the context is not cancelled.
StopForgetsCancel(c) ==
    /\ Step(c, "stopCancel", "stopServices")
    /\ UNCHANGED <<server, goroutines, locks, osProxy, op, arg, mine, was, ok, calls>>

StopCancel(c) ==
    /\ Step(c, "stopCancel", "stopServices")
    /\ cancelled' = cancelled \cup {ctx}
    /\ UNCHANGED <<cfg, running, listener, sockets, ctx, services, goroutines, locks, osProxy,
                   op, arg, mine, was, ok, calls>>

\* Mutant: discovery goes on.
StopOnlyQuic(c) ==
    /\ Step(c, "stopServices", "stopListener")
    /\ services' = services \ {"quic"}
    /\ UNCHANGED <<cfg, running, listener, sockets, ctx, cancelled, goroutines, locks, osProxy,
                   op, arg, mine, was, ok, calls>>

\* Each of the two has a mutex of its own; nothing else reads them.
StopServices(c) ==
    /\ Step(c, "stopServices", "stopListener")
    /\ services' = {}
    /\ UNCHANGED <<cfg, running, listener, sockets, ctx, cancelled, goroutines, locks, osProxy,
                   op, arg, mine, was, ok, calls>>

StopListener(c) ==
    /\ Step(c, "stopListener", "stopWait")
    /\ sockets' = IF listener = 0 THEN sockets ELSE [sockets EXCEPT ![listener].open = FALSE]
    /\ UNCHANGED <<cfg, running, listener, ctx, cancelled, services, goroutines, locks, osProxy,
                   op, arg, mine, was, ok, calls>>

Live == {i \in DOMAIN loops : loops[i].at # "done"}

\* s.wg.Wait()
StopWait(c) ==
    /\ Step(c, "stopWait", Stopped(c))
    /\ Live = {}
    /\ UNCHANGED <<server, goroutines, locks, osProxy, op, arg, mine, was, ok, calls>>

-----------------------------------------------------------------------------
(* Server.Restart and Server.Start                                         *)

\* Mutant: Restart does not lock restartMu.
LockNothing(c) ==
    /\ Step(c, "lock", "stopCheck")
    /\ UNCHANGED <<server, goroutines, locks, osProxy, op, arg, mine, was, ok, calls>>

Lock(c) ==
    /\ restartMu = Nobody
    /\ Step(c, "lock", "stopCheck")
    /\ restartMu' = c
    /\ UNCHANGED <<server, goroutines, appMu, osProxy, op, arg, mine, was, ok, calls>>

Config(c) ==
    /\ Step(c, "config", "context")
    /\ cfg' = arg[c]
    /\ UNCHANGED <<running, listener, sockets, ctx, cancelled, services, goroutines, locks, osProxy,
                   op, arg, mine, was, ok, calls>>

\* context.WithCancel: a new context, its number one more than the last.
Context(c) ==
    /\ Step(c, "context", "startCheck")
    /\ ctx' = ctx + 1
    /\ UNCHANGED <<cfg, running, listener, sockets, cancelled, services, goroutines, locks, osProxy,
                   op, arg, mine, was, ok, calls>>

Failed(c) == ok' = [ok EXCEPT ![c] = FALSE] /\ Goto(c, "unlock")

StartCheck(c) ==
    /\ pc[c] = "startCheck"
    /\ IF running THEN Failed(c) ELSE Goto(c, "listen") /\ UNCHANGED ok
    /\ UNCHANGED <<server, goroutines, locks, osProxy, op, arg, mine, was, calls>>

\* A port that is open cannot be bound again.
Free(p) == \A i \in DOMAIN sockets : sockets[i].port = p => ~ sockets[i].open

Listen(c) ==
    /\ pc[c] = "listen"
    /\ \/ /\ Free(cfg.port)
          /\ sockets' = Append(sockets, [port |-> cfg.port, open |-> TRUE])
          /\ mine' = [mine EXCEPT ![c] = Len(sockets) + 1]
          /\ Goto(c, "startField")
          /\ UNCHANGED ok
       \/ /\ scene.faulty \/ ~ Free(cfg.port)
          /\ Failed(c)
          /\ UNCHANGED <<sockets, mine>>
    /\ UNCHANGED <<cfg, running, listener, ctx, cancelled, services, goroutines, locks, osProxy,
                   op, arg, was, calls>>

StartField(c) ==
    /\ Step(c, "startField", "startFlag")
    /\ listener' = mine[c]
    /\ UNCHANGED <<cfg, running, sockets, ctx, cancelled, services, goroutines, locks, osProxy,
                   op, arg, mine, was, ok, calls>>

StartFlag(c) ==
    /\ Step(c, "startFlag", "startServices")
    /\ running' = TRUE
    /\ UNCHANGED <<cfg, listener, sockets, ctx, cancelled, services, goroutines, locks, osProxy,
                   op, arg, mine, was, ok, calls>>

\* QUIC may fail to bind; that is only logged.
StartServices(c) ==
    /\ Step(c, "startServices", "startLoop")
    /\ services' \in {services \cup {"discovery"}, {"discovery", "quic"}}
    /\ UNCHANGED <<cfg, running, listener, sockets, ctx, cancelled, goroutines, locks, osProxy,
                   op, arg, mine, was, ok, calls>>

\* s.wg.Add(1) and the accept loop's goroutine.
StartLoop(c) ==
    /\ Step(c, "startLoop", "unlock")
    /\ loops' = Append(loops, [at |-> "fetch", on |-> 0])
    /\ UNCHANGED <<server, pending, conns, scene, locks, osProxy, op, arg, mine, was, ok, calls>>

\* Mutant: restartMu is not released when Start fails.
UnlockOnSuccess(c) ==
    /\ Step(c, "unlock", IF ~ ok[c] \/ op[c] \in {"ssl", "external"} THEN "return"
                         ELSE IF restartMu = c THEN "again" ELSE "system")
    /\ restartMu' = IF restartMu = c /\ ok[c] THEN Nobody ELSE restartMu
    /\ UNCHANGED <<server, goroutines, appMu, osProxy, op, arg, mine, was, ok, calls>>

\* Restart returns; the Start that follows a Restart holds no lock.  After an
\* error, and in SetSSLEnabled and SetExternalProxy, nothing more is done.
Unlock(c) ==
    /\ Step(c, "unlock", IF ~ ok[c] \/ op[c] \in {"ssl", "external"} THEN "return"
                         ELSE IF restartMu = c THEN "again" ELSE "system")
    /\ restartMu' = IF restartMu = c THEN Nobody ELSE restartMu
    /\ UNCHANGED <<server, goroutines, appMu, osProxy, op, arg, mine, was, ok, calls>>

-----------------------------------------------------------------------------
(* acceptLoop and handleConnection                                         *)

Loop(i, state) == loops' = [loops EXCEPT ![i] = state]

\* s.listener is read and Accept called on it.
Fetch(i) ==
    /\ loops[i].at = "fetch"
    /\ Loop(i, [at |-> "accept", on |-> listener])
    /\ UNCHANGED <<server, pending, conns, scene, locks, osProxy, callers>>

Accept(i) ==
    /\ loops[i].at = "accept" /\ sockets[loops[i].on].open
    /\ pending < MaxConns
    /\ Loop(i, [at |-> "fetch", on |-> 0])
    /\ pending' = pending + 1
    /\ UNCHANGED <<server, conns, scene, locks, osProxy, callers>>

\* Accept fails on a closed listener; the loop ends, or sleeps and goes on when
\* the server runs.
AcceptFails(i) ==
    /\ loops[i].at = "accept" /\ ~ sockets[loops[i].on].open
    /\ Loop(i, [at |-> IF running THEN "fetch" ELSE "done", on |-> 0])
    /\ UNCHANGED <<server, pending, conns, scene, locks, osProxy, callers>>

\* Mutant: a connection begins that no loop accepted.
BeginUncounted ==
    /\ pending' = pending - 1
    /\ conns' = conns \cup {ctx}
    /\ UNCHANGED <<server, loops, scene, locks, osProxy, callers>>

\* handleConnection derives the connection's context from s.ctx.
Begin ==
    /\ pending > 0
    /\ pending' = pending - 1
    /\ conns' = conns \cup {ctx}
    /\ UNCHANGED <<server, loops, scene, locks, osProxy, callers>>

\* The last connection under a context ends.
End(g) ==
    /\ g \in conns
    /\ conns' = conns \ {g}
    /\ UNCHANGED <<server, loops, pending, scene, locks, osProxy, callers>>

-----------------------------------------------------------------------------
Call(c) ==
    \/ StartProxy(c) \/ SetProxyPort(c) \/ SetSSLEnabled(c)
    \/ SetExternalProxy(c) \/ SetSystemProxy(c) \/ StopProxy(c) \/ ExitApp(c)

Proceed(c) ==
    \/ Again(c) \/ System(c) \/ Point(c) \/ Return(c)
    \/ StopCheck(c) \/ StopFlag(c) \/ StopCancel(c) \/ StopServices(c)
    \/ StopListener(c) \/ StopWait(c)
    \/ Lock(c) \/ Config(c) \/ Context(c) \/ StartCheck(c) \/ Listen(c)
    \/ StartField(c) \/ StartFlag(c) \/ StartServices(c) \/ StartLoop(c) \/ Unlock(c)

Next ==
    \/ \E c \in Callers : Call(c) \/ Proceed(c)
    \/ \E i \in DOMAIN loops : Fetch(i) \/ Accept(i) \/ AcceptFails(i)
    \/ Begin \/ \E g \in conns : End(g)

Spec == Init /\ [][Next]_vars

\* Goroutines that can go on do; a mutex is given to a caller that keeps waiting
\* for it.  Nobody has to connect or to call.
FairSpec ==
    /\ Spec
    /\ \A c \in Callers : SF_vars(Lock(c)) /\ WF_vars(Proceed(c))
    /\ \A i \in 1 .. MaxCalls + 1 : WF_vars(i \in DOMAIN loops /\ (Fetch(i) \/ AcceptFails(i)))

-----------------------------------------------------------------------------
TypeOK ==
    /\ cfg \in Configs /\ running \in BOOLEAN /\ listener \in 0 .. Len(sockets)
    /\ sockets \in Seq([port : Ports, open : BOOLEAN])
    /\ ctx \in Nat /\ cancelled \subseteq 0 .. ctx /\ services \subseteq {"discovery", "quic"}
    /\ loops \in Seq([at : {"fetch", "accept", "done"}, on : 0 .. Len(sockets)])
    /\ pending \in 0 .. MaxConns /\ conns \subseteq 0 .. ctx
    /\ appMu \in Callers \cup {Nobody} /\ restartMu \in Callers \cup {Nobody}
    /\ sysProxy \in Ports \cup {0} /\ byHand \in BOOLEAN /\ scene \in Scenes
    /\ pc \in [Callers -> Labels] /\ op \in [Callers -> AllOps] /\ arg \in [Callers -> Configs]
    /\ mine \in [Callers -> 0 .. Len(sockets)]
    /\ was \in [Callers -> BOOLEAN] /\ ok \in [Callers -> BOOLEAN] /\ calls \in 0 .. MaxCalls

Quiet == \A c \in Callers : pc[c] = "idle"
Open == {i \in DOMAIN sockets : sockets[i].open}

\* However calls follow or overlap, connections are accepted by one loop: a
\* restart never leaves the old loop beside the new one.
OneAcceptLoop == Cardinality(Live) <= 1

\* Between operations the flag the GUI shows is the truth: a running server
\* accepts on its configured port, with one loop on one open socket, announced by
\* discovery; one that does not run holds no port and no loop.
FlagIsTruth ==
    Quiet =>
        /\ running => /\ Open = {listener} /\ sockets[listener].port = cfg.port
                      /\ \E i \in DOMAIN loops : Live = {i} /\ loops[i].on \in {0, listener}
                      /\ "discovery" \in services
        /\ ~ running => Open = {} /\ Live = {} /\ services = {}

\* A restart that can bind its port loses no connection: each one is under the
\* current context, which the next stop cancels, or under one already cancelled.
ConnectionsFollowContext == ~ scene.faulty => conns \subseteq cancelled \cup {ctx}

\* Capture off, system proxy off: between operations the OS never sends traffic
\* to a port that the server does not serve, as long as ports can be bound; unless the
\* user switched the system proxy on by itself, which SetSystemProxy does for a
\* server that is stopped, is being stopped, or moves to another port as well.
SystemProxyIsServed ==
    Quiet /\ sysProxy # 0 /\ ~ byHand /\ ~ scene.faulty => running /\ sysProxy = cfg.port

\* Every call returns, so no operation keeps a.mu or restartMu for ever, and Stop
\* "gracefully shuts down the server" (server.go).
CallsReturn == \A c \in Callers : pc[c] # "idle" ~> pc[c] = "idle"

=============================================================================

------------------------- MODULE ProxyServerProofs -------------------------
(***************************************************************************)
(* What holds of the proxy server for any callers and ports: its types     *)
(* always, and the rest where the operations called exclude each other,    *)
(* those that hold a.mu or restarts that hold restartMu, with the system   *)
(* proxy switched by hand at any moment, and where they only stop the      *)
(* server, overlapping as they like.                                       *)
(***************************************************************************)
EXTENDS ProxyServer, SequenceTheorems, FiniteSetTheorems, TLAPS

USE DEF osProxy

\* The operations that hold a.mu.
AppOps == {"start", "port", "ssl", "stop"}

\* Stops alone; an exit holds no mutex, so any number of them overlap.
Stoppers == {"stop", "exit"}

\* SetSystemProxy holds no mutex, and may overlap anything.
Serial(ops) == ops \subseteq AppOps \cup {"system"} \/ ops \subseteq {"external", "system"}

\* In every scene the operations called are all behind a.mu, or SetExternalProxy,
\* which holds restartMu, beside SetSystemProxy, or none of them starts the server.
KeptApart == \A s \in Scenes : Serial(s.ops) \/ s.ops \subseteq Stoppers

\* StartProxy is asked to set the system proxy, as App.Start does, the window's button;
\* the launcher, which starts a server it has found stopped, asks without it.
WithSystem == StartSys \subseteq {TRUE}

-----------------------------------------------------------------------------
(* One caller works on the server at a time                                *)

Working == Labels \ {"idle", "lock", "point", "return"}
NoWorker == \A c \in Callers : pc[c] \notin Working

\* Who holds which mutex.
HolderInv ==
    /\ Serial(scene.ops)
    /\ \A c \in Callers : pc[c] # "idle" =>
          /\ op[c] \in scene.ops
          /\ op[c] = "system" => pc[c] \in {"point", "return"}
          /\ op[c] \in AppOps => appMu = c
          /\ op[c] = "external" /\ pc[c] \in Working => restartMu = c

-----------------------------------------------------------------------------
(* What the worker knows of the server                                     *)

\* Exactly the sockets of S are open, exactly the loops of S are alive.
OpenAre(S) == \A i \in DOMAIN sockets : sockets[i].open <=> i \in S
LiveAre(S) == \A i \in DOMAIN loops : loops[i].at # "done" <=> i \in S

\* One loop, which accepts on the server's listener or is about to.
OneLoop ==
    \E i \in DOMAIN loops :
        /\ LiveAre({i}) /\ loops[i].on \in {0, listener}
        /\ loops[i].at = "accept" => loops[i].on = listener

Bound == listener \in DOMAIN sockets /\ OpenAre({listener})

Up == running /\ Bound /\ sockets[listener].port = cfg.port /\ OneLoop /\ "discovery" \in services
Down == ~ running /\ OpenAre({}) /\ LiveAre({}) /\ services = {}

Closing ==
    /\ ~ running /\ listener \in DOMAIN sockets /\ OpenAre({}) /\ services = {}
    /\ LiveAre({}) \/ OneLoop

\* The worker c between two steps of Stop, Restart and Start.
StageInv(c) ==
    /\ pc[c] \in {"stopCheck", "unlock", "again", "system"} => Up \/ Down
    /\ pc[c] = "stopFlag" => Up
    /\ pc[c] \in {"stopCancel", "stopServices"} => ~ running /\ Bound /\ OneLoop
    /\ pc[c] = "stopListener" => ~ running /\ Bound /\ OneLoop /\ services = {}
    /\ pc[c] = "stopWait" => Closing
    /\ pc[c] \in {"config", "context", "startCheck", "listen"} => Down
    /\ pc[c] \in {"startField", "startFlag"} =>
          /\ ~ running /\ LiveAre({}) /\ services = {}
          /\ mine[c] \in DOMAIN sockets /\ OpenAre({mine[c]}) /\ sockets[mine[c]].port = cfg.port
    /\ pc[c] = "startFlag" => listener = mine[c]
    /\ pc[c] \in {"startServices", "startLoop"} =>
          running /\ LiveAre({}) /\ Bound /\ sockets[listener].port = cfg.port
    /\ pc[c] = "startLoop" => "discovery" \in services

ServerInv ==
    /\ HolderInv
    /\ \A c \in Callers : pc[c] \in Working => StageInv(c)
    /\ NoWorker => Up \/ Down

-----------------------------------------------------------------------------
(* Contexts, where every port can be bound                                 *)

\* Nothing is left under the current context that a stop does not cancel.
Clean == ctx \in cancelled \/ (pending = 0 /\ conns = {})

ContextStage(c) ==
    /\ pc[c] = "stopCheck" => running \/ Clean
    /\ pc[c] \in {"stopServices", "stopListener", "stopWait"} => ctx \in cancelled
    /\ pc[c] \in {"config", "context"} => Clean
    /\ pc[c] \in {"unlock", "again", "system"} => running

ContextInv ==
    ~ scene.faulty =>
        /\ conns \subseteq cancelled \cup {ctx}
        /\ NoWorker => running \/ Clean
        /\ \A c \in Callers : ContextStage(c)

-----------------------------------------------------------------------------
(* The system proxy                                                        *)

Stopping == {"stopCheck", "stopFlag", "stopCancel", "stopServices", "stopListener", "stopWait"}

\* The OS was pointed at a port by a start, and nobody has touched it by hand since.
Pointed == sysProxy # 0 /\ ~ byHand

\* What caller c is about to do to the system proxy.
SystemStage(c) ==
    /\ ok[c]
    /\ op[c] = "start" => arg[c].sys
    /\ op[c] = "port" /\ Pointed => was[c] /\ arg[c].sys
    /\ op[c] = "ssl" /\ Pointed => arg[c].sys /\ sysProxy = arg[c].port
    /\ op[c] = "stop" => ~ Pointed /\ pc[c] \in Stopping \cup {"return"}
    /\ pc[c] \in {"again", "system"} => op[c] \in {"start", "port"}
    /\ pc[c] \in Working \ (Stopping \cup {"config"}) => cfg = arg[c]

SystemInv ==
    ~ scene.faulty =>
        /\ NoWorker /\ Pointed => running /\ sysProxy = cfg.port
        /\ Pointed => cfg.sys
        /\ scene.ops \subseteq {"external", "system"} => ~ Pointed
        /\ \A c \in Callers : pc[c] # "idle" => SystemStage(c)

-----------------------------------------------------------------------------
(* Types                                                                   *)

Socket == [port : Ports, open : BOOLEAN]
LoopState(n) == [at : {"fetch", "accept", "done"}, on : 0 .. n]

\* A socket more, or one closed; a loop more, or one gone on.
LEMMA SocketBound ==
  ASSUME TypeOK, NEW p \in Ports, sockets' = Append(sockets, [port |-> p, open |-> TRUE])
  PROVE  /\ sockets' \in Seq(Socket) /\ Len(sockets') = Len(sockets) + 1
         /\ sockets'[Len(sockets')] = [port |-> p, open |-> TRUE]
         /\ \A i \in DOMAIN sockets : sockets'[i] = sockets[i]
         /\ DOMAIN sockets' = 1 .. (Len(sockets) + 1) /\ DOMAIN sockets = 1 .. Len(sockets)
<1>1. sockets \in Seq(Socket) /\ [port |-> p, open |-> TRUE] \in Socket
  BY DEF TypeOK, Socket
<1> QED
  BY <1>1, AppendProperties, LenProperties

LEMMA SocketClosed ==
  ASSUME TypeOK, NEW l \in DOMAIN sockets, sockets' = [sockets EXCEPT ![l].open = FALSE]
  PROVE  /\ sockets' \in Seq(Socket) /\ Len(sockets') = Len(sockets)
         /\ DOMAIN sockets' = DOMAIN sockets
         /\ \A i \in DOMAIN sockets : sockets'[i].port = sockets[i].port
         /\ ~ sockets'[l].open /\ \A i \in DOMAIN sockets \ {l} : sockets'[i] = sockets[i]
<1> DEFINE closed == [sockets[l] EXCEPT !.open = FALSE]
<1>1. sockets \in Seq(Socket) /\ l \in 1 .. Len(sockets) /\ DOMAIN sockets = 1 .. Len(sockets)
  BY LenProperties DEF TypeOK, Socket
<1>2. sockets[l] \in Socket
  BY <1>1, ElementOfSeq
<1>3. closed \in Socket /\ closed.port = sockets[l].port /\ ~ closed.open
  BY <1>2 DEF Socket
<1>4. sockets' = [sockets EXCEPT ![l] = closed]
  OBVIOUS
<1>5. PICK x \in Socket : x.port = sockets[l].port /\ ~ x.open /\ sockets' = [sockets EXCEPT ![l] = x]
  BY <1>3, <1>4
<1>6. /\ [sockets EXCEPT ![l] = x] \in Seq(Socket) /\ Len([sockets EXCEPT ![l] = x]) = Len(sockets)
      /\ \A j \in 1 .. Len(sockets) : [sockets EXCEPT ![l] = x][j] = IF j = l THEN x ELSE sockets[j]
  BY <1>1, ExceptSeq
<1> QED
  BY <1>1, <1>5, <1>6, LenProperties

LEMMA LoopStarted ==
  ASSUME TypeOK, loops' = Append(loops, [at |-> "fetch", on |-> 0])
  PROVE  /\ loops' \in Seq(LoopState(Len(sockets))) /\ Len(loops') = Len(loops) + 1
         /\ loops'[Len(loops')] = [at |-> "fetch", on |-> 0]
         /\ \A i \in DOMAIN loops : loops'[i] = loops[i]
         /\ DOMAIN loops' = 1 .. (Len(loops) + 1) /\ DOMAIN loops = 1 .. Len(loops)
<1>1. loops \in Seq(LoopState(Len(sockets))) /\ [at |-> "fetch", on |-> 0] \in LoopState(Len(sockets))
  BY LenProperties DEF TypeOK, LoopState, Socket
<1> QED
  BY <1>1, AppendProperties, LenProperties

LEMMA LoopMoved ==
  ASSUME TypeOK, NEW i \in DOMAIN loops, NEW s \in LoopState(Len(sockets)), Loop(i, s)
  PROVE  /\ loops' \in Seq(LoopState(Len(sockets))) /\ Len(loops') = Len(loops)
         /\ DOMAIN loops' = DOMAIN loops
         /\ loops'[i] = s /\ \A j \in DOMAIN loops \ {i} : loops'[j] = loops[j]
<1>1. loops \in Seq(LoopState(Len(sockets))) /\ DOMAIN loops = 1 .. Len(loops)
  BY LenProperties DEF TypeOK, LoopState
<1>2. loops' = [loops EXCEPT ![i] = s]
  BY DEF Loop
<1>3. /\ loops' \in Seq(LoopState(Len(sockets))) /\ Len(loops') = Len(loops)
      /\ \A j \in 1 .. Len(loops) : loops'[j] = IF j = i THEN s ELSE loops[j]
  BY <1>1, <1>2, ExceptSeq
<1> QED
  BY <1>1, <1>3, LenProperties

\* Every call, and every step of a call, of a loop and of a connection is well typed.
LEMMA TypeStep == TypeOK /\ [Next]_vars => TypeOK'
<1> SUFFICES ASSUME TypeOK, [Next]_vars PROVE TypeOK'
  OBVIOUS
<1> USE ServerAssumption DEF server, goroutines, locks, callers
<1>1. ASSUME NEW c \in Callers, NEW o \in AllOps, NEW r \in Configs, NEW to \in Labels,
             Enter(c, o, r, to), appMu' \in {appMu, c}, TurnOff \/ UNCHANGED osProxy
      PROVE  TypeOK'
  <2>1. sysProxy' \in Ports \cup {0} /\ byHand' \in BOOLEAN
    BY <1>1 DEF TypeOK, TurnOff
  <2> QED
    BY <1>1, <2>1 DEF TypeOK, Enter, Goto
<1>2. ASSUME NEW c \in Callers, Call(c) PROVE TypeOK'
  <2> USE DEF TakeAppMu, Labels, AllOps
  <2>1. CASE StartProxy(c)
    <3>1. PICK q \in {cfg.port} \cup StartPorts, s \in StartSys, e \in BOOLEAN :
             Enter(c, "start", [port |-> q, sys |-> s, ssl |-> e], "lock")
      BY <2>1 DEF StartProxy
    <3>2. [port |-> q, sys |-> s, ssl |-> e] \in Configs
      BY DEF TypeOK, Configs
    <3> QED
      BY <1>1, <2>1, <3>1, <3>2 DEF StartProxy
  <2>2. CASE SetProxyPort(c)
    <3>1. PICK q \in Ports : Enter(c, "port", [cfg EXCEPT !.port = q], "lock")
      BY <2>2 DEF SetProxyPort
    <3>2. [cfg EXCEPT !.port = q] \in Configs
      BY DEF TypeOK, Configs
    <3> QED
      BY <1>1, <2>2, <3>1, <3>2 DEF SetProxyPort
  <2>3. CASE SetSSLEnabled(c)
    <3>1. [cfg EXCEPT !.ssl = ~ @] \in Configs
      BY DEF TypeOK, Configs
    <3> QED
      BY <1>1, <2>3, <3>1 DEF SetSSLEnabled
  <2>4. CASE SetExternalProxy(c) \/ StopProxy(c) \/ ExitApp(c)
    <3>1. cfg \in Configs
      BY DEF TypeOK
    <3> QED
      BY <1>1, <2>4, <3>1 DEF SetExternalProxy, StopProxy, ExitApp
  <2>5. CASE SetSystemProxy(c)
    <3>1. PICK e \in BOOLEAN : Enter(c, "system", [cfg EXCEPT !.sys = e], "point")
      BY <2>5 DEF SetSystemProxy
    <3>2. [cfg EXCEPT !.sys = e] \in Configs
      BY DEF TypeOK, Configs
    <3> QED
      BY <1>1, <2>5, <3>1, <3>2 DEF SetSystemProxy
  <2> QED
    BY <1>2, <2>1, <2>2, <2>3, <2>4, <2>5 DEF Call
<1>3a. ASSUME NEW c \in Callers, Again(c) PROVE TypeOK'
  BY <1>3a DEF TypeOK, Again, Step, Goto, Labels
<1>3b. ASSUME NEW c \in Callers, System(c) PROVE TypeOK'
  BY <1>3b DEF TypeOK, System, Step, Goto, Labels, Configs
<1>3q. ASSUME NEW c \in Callers, Point(c) PROVE TypeOK'
  BY <1>3q DEF TypeOK, Point, Step, Goto, Labels, Configs, TurnOff
<1>3c. ASSUME NEW c \in Callers, Return(c) PROVE TypeOK'
  BY <1>3c DEF TypeOK, Return, Step, Goto, Labels
<1>3d. ASSUME NEW c \in Callers, StopCheck(c) PROVE TypeOK'
  BY <1>3d DEF TypeOK, StopCheck, Step, Goto, Labels, Stopped
<1>3e. ASSUME NEW c \in Callers, StopFlag(c) PROVE TypeOK'
  BY <1>3e DEF TypeOK, StopFlag, Step, Goto, Labels
<1>3f. ASSUME NEW c \in Callers, StopCancel(c) PROVE TypeOK'
  BY <1>3f DEF TypeOK, StopCancel, Step, Goto, Labels
<1>3g. ASSUME NEW c \in Callers, StopServices(c) PROVE TypeOK'
  BY <1>3g DEF TypeOK, StopServices, Step, Goto, Labels
<1>3h. ASSUME NEW c \in Callers, StopWait(c) PROVE TypeOK'
  BY <1>3h DEF TypeOK, StopWait, Step, Goto, Labels, Stopped
<1>3i. ASSUME NEW c \in Callers, Lock(c) PROVE TypeOK'
  BY <1>3i DEF TypeOK, Lock, Step, Goto, Labels
<1>3j. ASSUME NEW c \in Callers, Config(c) PROVE TypeOK'
  BY <1>3j DEF TypeOK, Config, Step, Goto, Labels
<1>3k. ASSUME NEW c \in Callers, Context(c) PROVE TypeOK'
  BY <1>3k DEF TypeOK, Context, Step, Goto, Labels
<1>3l. ASSUME NEW c \in Callers, StartCheck(c) PROVE TypeOK'
  BY <1>3l DEF TypeOK, StartCheck, Step, Goto, Labels, Failed
<1>3m. ASSUME NEW c \in Callers, StartField(c) PROVE TypeOK'
  BY <1>3m DEF TypeOK, StartField, Step, Goto, Labels
<1>3n. ASSUME NEW c \in Callers, StartFlag(c) PROVE TypeOK'
  BY <1>3n DEF TypeOK, StartFlag, Step, Goto, Labels
<1>3o. ASSUME NEW c \in Callers, StartServices(c) PROVE TypeOK'
  BY <1>3o DEF TypeOK, StartServices, Step, Goto, Labels
<1>3p. ASSUME NEW c \in Callers, Unlock(c) PROVE TypeOK'
  BY <1>3p DEF TypeOK, Unlock, Step, Goto, Labels
<1>7. ASSUME NEW c \in Callers, StopListener(c) PROVE TypeOK'
  <2>1. sockets' \in Seq(Socket) /\ Len(sockets') = Len(sockets)
    <3>1. CASE listener = 0
      BY <1>7, <3>1 DEF StopListener, TypeOK, Socket
    <3>2. CASE listener # 0
      <4>1. listener \in DOMAIN sockets /\ sockets' = [sockets EXCEPT ![listener].open = FALSE]
        BY <1>7, <3>2, LenProperties DEF StopListener, TypeOK
      <4> QED
        BY <4>1, SocketClosed
    <3> QED
      BY <3>1, <3>2
  <2> QED
    BY <1>7, <2>1 DEF TypeOK, StopListener, Step, Goto, Labels, Socket
<1>8. ASSUME NEW c \in Callers, Listen(c) PROVE TypeOK'
  <2>1. CASE sockets' = Append(sockets, [port |-> cfg.port, open |-> TRUE])
    <3>1. cfg.port \in Ports
      BY DEF TypeOK, Configs
    <3>2. sockets' \in Seq(Socket) /\ Len(sockets') = Len(sockets) + 1 /\ Len(sockets) \in Nat
      BY <2>1, <3>1, SocketBound, LenProperties DEF TypeOK
    <3>3. LoopState(Len(sockets)) \subseteq LoopState(Len(sockets'))
      BY <3>2 DEF LoopState
    <3>4. loops \in Seq(LoopState(Len(sockets')))
      <4>1. loops \in Seq(LoopState(Len(sockets)))
        BY DEF TypeOK, LoopState
      <4> QED
        BY <3>3, <4>1, SeqMonotonic
    <3>5. /\ mine' = mine \/ mine' = [mine EXCEPT ![c] = Len(sockets) + 1]
          /\ pc' = [pc EXCEPT ![c] = "startField"] \/ pc' = [pc EXCEPT ![c] = "unlock"]
          /\ ok' = ok \/ ok' = [ok EXCEPT ![c] = FALSE]
      BY <1>8, Zenon DEF Listen, Failed, Goto
    <3>6. mine' \in [Callers -> 0 .. Len(sockets')]
      <4>1. mine \in [Callers -> 0 .. Len(sockets')] /\ Len(sockets) + 1 \in 0 .. Len(sockets')
        BY <3>2 DEF TypeOK
      <4> QED
        BY <3>5, <4>1
    <3>7. pc' \in [Callers -> Labels]
      BY <3>5 DEF TypeOK, Labels
    <3>8. ok' \in [Callers -> BOOLEAN]
      BY <3>5 DEF TypeOK
    <3> QED
      BY <1>8, <3>2, <3>4, <3>6, <3>7, <3>8 DEF TypeOK, Listen, Socket, LoopState
  <2>2. CASE Failed(c) /\ UNCHANGED <<sockets, mine>>
    BY <1>8, <2>2 DEF TypeOK, Listen, Failed, Goto, Labels
  <2> QED
    BY <1>8, <2>1, <2>2, Zenon DEF Listen
<1>9. ASSUME NEW c \in Callers, StartLoop(c) PROVE TypeOK'
  <2>1. loops' \in Seq(LoopState(Len(sockets)))
    BY <1>9, LoopStarted DEF StartLoop
  <2> QED
    BY <1>9, <2>1 DEF TypeOK, StartLoop, Step, Goto, Labels, LoopState
<1>10. ASSUME NEW i \in DOMAIN loops, Fetch(i) \/ Accept(i) \/ AcceptFails(i) PROVE TypeOK'
  <2>1. ASSUME NEW s \in LoopState(Len(sockets)), Loop(i, s)
        PROVE  loops' \in Seq([at : {"fetch", "accept", "done"}, on : 0 .. Len(sockets)])
    BY <2>1, LoopMoved DEF LoopState
  <2>2. CASE Fetch(i)
    <3>1. [at |-> "accept", on |-> listener] \in LoopState(Len(sockets))
      BY DEF TypeOK, LoopState
    <3>2. loops' \in Seq([at : {"fetch", "accept", "done"}, on : 0 .. Len(sockets)])
      BY <2>1, <2>2, <3>1 DEF Fetch
    <3> QED
      BY <2>2, <3>2 DEF TypeOK, Fetch
  <2>3. CASE Accept(i)
    <3>1. [at |-> "fetch", on |-> 0] \in LoopState(Len(sockets))
      BY LenProperties DEF TypeOK, LoopState
    <3>2. loops' \in Seq([at : {"fetch", "accept", "done"}, on : 0 .. Len(sockets)])
      BY <2>1, <2>3, <3>1 DEF Accept
    <3> QED
      BY <2>3, <3>2 DEF TypeOK, Accept
  <2>4. CASE AcceptFails(i)
    <3>1. [at |-> IF running THEN "fetch" ELSE "done", on |-> 0] \in LoopState(Len(sockets))
      BY LenProperties DEF TypeOK, LoopState
    <3>2. loops' \in Seq([at : {"fetch", "accept", "done"}, on : 0 .. Len(sockets)])
      BY <2>1, <2>4, <3>1 DEF AcceptFails
    <3> QED
      BY <2>4, <3>2 DEF TypeOK, AcceptFails
  <2> QED
    BY <1>10, <2>2, <2>3, <2>4
<1>11. ASSUME Begin PROVE TypeOK'
  BY <1>11 DEF TypeOK, Begin
<1>12. ASSUME NEW g \in conns, End(g) PROVE TypeOK'
  BY <1>12 DEF TypeOK, End
<1>13. ASSUME UNCHANGED vars PROVE TypeOK'
  BY <1>13 DEF TypeOK, vars
<1> QED
  BY <1>2, <1>3a, <1>3b, <1>3c, <1>3d, <1>3e, <1>3f, <1>3g, <1>3h, <1>3i,
     <1>3j, <1>3k, <1>3l, <1>3m, <1>3n, <1>3o, <1>3p, <1>3q, <1>7, <1>8, <1>9,
     <1>10, <1>11, <1>12, <1>13
     DEF Next, Proceed

-----------------------------------------------------------------------------
(* The mutexes                                                             *)

LEMMA Going ==
  ASSUME TypeOK, NEW c \in Callers, NEW x, Goto(c, x)
  PROVE  pc'[c] = x /\ \A d \in Callers \ {c} : pc'[d] = pc[d]
BY DEF TypeOK, Goto

\* A call that begins.
LEMMA Entering ==
  ASSUME TypeOK, NEW c \in Callers, NEW o, NEW r, NEW to, Enter(c, o, r, to)
  PROVE  /\ pc[c] = "idle" /\ o \in scene.ops /\ UNCHANGED <<server, goroutines, restartMu, mine>>
         /\ pc'[c] = to /\ op'[c] = o /\ arg'[c] = r /\ was'[c] = running /\ ok'[c]
         /\ \A d \in Callers \ {c} : pc'[d] = pc[d] /\ op'[d] = op[d] /\ arg'[d] = arg[d]
                                     /\ was'[d] = was[d] /\ ok'[d] = ok[d]
<1>1. Goto(c, to)
  BY DEF Enter
<1> QED
  BY <1>1, Going DEF TypeOK, Enter

\* Of the callers of operations that exclude each other one works on the server.
LEMMA OneWorker ==
  ASSUME HolderInv, NEW c \in Callers, NEW d \in Callers,
         \/ pc[c] \in Working /\ pc[d] \in Working
         \/ op[c] \in AppOps /\ op[d] \in AppOps /\ pc[c] # "idle" /\ pc[d] # "idle"
  PROVE  c = d
<1>1. pc[c] # "idle" /\ pc[d] # "idle"
  BY DEF Working
<1> QED
  BY <1>1 DEF HolderInv, Serial, AppOps, Working

\* The steps of a worker between Lock and Unlock.
Inner(c) ==
    \/ Again(c) \/ System(c) \/ StopCheck(c) \/ StopFlag(c) \/ StopCancel(c) \/ StopServices(c)
    \/ StopListener(c) \/ StopWait(c) \/ Config(c) \/ Context(c) \/ StartCheck(c) \/ Listen(c)
    \/ StartField(c) \/ StartFlag(c) \/ StartServices(c) \/ StartLoop(c)

LEMMA InnerSteps ==
  ASSUME TypeOK, NEW c \in Callers, Inner(c)
  PROVE  /\ pc[c] \in Working /\ pc'[c] \in Labels \ {"idle", "lock", "point"}
         /\ \A d \in Callers \ {c} : pc'[d] = pc[d]
         /\ UNCHANGED <<op, arg, was, locks, scene, pending, conns>>
<1> USE DEF Step, Goto, goroutines, locks
<1>1. \E x : x \in Labels \ {"idle", "lock", "point"} /\ pc' = [pc EXCEPT ![c] = x]
  <2> USE DEF Labels
  <2>1. CASE Again(c)
    BY <2>1 DEF Again
  <2>2. CASE System(c)
    BY <2>2 DEF System
  <2>3. CASE StopCheck(c)
    BY <2>3 DEF StopCheck, Stopped
  <2>4. CASE StopFlag(c)
    BY <2>4 DEF StopFlag
  <2>5. CASE StopCancel(c)
    BY <2>5 DEF StopCancel
  <2>6. CASE StopServices(c)
    BY <2>6 DEF StopServices
  <2>7. CASE StopListener(c)
    BY <2>7 DEF StopListener
  <2>8. CASE StopWait(c)
    BY <2>8 DEF StopWait, Stopped
  <2>9. CASE Config(c)
    BY <2>9 DEF Config
  <2>10. CASE Context(c)
    BY <2>10 DEF Context
  <2>11. CASE StartCheck(c)
    BY <2>11 DEF StartCheck, Failed
  <2>12. CASE Listen(c)
    <3>1. pc' = [pc EXCEPT ![c] = "startField"] \/ pc' = [pc EXCEPT ![c] = "unlock"]
      BY <2>12, Zenon DEF Listen, Failed
    <3> QED
      BY <3>1
  <2>13. CASE StartField(c)
    BY <2>13 DEF StartField
  <2>14. CASE StartFlag(c)
    BY <2>14 DEF StartFlag
  <2>15. CASE StartServices(c)
    BY <2>15 DEF StartServices
  <2>16. CASE StartLoop(c)
    BY <2>16 DEF StartLoop
  <2> QED
    BY <2>1, <2>2, <2>3, <2>4, <2>5, <2>6, <2>7, <2>8, <2>9, <2>10, <2>11, <2>12, <2>13, <2>14,
       <2>15, <2>16 DEF Inner
<1>2. pc[c] \in Working
  BY DEF Inner, Working, Labels, Again, System, StopCheck, StopFlag, StopCancel, StopServices,
         StopListener, StopWait, Config, Context, StartCheck, Listen, StartField, StartFlag,
         StartServices, StartLoop
<1>3. UNCHANGED <<op, arg, was, locks, scene, pending, conns>>
  BY Zenon DEF Inner, Again, System, StopCheck, StopFlag, StopCancel, StopServices,
         StopListener, StopWait, Config, Context, StartCheck, Listen, StartField, StartFlag,
         StartServices, StartLoop
<1> QED
  BY <1>1, <1>2, <1>3 DEF TypeOK

LEMMA HolderStep ==
  ASSUME TypeOK, HolderInv, [Next]_vars PROVE HolderInv'
<1> USE ServerAssumption DEF HolderInv
<1>1. ASSUME NEW c \in Callers, Inner(c) PROVE HolderInv'
  BY <1>1, InnerSteps DEF locks, Working
<1>2. ASSUME NEW c \in Callers, Lock(c) PROVE HolderInv'
  <2>1. pc[c] = "lock" /\ pc'[c] = "stopCheck" /\ \A d \in Callers \ {c} : pc'[d] = pc[d]
    BY <1>2, Going DEF Lock, Step
  <2>2. restartMu = Nobody /\ restartMu' = c /\ UNCHANGED <<op, appMu, scene>>
    BY <1>2 DEF Lock, goroutines
  <2> QED
    BY <2>1, <2>2 DEF Working
<1>3. ASSUME NEW c \in Callers, Unlock(c) PROVE HolderInv'
  <2>1. /\ pc[c] = "unlock" /\ pc'[c] \in {"return", "again", "system"}
        /\ op[c] = "external" => pc'[c] = "return"
        /\ \A d \in Callers \ {c} : pc'[d] = pc[d]
    BY <1>3, Going DEF Unlock, Step
  <2>2. restartMu' = (IF restartMu = c THEN Nobody ELSE restartMu) /\ UNCHANGED <<op, appMu, scene>>
    BY <1>3 DEF Unlock, goroutines
  <2> QED
    BY <2>1, <2>2 DEF Working
<1>4. ASSUME NEW c \in Callers, Return(c) PROVE HolderInv'
  <2>1. pc[c] = "return" /\ pc'[c] = "idle" /\ \A d \in Callers \ {c} : pc'[d] = pc[d]
    BY <1>4, Going DEF Return, Step
  <2>2. appMu' = (IF appMu = c THEN Nobody ELSE appMu) /\ UNCHANGED <<op, restartMu, scene>>
    BY <1>4 DEF Return, goroutines
  <2> QED
    BY <2>1, <2>2 DEF Working
<1>5. ASSUME NEW c \in Callers, NEW o, NEW r, NEW to, Enter(c, o, r, to),
             o \in AppOps => TakeAppMu(c), o \notin AppOps => appMu' = appMu,
             o = "external" => to = "lock", o = "system" => to = "point"
      PROVE  HolderInv'
  BY <1>5, Entering DEF TakeAppMu, goroutines, Working, AppOps
<1>6. ASSUME NEW c \in Callers, Call(c) PROVE HolderInv'
  <2> USE DEF AppOps
  <2>1. CASE StartProxy(c)
    BY <1>5, <2>1 DEF StartProxy
  <2>2. CASE SetProxyPort(c)
    BY <1>5, <2>2 DEF SetProxyPort
  <2>3. CASE SetSSLEnabled(c)
    BY <1>5, <2>3 DEF SetSSLEnabled
  <2>4. CASE SetExternalProxy(c)
    BY <1>5, <2>4 DEF SetExternalProxy
  <2>5. CASE StopProxy(c)
    BY <1>5, <2>5 DEF StopProxy
  <2>6. CASE ExitApp(c)
    BY <2>6 DEF ExitApp, Enter, Serial
  <2>7. CASE SetSystemProxy(c)
    BY <1>5, <2>7 DEF SetSystemProxy
  <2> QED
    BY <1>6, <2>1, <2>2, <2>3, <2>4, <2>5, <2>6, <2>7 DEF Call
<1>11. ASSUME NEW c \in Callers, Point(c) PROVE HolderInv'
  <2>1. pc[c] = "point" /\ pc'[c] = "return" /\ \A d \in Callers \ {c} : pc'[d] = pc[d]
    BY <1>11, Going DEF Point, Step
  <2>2. UNCHANGED <<op, locks, scene>>
    BY <1>11 DEF Point, goroutines
  <2> QED
    BY <2>1, <2>2 DEF locks, Working
<1>7. ASSUME UNCHANGED <<pc, op, locks, scene>> PROVE HolderInv'
  BY <1>7 DEF locks
<1>8. ASSUME NEW i \in DOMAIN loops, Fetch(i) \/ Accept(i) \/ AcceptFails(i) PROVE HolderInv'
  BY <1>7, <1>8 DEF Fetch, Accept, AcceptFails, callers
<1>9. ASSUME Begin \/ (\E g \in conns : End(g)) PROVE HolderInv'
  BY <1>7, <1>9 DEF Begin, End, callers
<1>10. ASSUME UNCHANGED vars PROVE HolderInv'
  BY <1>7, <1>10 DEF vars, callers, goroutines
<1> QED
  BY <1>1, <1>2, <1>3, <1>4, <1>6, <1>8, <1>9, <1>10, <1>11 DEF Next, Proceed, Inner

-----------------------------------------------------------------------------
(* The stages                                                              *)

\* What is said of the server does not change while it and its loops do not.
LEMMA Frame ==
  ASSUME UNCHANGED <<server, loops>>
  PROVE  /\ Up' <=> Up
         /\ Down' <=> Down
         /\ \A c \in Callers : pc'[c] = pc[c] /\ mine'[c] = mine[c] => (StageInv(c)' <=> StageInv(c))
<1>1. \A S : (OpenAre(S)' <=> OpenAre(S)) /\ (LiveAre(S)' <=> LiveAre(S))
  BY DEF server, OpenAre, LiveAre
<1>2. (OneLoop' <=> OneLoop) /\ (Bound' <=> Bound)
  BY <1>1 DEF server, OneLoop, Bound
<1>3. (Up' <=> Up) /\ (Down' <=> Down) /\ (Closing' <=> Closing)
  BY <1>1, <1>2 DEF server, Up, Down, Closing
<1>4. ASSUME NEW c \in Callers, pc'[c] = pc[c], mine'[c] = mine[c] PROVE StageInv(c)' <=> StageInv(c)
  BY <1>1, <1>2, <1>3, <1>4 DEF server, StageInv
<1> QED
  BY <1>3, <1>4

\* A step of the worker has to be followed at its own stage only.
LEMMA Worker ==
  ASSUME ServerInv, HolderInv', NEW c \in Callers, pc[c] \in Working,
         \A d \in Callers \ {c} : pc'[d] = pc[d],
         pc'[c] \in Working => StageInv(c)',
         pc'[c] \notin Working => (Up \/ Down)'
  PROVE  ServerInv'
<1>1. ASSUME NEW d \in Callers, d # c PROVE pc'[d] \notin Working
  BY <1>1, OneWorker DEF ServerInv
<1>2. ASSUME NEW d \in Callers, pc'[d] \in Working PROVE StageInv(d)'
  BY <1>1, <1>2
<1>3. ASSUME NoWorker' PROVE (Up \/ Down)'
  BY <1>3 DEF NoWorker, Working, Labels
<1> QED
  BY <1>2, <1>3 DEF ServerInv

\* The worker's first steps, which take the server down.
LEMMA StopSteps ==
  ASSUME TypeOK, NEW c \in Callers, StageInv(c),
         \/ StopCheck(c) \/ StopFlag(c) \/ StopCancel(c) \/ StopServices(c)
         \/ StopListener(c) \/ StopWait(c)
  PROVE  IF pc'[c] \in Working THEN StageInv(c)' ELSE (Up \/ Down)'
<1>1. CASE StopCheck(c)
  <2>1. pc[c] = "stopCheck" /\ pc'[c] = (IF running THEN "stopFlag" ELSE Stopped(c))
    BY <1>1, Going DEF StopCheck, Step
  <2>2. UNCHANGED <<server, loops>>
    BY <1>1 DEF StopCheck, goroutines
  <2>3. Up \/ Down
    BY <2>1 DEF StageInv
  <2>4. (running => Up') /\ (~ running => Down')
    BY <2>2, <2>3, Frame DEF Up, Down
  <2>5. pc'[c] \in {"stopFlag", "return", "config"} /\ (pc'[c] = "stopFlag" <=> running)
    BY <2>1 DEF Stopped, TypeOK
  <2> QED
    BY <2>4, <2>5 DEF StageInv, Working
<1>2. CASE StopFlag(c)
  <2>1. pc[c] = "stopFlag" /\ pc'[c] = "stopCancel"
    BY <1>2, Going DEF StopFlag, Step
  <2>2. running' = FALSE /\ UNCHANGED <<listener, sockets, loops>>
    BY <1>2 DEF StopFlag, goroutines
  <2>3. Bound /\ OneLoop
    BY <2>1 DEF StageInv, Up
  <2>4. Bound' /\ OneLoop'
    BY <2>2, <2>3 DEF Bound, OpenAre, OneLoop, LiveAre
  <2> QED
    BY <2>1, <2>2, <2>4 DEF StageInv, Working, Labels
<1>3. CASE StopCancel(c)
  <2>1. pc[c] = "stopCancel" /\ pc'[c] = "stopServices"
    BY <1>3, Going DEF StopCancel, Step
  <2>2. UNCHANGED <<running, listener, sockets, loops>>
    BY <1>3 DEF StopCancel, goroutines
  <2>3. ~ running /\ Bound /\ OneLoop
    BY <2>1 DEF StageInv
  <2>4. Bound' /\ OneLoop'
    BY <2>2, <2>3 DEF Bound, OpenAre, OneLoop, LiveAre
  <2> QED
    BY <2>1, <2>2, <2>3, <2>4 DEF StageInv, Working, Labels
<1>4. CASE StopServices(c)
  <2>1. pc[c] = "stopServices" /\ pc'[c] = "stopListener"
    BY <1>4, Going DEF StopServices, Step
  <2>2. services' = {} /\ UNCHANGED <<running, listener, sockets, loops>>
    BY <1>4 DEF StopServices, goroutines
  <2>3. ~ running /\ Bound /\ OneLoop
    BY <2>1 DEF StageInv
  <2>4. Bound' /\ OneLoop'
    BY <2>2, <2>3 DEF Bound, OpenAre, OneLoop, LiveAre
  <2> QED
    BY <2>1, <2>2, <2>3, <2>4 DEF StageInv, Working, Labels
<1>5. CASE StopListener(c)
  <2>1. pc[c] = "stopListener" /\ pc'[c] = "stopWait"
    BY <1>5, Going DEF StopListener, Step
  <2>2. UNCHANGED <<running, services, listener, loops>>
    BY <1>5 DEF StopListener, goroutines
  <2>3. ~ running /\ Bound /\ OneLoop /\ services = {}
    BY <2>1 DEF StageInv
  <2>4. listener \in DOMAIN sockets /\ listener # 0
    BY <2>3, LenProperties DEF Bound, TypeOK
  <2>5. sockets' = [sockets EXCEPT ![listener].open = FALSE]
    BY <1>5, <2>4 DEF StopListener
  <2>6. /\ DOMAIN sockets' = DOMAIN sockets
        /\ ~ sockets'[listener].open /\ \A k \in DOMAIN sockets \ {listener} : sockets'[k] = sockets[k]
    BY <2>4, <2>5, SocketClosed
  <2>7. OpenAre({})'
    BY <2>3, <2>6 DEF OpenAre, Bound
  <2>8. OneLoop'
    BY <2>2, <2>3 DEF OneLoop, LiveAre
  <2>9. Closing'
    BY <2>2, <2>3, <2>4, <2>6, <2>7, <2>8 DEF Closing
  <2> QED
    BY <2>1, <2>9 DEF StageInv, Working, Labels
<1>6. CASE StopWait(c)
  <2>1. pc[c] = "stopWait" /\ pc'[c] = Stopped(c)
    BY <1>6, Going DEF StopWait, Step
  <2>2. Live = {} /\ UNCHANGED <<server, loops>>
    BY <1>6 DEF StopWait, goroutines
  <2>3. Closing
    BY <2>1 DEF StageInv
  <2>4. LiveAre({})
    BY <2>2 DEF Live, LiveAre
  <2>5. Down'
    BY <2>2, <2>3, <2>4, Frame DEF Closing, Down
  <2>6. pc'[c] \in {"return", "config"}
    BY <2>1 DEF Stopped
  <2> QED
    BY <2>5, <2>6 DEF StageInv, Working
<1> QED
  BY <1>1, <1>2, <1>3, <1>4, <1>5, <1>6

\* The worker's later steps, which bring the server up.
LEMMA StartSteps ==
  ASSUME TypeOK, NEW c \in Callers, StageInv(c),
         \/ Config(c) \/ Context(c) \/ StartCheck(c) \/ Listen(c) \/ StartField(c)
         \/ StartFlag(c) \/ StartServices(c) \/ StartLoop(c)
  PROVE  IF pc'[c] \in Working THEN StageInv(c)' ELSE (Up \/ Down)'
<1> USE DEF Working, Labels
<1>1. CASE Config(c) \/ Context(c)
  <2>1. pc[c] \in {"config", "context"} /\ pc'[c] \in {"context", "startCheck"}
    BY <1>1, Going DEF Config, Context, Step
  <2>2. UNCHANGED <<running, services, sockets, loops>>
    BY <1>1 DEF Config, Context, goroutines
  <2>3. Down'
    BY <2>1, <2>2 DEF StageInv, Down, OpenAre, LiveAre
  <2> QED
    BY <2>1, <2>3 DEF StageInv
<1>2. CASE StartCheck(c)
  <2>1. pc[c] = "startCheck" /\ UNCHANGED <<server, loops>>
    BY <1>2 DEF StartCheck, goroutines
  <2>2. Down
    BY <2>1 DEF StageInv
  <2>3. Down' /\ pc'[c] = "listen"
    BY <1>2, <2>1, <2>2, Frame, Going DEF StartCheck, Down
  <2> QED
    BY <2>3 DEF StageInv
<1>3. CASE Listen(c)
  <2>1. pc[c] = "listen" /\ UNCHANGED <<running, cfg, services, listener, loops>>
    BY <1>3 DEF Listen, goroutines
  <2>2. Down
    BY <2>1 DEF StageInv
  <2>3. CASE /\ sockets' = Append(sockets, [port |-> cfg.port, open |-> TRUE])
             /\ mine' = [mine EXCEPT ![c] = Len(sockets) + 1]
             /\ Goto(c, "startField")
    <3>1. cfg.port \in Ports /\ Len(sockets) \in Nat
      BY LenProperties DEF TypeOK, Configs
    <3>2. mine'[c] = Len(sockets) + 1 /\ pc'[c] = "startField"
      BY <2>3, Going DEF TypeOK
    <3>3. /\ Len(sockets') = Len(sockets) + 1
          /\ sockets'[Len(sockets')] = [port |-> cfg.port, open |-> TRUE]
          /\ \A k \in DOMAIN sockets : sockets'[k] = sockets[k]
          /\ DOMAIN sockets' = 1 .. (Len(sockets) + 1) /\ DOMAIN sockets = 1 .. Len(sockets)
      BY <2>3, <3>1, SocketBound
    <3>4. /\ mine'[c] \in DOMAIN sockets' /\ sockets'[mine'[c]] = [port |-> cfg.port, open |-> TRUE]
          /\ \A k \in DOMAIN sockets' \ {mine'[c]} : k \in DOMAIN sockets /\ sockets'[k] = sockets[k]
      BY <3>1, <3>2, <3>3
    <3>5. \A k \in DOMAIN sockets' : sockets'[k].open <=> k \in {mine'[c]}
      BY <2>2, <3>4 DEF Down, OpenAre
    <3>6. LiveAre({})'
      BY <2>1, <2>2 DEF Down, LiveAre
    <3> QED
      BY <2>1, <2>2, <3>2, <3>4, <3>5, <3>6 DEF StageInv, Down, OpenAre
  <2>4. CASE Failed(c) /\ UNCHANGED sockets
    <3>1. pc'[c] = "unlock"
      BY <2>4, Going DEF Failed
    <3>2. Down'
      BY <2>1, <2>2, <2>4 DEF Down, OpenAre, LiveAre
    <3> QED
      BY <3>1, <3>2 DEF StageInv
  <2> QED
    BY <1>3, <2>3, <2>4, Zenon DEF Listen
<1>4. CASE StartField(c)
  <2>1. pc[c] = "startField" /\ pc'[c] = "startFlag"
    BY <1>4, Going DEF StartField, Step
  <2>2. listener' = mine[c] /\ UNCHANGED <<cfg, running, sockets, services, loops, mine>>
    BY <1>4 DEF StartField, goroutines
  <2>3. LiveAre({})' /\ OpenAre({mine[c]})'
    BY <2>1, <2>2 DEF StageInv, LiveAre, OpenAre
  <2> QED
    BY <2>1, <2>2, <2>3 DEF StageInv
<1>5. CASE StartFlag(c)
  <2>1. pc[c] = "startFlag" /\ pc'[c] = "startServices"
    BY <1>5, Going DEF StartFlag, Step
  <2>2. running' = TRUE /\ UNCHANGED <<cfg, listener, sockets, services, loops, mine>>
    BY <1>5 DEF StartFlag, goroutines
  <2>3. LiveAre({})' /\ Bound'
    BY <2>1, <2>2 DEF StageInv, LiveAre, OpenAre, Bound
  <2> QED
    BY <2>1, <2>2, <2>3 DEF StageInv
<1>6. CASE StartServices(c)
  <2>1. pc[c] = "startServices" /\ pc'[c] = "startLoop"
    BY <1>6, Going DEF StartServices, Step
  <2>2. "discovery" \in services' /\ UNCHANGED <<running, cfg, listener, sockets, loops>>
    BY <1>6 DEF StartServices, goroutines
  <2>3. LiveAre({})' /\ Bound'
    BY <2>1, <2>2 DEF StageInv, LiveAre, OpenAre, Bound
  <2> QED
    BY <2>1, <2>2, <2>3 DEF StageInv
<1>7. CASE StartLoop(c)
  <2>1. pc[c] = "startLoop" /\ pc'[c] = "unlock"
    BY <1>7, Going DEF StartLoop, Step
  <2>2. UNCHANGED server /\ loops' = Append(loops, [at |-> "fetch", on |-> 0])
    BY <1>7 DEF StartLoop
  <2>3. /\ running /\ LiveAre({}) /\ Bound /\ sockets[listener].port = cfg.port
        /\ "discovery" \in services
    BY <2>1 DEF StageInv
  <2>4. /\ Len(loops') = Len(loops) + 1 /\ Len(loops) \in Nat
        /\ loops'[Len(loops')] = [at |-> "fetch", on |-> 0]
        /\ \A k \in DOMAIN loops : loops'[k] = loops[k]
        /\ DOMAIN loops' = 1 .. (Len(loops) + 1) /\ DOMAIN loops = 1 .. Len(loops)
    BY <2>2, LoopStarted, LenProperties DEF TypeOK
  <2>5. /\ Len(loops') \in DOMAIN loops'
        /\ \A k \in DOMAIN loops' \ {Len(loops')} : k \in DOMAIN loops /\ loops'[k] = loops[k]
    BY <2>4
  <2>6. LiveAre({Len(loops)})'
    BY <2>3, <2>4, <2>5 DEF LiveAre
  <2>7. OneLoop'
    <3>1. PICK n \in DOMAIN loops' : n = Len(loops')
      BY <2>5
    <3>2. LiveAre({n})' /\ loops'[n].on = 0 /\ loops'[n].at = "fetch"
      BY <2>4, <2>6, <3>1 DEF LiveAre
    <3> QED
      BY <3>2 DEF OneLoop
  <2>8. Up'
    BY <2>2, <2>3, <2>7 DEF Up, Bound, OpenAre, server
  <2> QED
    BY <2>1, <2>8 DEF StageInv
<1> QED
  BY <1>1, <1>2, <1>3, <1>4, <1>5, <1>6, <1>7

\* The steps of a loop: while the server is up it has one, which goes on, and when
\* its listener has been closed under it, it ends.
LEMMA LoopSteps ==
  ASSUME TypeOK, NEW i \in DOMAIN loops, Fetch(i) \/ Accept(i) \/ AcceptFails(i)
  PROVE  /\ UNCHANGED <<server, pc, mine>> /\ ~ LiveAre({})
         /\ Bound /\ OneLoop => OneLoop'
         /\ Closing => Closing'
<1>1. UNCHANGED <<server, pc, mine>>
  BY DEF Fetch, Accept, AcceptFails, callers
<1>2. loops[i].at # "done"
  BY DEF Fetch, Accept, AcceptFails
<1>3. ~ LiveAre({})
  BY <1>2 DEF LiveAre
<1>4. ASSUME NEW s \in LoopState(Len(sockets)), Loop(i, s), OneLoop
      PROVE  /\ LiveAre({i}) /\ loops[i].on \in {0, listener}
             /\ loops[i].at = "accept" => loops[i].on = listener
             /\ DOMAIN loops' = DOMAIN loops /\ loops'[i] = s
             /\ \A j \in DOMAIN loops \ {i} : loops'[j] = loops[j] /\ loops'[j].at = "done"
  BY <1>2, <1>4, LoopMoved DEF OneLoop, LiveAre
<1>5. CASE Fetch(i)
  <2>1. [at |-> "accept", on |-> listener] \in LoopState(Len(sockets))
    BY DEF TypeOK, LoopState
  <2>2. Loop(i, [at |-> "accept", on |-> listener])
    BY <1>5 DEF Fetch
  <2>3. ASSUME OneLoop PROVE OneLoop'
    BY <1>1, <1>4, <2>1, <2>2, <2>3 DEF OneLoop, LiveAre, server
  <2> QED
    BY <1>1, <1>3, <2>3 DEF Closing, OpenAre, server
<1>6. CASE Accept(i)
  <2>1. [at |-> "fetch", on |-> 0] \in LoopState(Len(sockets))
    BY LenProperties DEF TypeOK, LoopState
  <2>2. Loop(i, [at |-> "fetch", on |-> 0]) /\ loops[i].at = "accept" /\ sockets[loops[i].on].open
    BY <1>6 DEF Accept
  <2>3. ASSUME OneLoop PROVE OneLoop'
    BY <1>1, <1>4, <2>1, <2>2, <2>3 DEF OneLoop, LiveAre, server
  <2> QED
    BY <1>1, <1>3, <2>3 DEF Closing, OpenAre, server
<1>7. CASE AcceptFails(i)
  <2> DEFINE s == [at |-> IF running THEN "fetch" ELSE "done", on |-> 0]
  <2>1. s \in LoopState(Len(sockets))
    BY LenProperties DEF TypeOK, LoopState
  <2>2. Loop(i, s) /\ loops[i].at = "accept" /\ ~ sockets[loops[i].on].open
    BY <1>7 DEF AcceptFails
  <2>3. ~ (Bound /\ OneLoop)
    BY <1>4, <2>1, <2>2 DEF Bound, OpenAre
  <2>4. ASSUME Closing PROVE Closing'
    <3>1. OneLoop /\ ~ running
      BY <1>3, <2>4 DEF Closing
    <3>2. loops'[i].at = "done"
      BY <1>4, <2>1, <2>2, <3>1
    <3>3. LiveAre({})'
      BY <1>4, <2>1, <2>2, <3>1, <3>2 DEF LiveAre
    <3> QED
      BY <1>1, <2>4, <3>3 DEF Closing, OpenAre, server
  <2> QED
    BY <1>1, <1>3, <2>3, <2>4
<1> QED
  BY <1>5, <1>6, <1>7

\* A call that begins, gets the lock, switches the system proxy by hand or returns
\* leaves the server alone, and begins to work on it only when nobody does.
Outer(c) == Call(c) \/ Lock(c) \/ Point(c) \/ Return(c)

LEMMA OuterSteps ==
  ASSUME TypeOK, HolderInv, NEW c \in Callers, Outer(c)
  PROVE  /\ UNCHANGED <<server, goroutines, mine>>
         /\ pc[c] \notin Working /\ \A d \in Callers \ {c} : pc'[d] = pc[d]
         /\ pc'[c] \in Working => pc'[c] = "stopCheck" /\ NoWorker
<1> USE DEF Working
<1>1. ASSUME NEW o, NEW r, NEW to, Enter(c, o, r, to)
      PROVE  /\ UNCHANGED <<server, goroutines, mine>>
             /\ pc[c] = "idle" /\ pc'[c] = to /\ (\A d \in Callers \ {c} : pc'[d] = pc[d])
             /\ o \in scene.ops
  BY <1>1, Entering
<1>2. CASE StartProxy(c) \/ SetProxyPort(c) \/ SetExternalProxy(c) \/ SetSystemProxy(c)
  BY <1>1, <1>2 DEF StartProxy, SetProxyPort, SetExternalProxy, SetSystemProxy
<1>3. CASE SetSSLEnabled(c)
  BY <1>1, <1>3 DEF SetSSLEnabled
<1>4. CASE StopProxy(c)
  <2>1. Enter(c, "stop", cfg, "stopCheck") /\ appMu = Nobody
    BY <1>4 DEF StopProxy, TakeAppMu
  <2>2. ASSUME NEW d \in Callers PROVE pc[d] \notin Working
    BY <1>1, <2>1, ServerAssumption DEF HolderInv, Serial, AppOps
  <2> QED
    BY <1>1, <2>1, <2>2 DEF NoWorker
<1>5. CASE ExitApp(c)
  BY <1>5 DEF ExitApp, Enter, HolderInv, Serial, AppOps
<1>6. CASE Lock(c)
  <2>1. /\ pc[c] = "lock" /\ pc'[c] = "stopCheck" /\ (\A d \in Callers \ {c} : pc'[d] = pc[d])
        /\ restartMu = Nobody /\ UNCHANGED <<server, goroutines, mine>>
    BY <1>6, Going DEF Lock, Step
  <2>2. ASSUME NEW d \in Callers, pc[d] \in Working PROVE FALSE
    <3>1. pc[d] # "idle" /\ d # c
      BY <2>1, <2>2
    <3>2. op[c] # "system" /\ op[d] # "system" /\ op[c] \in scene.ops /\ op[d] \in scene.ops
      BY <2>1, <2>2, <3>1 DEF HolderInv
    <3>3. op[d] = "external"
      BY <2>1, <3>1, <3>2, OneWorker DEF HolderInv, Serial
    <3> QED
      BY <2>1, <2>2, <3>1, <3>3, ServerAssumption DEF HolderInv
  <2> QED
    BY <2>1, <2>2 DEF NoWorker
<1>7. CASE Point(c) \/ Return(c)
  BY <1>7, Going DEF Point, Return, Step
<1> QED
  BY <1>2, <1>3, <1>4, <1>5, <1>6, <1>7 DEF Outer, Call

LEMMA ServerStep ==
  ASSUME TypeOK, ServerInv, [Next]_vars PROVE ServerInv'
<1>1. HolderInv /\ HolderInv'
  BY HolderStep DEF ServerInv
<1>2. ASSUME UNCHANGED <<server, loops, pc, mine>> PROVE ServerInv'
  BY <1>1, <1>2, Frame DEF ServerInv, NoWorker
<1>3. ASSUME NEW c \in Callers, Outer(c) PROVE ServerInv'
  <2>1. /\ UNCHANGED <<server, loops, mine>>
        /\ pc[c] \notin Working /\ (\A d \in Callers \ {c} : pc'[d] = pc[d])
        /\ pc'[c] \in Working => pc'[c] = "stopCheck" /\ NoWorker
    BY <1>1, <1>3, OuterSteps DEF goroutines
  <2>2. ASSUME NEW d \in Callers, pc'[d] \in Working PROVE StageInv(d)'
    <3>1. CASE d = c
      <4>1. (Up \/ Down)' /\ pc'[d] = "stopCheck"
        BY <2>1, <2>2, <3>1, Frame DEF ServerInv
      <4> QED
        BY <4>1 DEF StageInv
    <3>2. CASE d # c
      BY <2>1, <2>2, <3>2, Frame DEF ServerInv
    <3> QED
      BY <3>1, <3>2
  <2>3. ASSUME NoWorker' PROVE (Up \/ Down)'
    <3>1. NoWorker
      BY <2>1, <2>3 DEF NoWorker
    <3> QED
      BY <2>1, <3>1, Frame DEF ServerInv
  <2> QED
    BY <1>1, <2>2, <2>3 DEF ServerInv
<1>9. ASSUME NEW c \in Callers, pc[c] \in Working, \A d \in Callers \ {c} : pc'[d] = pc[d],
             IF pc'[c] \in Working THEN StageInv(c)' ELSE (Up \/ Down)'
      PROVE  ServerInv'
  BY <1>1, <1>9, Worker
<1>10. ASSUME NEW c \in Callers, Again(c) \/ System(c) \/ Unlock(c) PROVE ServerInv'
  <2>1. /\ pc[c] \in {"again", "system", "unlock"} /\ (\A d \in Callers \ {c} : pc'[d] = pc[d])
        /\ pc'[c] \in {"again", "system", "return"} \/ (pc'[c] = "startCheck" /\ ~ running)
        /\ UNCHANGED <<server, loops>>
    <3>1. CASE Again(c)
      BY <3>1, Going DEF Again, goroutines
    <3>2. CASE System(c)
      BY <3>2, Going DEF System, Step, goroutines
    <3>3. CASE Unlock(c)
      BY <3>3, Going DEF Unlock, Step, goroutines
    <3> QED
      BY <1>10, <3>1, <3>2, <3>3
  <2>2. pc[c] \in Working
    BY <2>1 DEF Working, Labels
  <2>3. (Up \/ Down) /\ (~ running => Down)
    BY <2>1, <2>2 DEF ServerInv, StageInv, Up
  <2>4. (Up \/ Down)' /\ (~ running => Down')
    BY <2>1, <2>3, Frame
  <2>5. IF pc'[c] \in Working THEN StageInv(c)' ELSE (Up \/ Down)'
    BY <2>1, <2>4 DEF StageInv
  <2> QED
    BY <1>9, <2>1, <2>2, <2>5
<1>11. ASSUME NEW c \in Callers, Inner(c), ~ Again(c), ~ System(c) PROVE ServerInv'
  <2>1. pc[c] \in Working /\ \A d \in Callers \ {c} : pc'[d] = pc[d]
    BY <1>11, InnerSteps
  <2>2. StageInv(c)
    BY <2>1 DEF ServerInv
  <2>3. IF pc'[c] \in Working THEN StageInv(c)' ELSE (Up \/ Down)'
    BY <1>11, <2>2, StopSteps, StartSteps DEF Inner
  <2> QED
    BY <1>9, <2>1, <2>3
<1>12. ASSUME NEW i \in DOMAIN loops, Fetch(i) \/ Accept(i) \/ AcceptFails(i) PROVE ServerInv'
  <2>1. /\ UNCHANGED <<server, pc, mine>> /\ ~ LiveAre({})
        /\ Bound /\ OneLoop => OneLoop'
        /\ Closing => Closing'
    BY <1>12, LoopSteps
  <2>2. Up \/ Down => Up'
    BY <2>1 DEF Up, Down, Bound, OpenAre, server
  <2>3. Bound => Bound'
    BY <2>1 DEF Bound, OpenAre, server
  <2>4. ASSUME NEW c \in Callers, StageInv(c) PROVE StageInv(c)'
    BY <2>1, <2>2, <2>3, <2>4 DEF StageInv, Up, Down, server
  <2> QED
    BY <1>1, <2>1, <2>2, <2>4 DEF ServerInv, NoWorker
<1>13. ASSUME Begin \/ (\E g \in conns : End(g)) \/ UNCHANGED vars PROVE ServerInv'
  BY <1>2, <1>13 DEF Begin, End, vars, callers, goroutines
<1> QED
  BY <1>3, <1>10, <1>11, <1>12, <1>13 DEF Next, Proceed, Inner, Outer

-----------------------------------------------------------------------------
(* Contexts                                                                *)

\* What is called and what may fail is a matter of the whole behaviour.
LEMMA SceneKept == [Next]_vars => scene' = scene
BY DEF Next, Call, Proceed, StartProxy, SetProxyPort, SetSSLEnabled, SetExternalProxy,
       SetSystemProxy, StopProxy, ExitApp, Enter, Again, System, Point, Return, StopCheck, StopFlag, StopCancel,
       StopServices, StopListener, StopWait, Lock, Config, Context, StartCheck, Listen,
       StartField, StartFlag, StartServices, StartLoop, Unlock, Fetch, Accept, AcceptFails,
       Begin, End, vars, goroutines

\* Where no port can fail to be bound, a worker does not fail.
LEMMA Succeeds ==
  ASSUME TypeOK, ~ scene.faulty, NEW c \in Callers, Down
  PROVE  /\ StartCheck(c) => pc'[c] = "listen" /\ UNCHANGED ok
         /\ Listen(c) => pc'[c] = "startField" /\ UNCHANGED ok
<1>1. ASSUME StartCheck(c) PROVE pc'[c] = "listen" /\ UNCHANGED ok
  BY <1>1, Going DEF StartCheck, Down
<1>2. Free(cfg.port)
  BY DEF Down, OpenAre, Free
<1>3. ASSUME Listen(c) PROVE pc'[c] = "startField" /\ UNCHANGED ok
  <2>1. Goto(c, "startField") /\ UNCHANGED ok
    BY <1>2, <1>3, Zenon DEF Listen
  <2> QED
    BY <2>1, Going
<1> QED
  BY <1>1, <1>3

LEMMA ContextStep ==
  ASSUME TypeOK, ServerInv, ServerInv', ContextInv, [Next]_vars PROVE ContextInv'
<1> SUFFICES ASSUME ~ scene.faulty, scene' = scene
             PROVE  /\ conns' \subseteq cancelled' \cup {ctx'}
                    /\ NoWorker' => running' \/ Clean'
                    /\ \A c \in Callers : ContextStage(c)'
  BY SceneKept DEF ContextInv
<1>1. /\ conns \subseteq cancelled \cup {ctx}
      /\ NoWorker => running \/ Clean
      /\ \A c \in Callers : ContextStage(c)
      /\ HolderInv
  BY DEF ContextInv, ServerInv
<1> DEFINE Same == UNCHANGED <<running, ctx, cancelled, pending, conns>>
<1>2. ASSUME Same PROVE Clean' <=> Clean
  BY <1>2 DEF Clean
<1>3. ASSUME NEW c \in Callers, Outer(c) PROVE ContextInv'
  <2>1. /\ Same /\ pc[c] \notin Working /\ (\A d \in Callers \ {c} : pc'[d] = pc[d])
        /\ pc'[c] \in Working => pc'[c] = "stopCheck" /\ NoWorker
    BY <1>1, <1>3, OuterSteps DEF goroutines, server
  <2>2. NoWorker' => NoWorker
    BY <2>1 DEF NoWorker
  <2>3. ASSUME NEW d \in Callers PROVE ContextStage(d)'
    <3>1. CASE d = c
      BY <1>1, <1>2, <2>1, <3>1 DEF ContextStage, Working, Labels
    <3>2. CASE d # c
      BY <1>1, <1>2, <2>1, <3>2 DEF ContextStage
    <3> QED
      BY <3>1, <3>2
  <2> QED
    BY <1>1, <1>2, <2>1, <2>2, <2>3 DEF ContextInv
<1>4. ASSUME NEW c \in Callers, pc[c] \in Working, \A d \in Callers \ {c} : pc'[d] = pc[d],
             conns' \subseteq cancelled' \cup {ctx'}, ContextStage(c)',
             pc'[c] \notin Working => running' \/ Clean'
      PROVE  ContextInv'
  <2>1. ASSUME NEW d \in Callers, d # c PROVE pc'[d] \notin Working
    BY <1>1, <1>4, <2>1, OneWorker
  <2>2. ASSUME NEW d \in Callers PROVE ContextStage(d)'
    BY <1>4, <2>1 DEF ContextStage, Working, Labels
  <2> QED
    BY <1>4, <2>2 DEF ContextInv, NoWorker
<1>5. ASSUME NEW c \in Callers, StopCheck(c) PROVE ContextInv'
  <2>1. /\ pc[c] = "stopCheck" /\ pc'[c] = (IF running THEN "stopFlag" ELSE Stopped(c)) /\ Same
        /\ \A d \in Callers \ {c} : pc'[d] = pc[d]
    BY <1>5, Going DEF StopCheck, Step, goroutines, server
  <2>2. running \/ Clean
    BY <1>1, <2>1 DEF ContextStage
  <2> QED
    BY <1>1, <1>2, <1>4, <2>1, <2>2 DEF ContextStage, Stopped, Working, Labels
<1>6. ASSUME NEW c \in Callers, StopFlag(c) PROVE ContextInv'
  <2>1. /\ pc[c] = "stopFlag" /\ pc'[c] = "stopCancel" /\ UNCHANGED <<ctx, cancelled, conns>>
        /\ \A d \in Callers \ {c} : pc'[d] = pc[d]
    BY <1>6, Going DEF StopFlag, Step, goroutines
  <2> QED
    BY <1>1, <1>4, <2>1 DEF ContextStage, Working, Labels
<1>7. ASSUME NEW c \in Callers, StopCancel(c) PROVE ContextInv'
  <2>1. /\ pc[c] = "stopCancel" /\ pc'[c] = "stopServices" /\ UNCHANGED <<ctx, conns>>
        /\ cancelled' = cancelled \cup {ctx} /\ \A d \in Callers \ {c} : pc'[d] = pc[d]
    BY <1>7, Going DEF StopCancel, Step, goroutines
  <2> QED
    BY <1>1, <1>4, <2>1 DEF ContextStage, Working, Labels
<1>8. ASSUME NEW c \in Callers, StopServices(c) \/ StopListener(c) PROVE ContextInv'
  <2>1. /\ pc[c] \in {"stopServices", "stopListener"} /\ pc'[c] \in {"stopListener", "stopWait"}
        /\ UNCHANGED <<ctx, cancelled, conns>> /\ \A d \in Callers \ {c} : pc'[d] = pc[d]
    BY <1>8, Going DEF StopServices, StopListener, Step, goroutines
  <2> QED
    BY <1>1, <1>4, <2>1 DEF ContextStage, Working, Labels
<1>9. ASSUME NEW c \in Callers, StopWait(c) PROVE ContextInv'
  <2>1. /\ pc[c] = "stopWait" /\ pc'[c] = Stopped(c) /\ Same
        /\ \A d \in Callers \ {c} : pc'[d] = pc[d]
    BY <1>9, Going DEF StopWait, Step, goroutines, server
  <2>2. Clean
    BY <1>1, <2>1 DEF ContextStage, Clean
  <2> QED
    BY <1>1, <1>2, <1>4, <2>1, <2>2 DEF ContextStage, Stopped, Working, Labels
<1>10. ASSUME NEW c \in Callers, Config(c) PROVE ContextInv'
  <2>1. /\ pc[c] = "config" /\ pc'[c] = "context" /\ Same
        /\ \A d \in Callers \ {c} : pc'[d] = pc[d]
    BY <1>10, Going DEF Config, Step, goroutines
  <2> QED
    BY <1>1, <1>2, <1>4, <2>1 DEF ContextStage, Working, Labels
<1>11. ASSUME NEW c \in Callers, Context(c) PROVE ContextInv'
  <2>1. /\ pc[c] = "context" /\ pc'[c] = "startCheck" /\ UNCHANGED <<cancelled, conns>>
        /\ \A d \in Callers \ {c} : pc'[d] = pc[d]
    BY <1>11, Going DEF Context, Step, goroutines
  <2>2. conns \subseteq cancelled
    BY <1>1, <2>1 DEF ContextStage, Clean
  <2> QED
    BY <1>4, <2>1, <2>2 DEF ContextStage, Working, Labels
<1>12. ASSUME NEW c \in Callers, StartCheck(c) \/ Listen(c) PROVE ContextInv'
  <2>1. /\ pc[c] \in {"startCheck", "listen"} /\ UNCHANGED <<ctx, cancelled, conns>>
    BY <1>12 DEF StartCheck, Listen, goroutines, server
  <2>2. pc[c] \in Working /\ \A d \in Callers \ {c} : pc'[d] = pc[d]
    BY <1>12, InnerSteps DEF Inner
  <2>3. Down
    BY <2>1, <2>2 DEF ServerInv, StageInv
  <2>4. pc'[c] \in {"listen", "startField"}
    BY <1>12, <2>3, Succeeds
  <2> QED
    BY <1>1, <1>4, <2>1, <2>2, <2>4 DEF ContextStage, Working, Labels
<1>13. ASSUME NEW c \in Callers, StartField(c) \/ StartFlag(c) \/ StartServices(c) PROVE ContextInv'
  <2>1. /\ pc[c] \in Working /\ pc'[c] \in {"startFlag", "startServices", "startLoop"}
        /\ UNCHANGED <<ctx, cancelled, conns>> /\ \A d \in Callers \ {c} : pc'[d] = pc[d]
    BY <1>13, Going DEF StartField, StartFlag, StartServices, Step, goroutines, Working, Labels
  <2> QED
    BY <1>1, <1>4, <2>1 DEF ContextStage, Working, Labels
<1>14. ASSUME NEW c \in Callers, StartLoop(c) PROVE ContextInv'
  <2>1. /\ pc[c] = "startLoop" /\ pc'[c] = "unlock" /\ UNCHANGED <<running, ctx, cancelled, conns>>
        /\ \A d \in Callers \ {c} : pc'[d] = pc[d]
    BY <1>14, Going DEF StartLoop, Step, server
  <2>2. running
    BY <2>1 DEF ServerInv, StageInv, Working, Labels
  <2> QED
    BY <1>1, <1>4, <2>1, <2>2 DEF ContextStage, Working, Labels
<1>15. ASSUME NEW c \in Callers, Again(c) \/ System(c) \/ Unlock(c) PROVE ContextInv'
  <2>1. /\ pc[c] \in {"again", "system", "unlock"} /\ (\A d \in Callers \ {c} : pc'[d] = pc[d])
        /\ pc'[c] \in {"again", "system", "return"} \/ (pc'[c] = "startCheck" /\ ~ running)
        /\ Same
    <3>1. CASE Again(c)
      BY <3>1, Going DEF Again, goroutines, server
    <3>2. CASE System(c)
      BY <3>2, Going DEF System, Step, goroutines, server
    <3>3. CASE Unlock(c)
      BY <3>3, Going DEF Unlock, Step, goroutines, server
    <3> QED
      BY <1>15, <3>1, <3>2, <3>3
  <2>2. running
    BY <1>1, <2>1 DEF ContextStage
  <2> QED
    BY <1>1, <1>4, <2>1, <2>2 DEF ContextStage, Working, Labels
<1>16. ASSUME NEW i \in DOMAIN loops, Fetch(i) \/ Accept(i) \/ AcceptFails(i) PROVE ContextInv'
  <2>1. UNCHANGED <<running, ctx, cancelled, conns, pc>>
    BY <1>16, LoopSteps DEF server, Fetch, Accept, AcceptFails
  <2>2. ~ Down
    BY <1>16, LoopSteps DEF Down
  <2>3. ASSUME NEW c \in Callers PROVE ContextStage(c)'
    <3>1. pc[c] \in Working => StageInv(c)
      BY DEF ServerInv
    <3>2. /\ pc[c] = "stopCheck" => running
          /\ pc[c] \notin {"config", "context"}
      BY <2>2, <3>1 DEF StageInv, Up, Working, Labels
    <3> QED
      BY <1>1, <2>1, <3>2 DEF ContextStage
  <2>4. NoWorker' => running'
    BY <2>1, <2>2 DEF ServerInv, Up, NoWorker
  <2> QED
    BY <1>1, <2>1, <2>3, <2>4 DEF ContextInv
<1>17. ASSUME Begin \/ (\E g \in conns : End(g)) PROVE ContextInv'
  <2>1. UNCHANGED <<running, ctx, cancelled, pc>> /\ conns' \subseteq conns \cup {ctx}
    BY <1>17 DEF Begin, End, server, callers
  <2>2. Clean => Clean'
    <3>1. CASE Begin
      BY <3>1 DEF Begin, Clean, server
    <3>2. CASE \E g \in conns : End(g)
      BY <3>2 DEF End, Clean, server
    <3> QED
      BY <1>17, <3>1, <3>2
  <2>3. ASSUME NEW c \in Callers PROVE ContextStage(c)'
    BY <1>1, <2>1, <2>2 DEF ContextStage
  <2> QED
    BY <1>1, <2>1, <2>2, <2>3 DEF ContextInv, NoWorker
<1>18. ASSUME UNCHANGED vars PROVE ContextInv'
  <2>1. Same /\ UNCHANGED pc
    BY <1>18 DEF vars, server, goroutines, callers
  <2>2. ASSUME NEW c \in Callers PROVE ContextStage(c)'
    BY <1>1, <1>2, <2>1 DEF ContextStage
  <2> QED
    BY <1>1, <1>2, <2>1, <2>2 DEF ContextInv, NoWorker
<1> QED
  <2>1. ContextInv'
    BY <1>3, <1>5, <1>6, <1>7, <1>8, <1>9, <1>10, <1>11, <1>12, <1>13, <1>14, <1>15, <1>16, <1>17,
       <1>18 DEF Next, Proceed, Outer
  <2> QED
    BY <2>1 DEF ContextInv

-----------------------------------------------------------------------------
(* The system proxy                                                        *)

\* Who waits while another caller goes on is in SetExternalProxy or SetSystemProxy,
\* or the other caller is in SetSystemProxy, after which the OS is pointed by hand.
LEMMA Others ==
  ASSUME ~ scene.faulty, HolderInv, SystemInv,
         NEW c \in Callers, NEW d \in Callers \ {c}, pc[c] # "idle", pc[d] # "idle",
         pc'[d] = pc[d] /\ op'[d] = op[d] /\ arg'[d] = arg[d] /\ was'[d] = was[d] /\ ok'[d] = ok[d],
         cfg' = cfg \/ pc[c] \in Working,
         pc[c] \in Working \/ (Pointed' => Pointed /\ sysProxy' = sysProxy)
  PROVE  SystemStage(d)'
<1>1. SystemStage(d)
  BY DEF SystemInv
<1>2. /\ op[d] = "system" => pc[d] \notin Working
      /\ op[c] = "system" => pc[c] \notin Working
  BY DEF HolderInv, Working
<1>3. pc[c] \in Working => pc[d] \notin Working
  BY OneWorker
<1>4. CASE op[d] \in {"external", "system"}
  BY <1>1, <1>2, <1>3, <1>4 DEF SystemStage
<1>5. CASE op[d] \notin {"external", "system"}
  <2>1. op[d] \in AppOps /\ op[c] \in AppOps \cup {"system"}
    BY <1>5 DEF HolderInv, Serial
  <2>2. op[c] = "system"
    BY <2>1, OneWorker
  <2>3. cfg' = cfg /\ (Pointed' => Pointed /\ sysProxy' = sysProxy)
    BY <1>2, <2>2
  <2> QED
    BY <1>1, <2>3 DEF SystemStage
<1> QED
  BY <1>4, <1>5

LEMMA SystemStep ==
  ASSUME WithSystem, TypeOK, ServerInv, ContextInv, SystemInv, [Next]_vars PROVE SystemInv'
<1> SUFFICES ASSUME ~ scene.faulty, scene' = scene PROVE SystemInv'
  BY SceneKept DEF SystemInv
<1> USE DEF Pointed
<1>1. /\ NoWorker /\ Pointed => running /\ sysProxy = cfg.port
      /\ Pointed => cfg.sys
      /\ scene.ops \subseteq {"external", "system"} => ~ Pointed
      /\ \A c \in Callers : pc[c] # "idle" => SystemStage(c)
  BY DEF SystemInv
<1>2. HolderInv /\ \A c \in Callers : ContextStage(c)
  BY DEF ServerInv, ContextInv
<1>3. ASSUME NEW c \in Callers, pc[c] # "idle"
      PROVE  /\ op[c] \in {"start", "port", "ssl", "stop", "external", "system"}
             /\ op[c] = "system" => pc[c] \in {"point", "return"}
  BY <1>2, <1>3 DEF HolderInv, Serial, AppOps
<1>4. ASSUME NEW c \in Callers, pc[c] # "idle", op[c] = "external" PROVE ~ Pointed
  BY <1>1, <1>2, <1>4 DEF HolderInv, Serial, AppOps
\* A step of a call after its first.
<1>5. ASSUME NEW c \in Callers, pc[c] # "idle", UNCHANGED <<op, arg, was>>,
             \A d \in Callers \ {c} : pc'[d] = pc[d] /\ ok'[d] = ok[d],
             cfg' = cfg \/ pc[c] \in Working,
             pc[c] \in Working \/ (Pointed' => Pointed /\ sysProxy' = sysProxy),
             NoWorker' /\ Pointed' => running' /\ sysProxy' = cfg'.port,
             Pointed' => cfg'.sys /\ (Pointed \/ op[c] # "external"),
             pc'[c] # "idle" => SystemStage(c)'
      PROVE  SystemInv'
  <2>1. ASSUME NEW d \in Callers, pc'[d] # "idle" PROVE SystemStage(d)'
    BY <1>2, <1>5, <2>1, Others
  <2>2. ASSUME scene.ops \subseteq {"external", "system"} PROVE ~ Pointed'
    BY <1>1, <1>2, <1>3, <1>5, <2>2 DEF HolderInv, Working
  <2> QED
    BY <1>5, <2>1, <2>2 DEF SystemInv
\* A step of the worker that goes on with its work.
<1>6. ASSUME NEW c \in Callers, Inner(c), pc'[c] \in Working, UNCHANGED <<cfg, osProxy, ok>>,
             SystemStage(c)'
      PROVE  SystemInv'
  <2>1. /\ pc[c] \in Working /\ (\A d \in Callers \ {c} : pc'[d] = pc[d])
        /\ UNCHANGED <<op, arg, was>> /\ ~ NoWorker' /\ pc[c] # "idle"
    BY <1>6, InnerSteps DEF NoWorker, Working
  <2>2. Pointed' <=> Pointed
    BY <1>6 DEF Pointed
  <2> QED
    BY <1>1, <1>5, <1>6, <2>1, <2>2
<1>7. ASSUME NEW c \in Callers,
             StopFlag(c) \/ StopCancel(c) \/ StopServices(c) \/ StopListener(c)
      PROVE  SystemInv'
  <2>1. /\ pc[c] \in Stopping /\ pc'[c] \in Stopping
        /\ UNCHANGED <<cfg, osProxy, op, arg, was, ok>>
    BY <1>7, Going DEF StopFlag, StopCancel, StopServices, StopListener, Step, Stopping, server
  <2>2. pc'[c] \in Working /\ SystemStage(c)
    BY <1>1, <2>1 DEF Working, Labels, Stopping
  <2> QED
    BY <1>6, <1>7, <2>1, <2>2 DEF SystemStage, Inner, Working, Labels, Stopping
<1>8. ASSUME NEW c \in Callers, StopCheck(c) \/ StopWait(c) PROVE SystemInv'
  <2>1. /\ pc[c] \in Stopping /\ pc'[c] \in {"stopFlag", Stopped(c)}
        /\ (\A d \in Callers \ {c} : pc'[d] = pc[d])
        /\ UNCHANGED <<cfg, osProxy, op, arg, was, ok>>
    BY <1>8, Going DEF StopCheck, StopWait, Step, Stopping, server
  <2>2. SystemStage(c) /\ pc[c] # "idle"
    BY <1>1, <2>1 DEF Stopping
  <2>3. CASE op[c] = "stop"
    <3>1. ~ Pointed' /\ pc'[c] \in {"stopFlag", "return"}
      BY <2>1, <2>2, <2>3 DEF SystemStage, Stopped
    <3>2. SystemStage(c)'
      BY <2>1, <2>2, <2>3, <3>1 DEF SystemStage, Working, Labels, Stopping
    <3> QED
      BY <1>5, <2>1, <2>2, <3>1, <3>2
  <2>4. CASE op[c] # "stop"
    <3>1. pc'[c] \in {"stopFlag", "config"}
      BY <1>3, <2>1, <2>2, <2>4 DEF Stopped
    <3>2. SystemStage(c)' /\ pc'[c] \in Working
      BY <2>1, <2>2, <2>4, <3>1 DEF SystemStage, Working, Labels, Stopping
    <3> QED
      BY <1>6, <1>8, <2>1, <3>2 DEF Inner
  <2> QED
    BY <2>3, <2>4
<1>9. ASSUME NEW c \in Callers, Config(c) PROVE SystemInv'
  <2>1. /\ pc[c] = "config" /\ pc'[c] = "context" /\ cfg' = arg[c]
        /\ (\A d \in Callers \ {c} : pc'[d] = pc[d])
        /\ UNCHANGED <<osProxy, op, arg, was, ok>>
    BY <1>9, Going DEF Config, Step
  <2>2. SystemStage(c) /\ pc[c] \in Working /\ op[c] # "stop"
    BY <1>1, <2>1 DEF SystemStage, Working, Labels, Stopping
  <2>3. Pointed => arg[c].sys
    BY <1>3, <1>4, <2>1, <2>2 DEF SystemStage
  <2>4. SystemStage(c)' /\ ~ NoWorker'
    BY <2>1, <2>2 DEF SystemStage, NoWorker, Working, Labels
  <2> QED
    BY <1>5, <2>1, <2>2, <2>3, <2>4
<1>10. ASSUME NEW c \in Callers,
              Context(c) \/ StartField(c) \/ StartFlag(c) \/ StartServices(c) \/ StartLoop(c)
       PROVE  SystemInv'
  <2>1. /\ pc[c] \in {"context", "startField", "startFlag", "startServices", "startLoop"}
        /\ pc'[c] \in {"startCheck", "startFlag", "startServices", "startLoop", "unlock"}
        /\ UNCHANGED <<cfg, osProxy, op, arg, was, ok>>
    BY <1>10, Going DEF Context, StartField, StartFlag, StartServices, StartLoop, Step, server
  <2>2. SystemStage(c) /\ pc'[c] \in Working
    BY <1>1, <2>1 DEF Working, Labels
  <2>3. SystemStage(c)'
    BY <2>1, <2>2 DEF SystemStage, Working, Labels, Stopping
  <2> QED
    BY <1>6, <1>10, <2>1, <2>2, <2>3 DEF Inner
<1>11. ASSUME NEW c \in Callers, StartCheck(c) \/ Listen(c) PROVE SystemInv'
  <2>1. /\ pc[c] \in {"startCheck", "listen"} /\ UNCHANGED <<cfg, osProxy, op, arg, was>>
    BY <1>11 DEF StartCheck, Listen, server
  <2>2. Down /\ SystemStage(c)
    BY <1>1, <2>1 DEF ServerInv, StageInv, Working, Labels
  <2>3. pc'[c] \in {"listen", "startField"} /\ UNCHANGED ok
    BY <1>11, <2>2, Succeeds
  <2>4. SystemStage(c)' /\ pc'[c] \in Working
    BY <2>1, <2>2, <2>3 DEF SystemStage, Working, Labels, Stopping
  <2> QED
    BY <1>6, <1>11, <2>1, <2>3, <2>4 DEF Inner
<1>12. ASSUME NEW c \in Callers, Unlock(c) PROVE SystemInv'
  <2>1. /\ pc[c] = "unlock" /\ (\A d \in Callers \ {c} : pc'[d] = pc[d])
        /\ pc'[c] = (IF ~ ok[c] \/ op[c] \in {"ssl", "external"} THEN "return"
                     ELSE IF restartMu = c THEN "again" ELSE "system")
        /\ UNCHANGED <<cfg, running, osProxy, op, arg, was, ok>>
    BY <1>12, Going DEF Unlock, Step, server
  <2>2. SystemStage(c) /\ running /\ cfg = arg[c] /\ ok[c] /\ op[c] # "stop"
    BY <1>1, <1>2, <2>1 DEF SystemStage, ContextStage, Working, Labels, Stopping
  <2>3. CASE op[c] \in {"ssl", "external"}
    <3>1. pc'[c] = "return" /\ (Pointed => sysProxy = cfg.port)
      BY <1>4, <2>1, <2>2, <2>3 DEF SystemStage
    <3>2. SystemStage(c)'
      BY <2>1, <2>2, <3>1 DEF SystemStage, Working
    <3> QED
      BY <1>1, <1>5, <2>1, <2>2, <3>1, <3>2
  <2>4. CASE op[c] \in {"start", "port"}
    <3>1. pc'[c] \in {"again", "system"}
      BY <2>1, <2>2, <2>4
    <3>2. SystemStage(c)' /\ ~ NoWorker'
      BY <2>1, <2>2, <2>4, <3>1 DEF SystemStage, NoWorker, Working, Labels
    <3> QED
      BY <1>1, <1>5, <2>1, <3>2
  <2> QED
    BY <1>3, <2>1, <2>2, <2>3, <2>4
<1>13. ASSUME NEW c \in Callers, Again(c) PROVE SystemInv'
  <2>1. pc[c] = "again" /\ UNCHANGED <<cfg, osProxy, op, arg, was, ok>>
    BY <1>13 DEF Again, server
  <2>2. SystemStage(c) /\ running
    BY <1>1, <1>2, <2>1 DEF ContextStage
  <2>3. pc'[c] = "system"
    BY <1>13, <2>2, Going DEF Again
  <2>4. SystemStage(c)' /\ pc'[c] \in Working
    BY <2>1, <2>2, <2>3 DEF SystemStage, Working, Labels, Stopping
  <2> QED
    BY <1>6, <1>13, <2>1, <2>4 DEF Inner
<1>14. ASSUME NEW c \in Callers, System(c) PROVE SystemInv'
  <2>1. /\ pc[c] = "system" /\ pc'[c] = "return" /\ (\A d \in Callers \ {c} : pc'[d] = pc[d])
        /\ arg[c].sys /\ (op[c] = "start" \/ was[c]) => sysProxy' = arg[c].port
        /\ ~ (arg[c].sys /\ (op[c] = "start" \/ was[c])) => UNCHANGED osProxy
        /\ UNCHANGED <<cfg, running, op, arg, was, ok>>
    BY <1>14, Going DEF System, Step, server
  <2>2. SystemStage(c) /\ running /\ cfg = arg[c] /\ op[c] \in {"start", "port"}
    BY <1>1, <1>2, <2>1 DEF SystemStage, ContextStage, Working, Labels, Stopping
  <2>3. Pointed' => sysProxy' = arg[c].port /\ arg[c].sys /\ (op[c] = "port" => was[c])
    BY <2>1, <2>2 DEF SystemStage
  <2>4. SystemStage(c)'
    BY <2>1, <2>2, <2>3 DEF SystemStage, Working
  <2>5. pc[c] \in Working /\ pc[c] # "idle" /\ op[c] # "external"
    BY <2>1, <2>2 DEF Working, Labels
  <2> QED
    BY <1>5, <2>1, <2>2, <2>3, <2>4, <2>5
<1>15. ASSUME NEW c \in Callers, Lock(c) \/ Return(c) PROVE SystemInv'
  <2>1. /\ pc[c] \in {"lock", "return"} /\ (\A d \in Callers \ {c} : pc'[d] = pc[d])
        /\ pc'[c] \in {"stopCheck", "idle"} /\ (pc'[c] = "stopCheck" => pc[c] = "lock")
        /\ UNCHANGED <<cfg, running, osProxy, op, arg, was, ok>>
    BY <1>15, Going DEF Lock, Return, Step, server
  <2>2. NoWorker' => NoWorker
    BY <2>1 DEF NoWorker, Working
  <2>3. pc'[c] # "idle" => SystemStage(c)'
    BY <1>1, <2>1 DEF SystemStage, Working, Labels, Stopping
  <2> QED
    BY <1>1, <1>5, <2>1, <2>2, <2>3
\* A call begins.
<1>16. ASSUME NEW c \in Callers, NEW o \in AppOps, NEW r, NEW to \in {"lock", "stopCheck", "return"},
              Enter(c, o, r, to), appMu = Nobody, TurnOff \/ UNCHANGED osProxy,
              o = "start" => r.sys, o = "port" => r.sys = cfg.sys,
              o = "ssl" => r.sys = cfg.sys /\ r.port = cfg.port,
              o = "stop" => TurnOff /\ to = "stopCheck",
              to = "stopCheck" => o = "stop"
       PROVE  SystemInv'
  <2>1. /\ pc[c] = "idle" /\ o \in scene.ops /\ UNCHANGED <<cfg, running>>
        /\ pc'[c] = to /\ op'[c] = o /\ arg'[c] = r /\ was'[c] = running /\ ok'[c]
        /\ \A d \in Callers \ {c} : pc'[d] = pc[d] /\ op'[d] = op[d] /\ ok'[d] = ok[d]
    BY <1>16, Entering DEF server
  <2>2. ASSUME NEW d \in Callers, pc[d] # "idle" PROVE op[d] = "system" /\ pc[d] \in {"point", "return"}
    BY <1>2, <1>16, <2>1, <2>2, ServerAssumption DEF HolderInv, Serial, AppOps
  <2>3. Pointed' => running /\ sysProxy' = cfg.port /\ cfg.sys
    BY <1>1, <1>16, <2>2 DEF NoWorker, Working, TurnOff
  <2>4. SystemStage(c)'
    BY <1>16, <2>1, <2>3 DEF SystemStage, Working, Stopping, TurnOff
  <2>5. ASSUME NEW d \in Callers \ {c}, pc'[d] # "idle" PROVE SystemStage(d)'
    <3>1. op'[d] = "system" /\ pc'[d] \in {"point", "return"} /\ ok'[d]
      BY <1>1, <2>1, <2>2, <2>5 DEF SystemStage
    <3> QED
      BY <3>1 DEF SystemStage, Working
  <2>6. ~ (scene.ops \subseteq {"external", "system"})
    BY <2>1 DEF AppOps
  <2> QED
    BY <2>1, <2>3, <2>4, <2>5, <2>6 DEF SystemInv
<1>17. ASSUME NEW c \in Callers, Call(c) PROVE SystemInv'
  <2> USE DEF AppOps, TakeAppMu
  <2>1. CASE StartProxy(c)
    <3>1. PICK q \in {cfg.port} \cup StartPorts, s \in StartSys, e \in BOOLEAN :
             Enter(c, "start", [port |-> q, sys |-> s, ssl |-> e], "lock")
      BY <2>1 DEF StartProxy
    <3>2. s
      BY DEF WithSystem
    <3> QED
      BY <1>16, <2>1, <3>1, <3>2 DEF StartProxy
  <2>2. CASE SetProxyPort(c)
    <3>1. PICK q \in Ports : Enter(c, "port", [cfg EXCEPT !.port = q], "lock")
      BY <2>2 DEF SetProxyPort
    <3>2. [cfg EXCEPT !.port = q].sys = cfg.sys
      BY DEF TypeOK, Configs
    <3> QED
      BY <1>16, <2>2, <3>1, <3>2 DEF SetProxyPort
  <2>3. CASE SetSSLEnabled(c)
    <3>1. PICK r : r = [cfg EXCEPT !.ssl = ~ @]
      OBVIOUS
    <3>2. r.sys = cfg.sys /\ r.port = cfg.port
      BY <3>1 DEF TypeOK, Configs
    <3>3. PICK to \in {"lock", "return"} : Enter(c, "ssl", r, to)
      BY <2>3, <3>1 DEF SetSSLEnabled
    <3> QED
      BY <1>16, <2>3, <3>2, <3>3 DEF SetSSLEnabled
  <2>4. CASE SetExternalProxy(c)
    <3>1. Enter(c, "external", cfg, "lock") /\ UNCHANGED osProxy
      BY <2>4 DEF SetExternalProxy
    <3>2. /\ "external" \in scene.ops /\ UNCHANGED <<cfg, running>>
          /\ pc'[c] = "lock" /\ op'[c] = "external" /\ ok'[c]
          /\ \A d \in Callers \ {c} : pc'[d] = pc[d] /\ op'[d] = op[d] /\ arg'[d] = arg[d]
                                      /\ was'[d] = was[d] /\ ok'[d] = ok[d]
      BY <3>1, Entering DEF server
    <3>3. ~ Pointed
      BY <1>1, <1>2, <3>2 DEF HolderInv, Serial, AppOps
    <3>4. ASSUME NEW d \in Callers, pc'[d] # "idle" PROVE SystemStage(d)'
      BY <1>1, <3>1, <3>2, <3>3, <3>4 DEF SystemStage, Working
    <3> QED
      BY <3>1, <3>3, <3>4 DEF SystemInv
  <2>5. CASE StopProxy(c)
    BY <1>16, <2>5 DEF StopProxy
  <2>6. CASE ExitApp(c)
    BY <1>2, <2>6 DEF ExitApp, Enter, HolderInv, Serial
  <2>7. CASE SetSystemProxy(c)
    <3>1. PICK r : Enter(c, "system", r, "point") /\ UNCHANGED osProxy
      BY <2>7 DEF SetSystemProxy
    <3>2. /\ UNCHANGED <<cfg, running>> /\ pc[c] = "idle"
          /\ pc'[c] = "point" /\ op'[c] = "system" /\ ok'[c]
          /\ \A d \in Callers \ {c} : pc'[d] = pc[d] /\ op'[d] = op[d] /\ arg'[d] = arg[d]
                                      /\ was'[d] = was[d] /\ ok'[d] = ok[d]
      BY <3>1, Entering DEF server
    <3>3. SystemStage(c)'
      BY <3>2 DEF SystemStage, Working
    <3>4. ASSUME NEW d \in Callers \ {c}, pc'[d] # "idle" PROVE SystemStage(d)'
      BY <1>1, <3>1, <3>2, <3>4 DEF SystemStage
    <3>5. NoWorker' => NoWorker
      BY <3>2 DEF NoWorker, Working
    <3> QED
      BY <1>1, <3>1, <3>2, <3>3, <3>4, <3>5 DEF SystemInv
  <2> QED
    BY <1>17, <2>1, <2>2, <2>3, <2>4, <2>5, <2>6, <2>7 DEF Call
\* The system proxy is switched by hand, whoever else works.
<1>20. ASSUME NEW c \in Callers, Point(c) PROVE SystemInv'
  <2>1. /\ pc[c] = "point" /\ pc'[c] = "return" /\ (\A d \in Callers \ {c} : pc'[d] = pc[d])
        /\ UNCHANGED <<cfg, running, op, arg, was, ok>>
    BY <1>20, Going DEF Point, Step, server
  <2>2. ~ Pointed'
    BY <1>20 DEF Point, TurnOff
  <2>3. SystemStage(c)'
    BY <1>1, <2>1, <2>2 DEF SystemStage, Working
  <2> QED
    BY <1>5, <2>1, <2>2, <2>3
<1>18. ASSUME UNCHANGED <<server, osProxy, callers>> PROVE SystemInv'
  <2>1. UNCHANGED <<cfg, running, osProxy, pc, op, arg, was, ok>>
    BY <1>18 DEF server, callers
  <2>2. ASSUME NEW c \in Callers, pc'[c] # "idle" PROVE SystemStage(c)'
    BY <1>1, <2>1, <2>2 DEF SystemStage
  <2> QED
    BY <1>1, <2>1, <2>2 DEF SystemInv, NoWorker
<1>19. ASSUME \/ \E i \in DOMAIN loops : Fetch(i) \/ Accept(i) \/ AcceptFails(i)
              \/ Begin \/ (\E g \in conns : End(g)) \/ UNCHANGED vars
       PROVE  UNCHANGED <<server, osProxy, callers>>
  BY <1>19 DEF Fetch, Accept, AcceptFails, Begin, End, vars
<1> QED
  BY <1>7, <1>8, <1>9, <1>10, <1>11, <1>12, <1>13, <1>14, <1>15, <1>17, <1>18, <1>19, <1>20
     DEF Next, Proceed

-----------------------------------------------------------------------------
(* Several callers that stop the server                                    *)

\* The one listener there is is open and its loop accepts, or it has been closed.
Standing == (Bound /\ OneLoop) \/ Closing

\* A stopper that has taken the flag down, and has not seen the accept loop end.
Closers == {"stopCancel", "stopServices", "stopListener", "stopWait"}

\* Stoppers overlap in any way.  Whoever has found the flag set goes through all of
\* Stop; the flag stays down, and then either everything is down or somebody is
\* still closing it.  Contexts and the system proxy are as they were at first.
StoppingInv ==
    /\ scene.ops \subseteq Stoppers /\ sysProxy = 0 /\ ctx = 0
    /\ \A c \in Callers : pc[c] \in Stopping \cup {"idle", "return"} /\ op[c] \in Stoppers
    /\ running => Up /\ \A c \in Callers : pc[c] \notin Closers
    /\ ~ running => Down \/ \E c \in Callers : pc[c] \in Closers
    /\ \A c \in Callers :
          /\ pc[c] \in Closers \cup {"stopFlag"} => Standing
          /\ pc[c] = "stopListener" => services = {}
          /\ pc[c] = "stopWait" => Closing

\* Nothing changes for a stopper while the server and its loops do not.
LEMMA StandingStays ==
  ASSUME UNCHANGED <<server, loops>>
  PROVE  (Standing' <=> Standing) /\ (Closing' <=> Closing)
<1>1. \A S : (OpenAre(S)' <=> OpenAre(S)) /\ (LiveAre(S)' <=> LiveAre(S))
  BY DEF server, OpenAre, LiveAre
<1>2. (OneLoop' <=> OneLoop) /\ (Bound' <=> Bound)
  BY <1>1 DEF server, OneLoop, Bound
<1>3. Closing' <=> Closing
  BY <1>1, <1>2 DEF server, Closing
<1> QED
  BY <1>2, <1>3 DEF Standing

\* What a step of one stopper has to keep for all of them.
LEMMA StopperKeeps ==
  ASSUME StoppingInv, NEW c \in Callers,
         scene' = scene, ctx' = ctx, sysProxy' = 0,
         \A d \in Callers : op'[d] \in Stoppers,
         \A d \in Callers \ {c} : pc'[d] = pc[d],
         pc'[c] \in Stopping \cup {"idle", "return"},
         (Standing => Standing') /\ (Closing => Closing') /\ (services = {} => services' = {}),
         pc'[c] \in Closers \cup {"stopFlag"} => Standing',
         pc'[c] = "stopListener" => services' = {},
         pc'[c] = "stopWait" => Closing',
         running' => running /\ Up' /\ pc'[c] \notin Closers,
         ~ running' => \/ Down' \/ pc'[c] \in Closers
                       \/ ~ running /\ pc[c] \notin Closers /\ (Down => Down')
  PROVE  StoppingInv'
<1>1. \A d \in Callers : pc'[d] \in Stopping \cup {"idle", "return"} /\ op'[d] \in Stoppers
  BY DEF StoppingInv
<1>2. running' => Up' /\ \A d \in Callers : pc'[d] \notin Closers
  BY DEF StoppingInv
<1>3. ~ running' => Down' \/ \E d \in Callers : pc'[d] \in Closers
  BY DEF StoppingInv
<1>4. ASSUME NEW d \in Callers
      PROVE  /\ pc'[d] \in Closers \cup {"stopFlag"} => Standing'
             /\ pc'[d] = "stopListener" => services' = {}
             /\ pc'[d] = "stopWait" => Closing'
  BY DEF StoppingInv
<1> QED
  BY <1>1, <1>2, <1>3, <1>4 DEF StoppingInv

\* A stopper that begins or returns.
LEMMA StopperCalls ==
  ASSUME TypeOK, StoppingInv, NEW c \in Callers, Outer(c)
  PROVE  StoppingInv'
<1>1. ASSUME NEW o, NEW r, NEW to, Enter(c, o, r, to) PROVE o \in Stoppers
  BY <1>1 DEF Enter, StoppingInv
<1>2. CASE StopProxy(c) \/ ExitApp(c)
  <2>1. sysProxy' = 0 /\ \E o \in Stoppers : Enter(c, o, cfg, "stopCheck")
    BY <1>2 DEF StopProxy, ExitApp, Stoppers, TurnOff
  <2>2. PICK o \in Stoppers : Enter(c, o, cfg, "stopCheck")
    BY <2>1
  <2>3. /\ pc[c] = "idle" /\ UNCHANGED <<server, goroutines>> /\ pc'[c] = "stopCheck"
        /\ op'[c] = o /\ \A d \in Callers \ {c} : pc'[d] = pc[d] /\ op'[d] = op[d]
    BY <2>2, Entering
  <2>4. UNCHANGED <<server, loops, scene, running, services, ctx>>
    BY <2>3 DEF server, goroutines
  <2>5. \A d \in Callers : op'[d] \in Stoppers
    BY <2>3 DEF StoppingInv
  <2>6. (Up' <=> Up) /\ (Down' <=> Down) /\ (Standing' <=> Standing) /\ (Closing' <=> Closing)
    BY <2>4, Frame, StandingStays
  <2>7. (running => Up) /\ (~ running => ~ Up)
    BY DEF StoppingInv, Up
  <2> QED
    BY <2>1, <2>3, <2>4, <2>5, <2>6, <2>7, StopperKeeps DEF Closers, Stopping
<1>3. CASE Return(c)
  <2>1. /\ pc[c] = "return" /\ pc'[c] = "idle" /\ \A d \in Callers \ {c} : pc'[d] = pc[d]
        /\ UNCHANGED <<server, loops, scene, running, services, ctx, sysProxy, op>>
    BY <1>3, Going DEF Return, Step, server, goroutines
  <2>2. (Up' <=> Up) /\ (Down' <=> Down) /\ (Standing' <=> Standing) /\ (Closing' <=> Closing)
    BY <2>1, Frame, StandingStays
  <2>3. (\A d \in Callers : op'[d] \in Stoppers) /\ sysProxy' = 0 /\ (running => Up)
    BY <2>1 DEF StoppingInv
  <2> QED
    BY <2>1, <2>2, <2>3, StopperKeeps DEF Closers, Stopping
<1>4. ~ (\/ StartProxy(c) \/ SetProxyPort(c) \/ SetSSLEnabled(c) \/ SetExternalProxy(c)
         \/ SetSystemProxy(c))
  <2>1. ASSUME NEW o \in AllOps \ Stoppers, NEW r, NEW to, Enter(c, o, r, to)
        PROVE  FALSE
    BY <1>1, <2>1 DEF Stoppers
  <2> USE DEF AllOps, Stoppers
  <2>2. ~ StartProxy(c) /\ ~ SetProxyPort(c)
    BY <2>1 DEF StartProxy, SetProxyPort
  <2>3. ~ SetSSLEnabled(c) /\ ~ SetExternalProxy(c) /\ ~ SetSystemProxy(c)
    BY <2>1 DEF SetSSLEnabled, SetExternalProxy, SetSystemProxy
  <2> QED
    BY <2>2, <2>3
<1>5. ~ Lock(c) /\ ~ Point(c)
  BY DEF Lock, Point, Step, StoppingInv, Stopping
<1> QED
  BY <1>2, <1>3, <1>4, <1>5 DEF Outer, Call

\* A step of Stop, whoever else is in it.
LEMMA StopperStops ==
  ASSUME TypeOK, StoppingInv, NEW c \in Callers, Inner(c) \/ Unlock(c)
  PROVE  StoppingInv'
<1>1. pc[c] \in Stopping \cup {"idle", "return"} /\ op[c] \in Stoppers /\ Stopped(c) = "return"
  BY DEF StoppingInv, Stopped, Stoppers
<1>2. /\ sysProxy = 0 /\ (running => Up) /\ \A d \in Callers : op[d] \in Stoppers
      /\ pc[c] \in Closers => ~ running
      /\ pc[c] \in Closers \cup {"stopFlag"} => Standing
      /\ pc[c] = "stopListener" => services = {}
      /\ pc[c] = "stopWait" => Closing
  BY DEF StoppingInv
<1>3. CASE StopCheck(c)
  <2>1. /\ pc[c] = "stopCheck" /\ pc'[c] = (IF running THEN "stopFlag" ELSE "return")
        /\ (\A d \in Callers \ {c} : pc'[d] = pc[d])
        /\ UNCHANGED <<server, loops, scene, running, services, ctx, sysProxy, op>>
    BY <1>1, <1>3, Going DEF StopCheck, Step, server, goroutines
  <2>2. (Up' <=> Up) /\ (Down' <=> Down) /\ (Standing' <=> Standing) /\ (Closing' <=> Closing)
    BY <2>1, Frame, StandingStays
  <2>3. Up => Standing
    BY DEF Up, Standing
  <2> QED
    BY <1>2, <2>1, <2>2, <2>3, StopperKeeps DEF Closers, Stopping
<1>4. CASE StopFlag(c)
  <2>1. /\ pc[c] = "stopFlag" /\ pc'[c] = "stopCancel" /\ (\A d \in Callers \ {c} : pc'[d] = pc[d])
        /\ running' = FALSE
        /\ UNCHANGED <<listener, sockets, loops, scene, services, ctx, sysProxy, op>>
    BY <1>4, Going DEF StopFlag, Step, goroutines
  <2>2. (Bound' <=> Bound) /\ (OneLoop' <=> OneLoop) /\ (Closing => Closing')
    BY <2>1 DEF Bound, OpenAre, OneLoop, LiveAre, Closing
  <2>3. Standing => Standing'
    BY <2>2 DEF Standing
  <2> QED
    BY <1>2, <2>1, <2>2, <2>3, StopperKeeps DEF Closers, Stopping
<1>5. CASE StopCancel(c)
  <2>1. /\ pc[c] = "stopCancel" /\ pc'[c] = "stopServices" /\ (\A d \in Callers \ {c} : pc'[d] = pc[d])
        /\ UNCHANGED <<running, listener, sockets, loops, scene, services, ctx, sysProxy, op>>
    BY <1>5, Going DEF StopCancel, Step, goroutines
  <2>2. (Bound' <=> Bound) /\ (OneLoop' <=> OneLoop) /\ (Closing => Closing')
    BY <2>1 DEF Bound, OpenAre, OneLoop, LiveAre, Closing
  <2>3. Standing => Standing'
    BY <2>2 DEF Standing
  <2> QED
    BY <1>2, <2>1, <2>2, <2>3, StopperKeeps DEF Closers, Stopping
<1>6. CASE StopServices(c)
  <2>1. /\ pc[c] = "stopServices" /\ pc'[c] = "stopListener" /\ (\A d \in Callers \ {c} : pc'[d] = pc[d])
        /\ services' = {}
        /\ UNCHANGED <<running, listener, sockets, loops, scene, ctx, sysProxy, op>>
    BY <1>6, Going DEF StopServices, Step, goroutines
  <2>2. (Bound' <=> Bound) /\ (OneLoop' <=> OneLoop) /\ (Closing => Closing')
    BY <2>1 DEF Bound, OpenAre, OneLoop, LiveAre, Closing
  <2>3. Standing => Standing'
    BY <2>2 DEF Standing
  <2> QED
    BY <1>2, <2>1, <2>2, <2>3, StopperKeeps DEF Closers, Stopping
<1>7. CASE StopListener(c)
  <2>1. /\ pc[c] = "stopListener" /\ pc'[c] = "stopWait" /\ (\A d \in Callers \ {c} : pc'[d] = pc[d])
        /\ UNCHANGED <<running, services, listener, loops, scene, ctx, sysProxy, op>>
    BY <1>7, Going DEF StopListener, Step, goroutines
  <2>2. Standing /\ services = {} /\ ~ running
    BY <1>2, <2>1 DEF Closers
  <2>3. listener \in DOMAIN sockets /\ listener # 0 /\ (OpenAre({}) \/ OpenAre({listener}))
    BY <2>2, LenProperties DEF Standing, Bound, Closing, TypeOK
  <2>4. sockets' = [sockets EXCEPT ![listener].open = FALSE]
    BY <1>7, <2>3 DEF StopListener
  <2>5. /\ DOMAIN sockets' = DOMAIN sockets
        /\ ~ sockets'[listener].open /\ \A k \in DOMAIN sockets \ {listener} : sockets'[k] = sockets[k]
    BY <2>3, <2>4, SocketClosed
  <2>6. OpenAre({})'
    BY <2>3, <2>5 DEF OpenAre
  <2>7. (OneLoop' <=> OneLoop) /\ (LiveAre({})' <=> LiveAre({}))
    BY <2>1 DEF OneLoop, LiveAre
  <2>8. Closing' /\ Standing'
    BY <2>1, <2>2, <2>3, <2>5, <2>6, <2>7 DEF Closing, Standing
  <2> QED
    BY <1>2, <2>1, <2>2, <2>8, StopperKeeps DEF Closers, Stopping
<1>8. CASE StopWait(c)
  <2>1. /\ pc[c] = "stopWait" /\ pc'[c] = "return" /\ (\A d \in Callers \ {c} : pc'[d] = pc[d])
        /\ UNCHANGED <<server, loops, scene, running, services, ctx, sysProxy, op>>
    BY <1>1, <1>8, Going DEF StopWait, Step, server, goroutines
  <2>2. (Down' <=> Down) /\ (Standing' <=> Standing) /\ (Closing' <=> Closing)
    BY <2>1, Frame, StandingStays
  <2>3. LiveAre({})
    BY <1>8 DEF StopWait, Live, LiveAre
  <2>4. Down /\ ~ running
    BY <1>2, <2>1, <2>3 DEF Closing, Down
  <2> QED
    BY <1>2, <2>1, <2>2, <2>4, StopperKeeps DEF Closers, Stopping
<1>9. ~ (\/ Again(c) \/ System(c) \/ Config(c) \/ Context(c) \/ StartCheck(c) \/ Listen(c)
         \/ StartField(c) \/ StartFlag(c) \/ StartServices(c) \/ StartLoop(c) \/ Unlock(c))
  BY <1>1 DEF Again, System, Config, Context, StartCheck, Listen, StartField, StartFlag,
              StartServices, StartLoop, Unlock, Step, Stopping
<1> QED
  BY <1>3, <1>4, <1>5, <1>6, <1>7, <1>8, <1>9 DEF Inner

\* Where the server is only stopped, by StopProxy and by any number of exits at once,
\* what StoppingInv says is kept: no stopper finds the server half closed and returns.
LEMMA StoppingStep ==
  ASSUME TypeOK, StoppingInv, [Next]_vars PROVE StoppingInv'
<1>1. ASSUME NEW c \in Callers, Outer(c) \/ Inner(c) \/ Unlock(c) PROVE StoppingInv'
  BY <1>1, StopperCalls, StopperStops
<1>2. ASSUME UNCHANGED <<server, loops, scene, sysProxy, pc, op>> PROVE StoppingInv'
  <2>1. (Up' <=> Up) /\ (Down' <=> Down) /\ (Standing' <=> Standing) /\ (Closing' <=> Closing)
    BY <1>2, Frame, StandingStays
  <2>2. UNCHANGED <<running, services, ctx>>
    BY <1>2 DEF server
  <2> QED
    BY <1>2, <2>1, <2>2 DEF StoppingInv
<1>3. ASSUME NEW i \in DOMAIN loops, Fetch(i) \/ Accept(i) \/ AcceptFails(i) PROVE StoppingInv'
  <2>1. /\ UNCHANGED <<server, pc, mine>> /\ ~ LiveAre({})
        /\ Bound /\ OneLoop => OneLoop'
        /\ Closing => Closing'
    BY <1>3, LoopSteps
  <2>2. UNCHANGED <<cfg, running, listener, sockets, services, ctx, scene, sysProxy, pc, op>>
    BY <1>3, <2>1 DEF Fetch, Accept, AcceptFails, callers, server
  <2>3. Bound' <=> Bound
    BY <2>2 DEF Bound, OpenAre
  <2>4. Standing => Standing'
    BY <2>1, <2>3 DEF Standing
  <2>5. Up => Up'
    BY <2>1, <2>2, <2>3 DEF Up
  <2>6. ~ Down
    BY <2>1 DEF Down
  <2> QED
    BY <2>1, <2>2, <2>4, <2>5, <2>6 DEF StoppingInv
<1>4. ASSUME Begin \/ (\E g \in conns : End(g)) \/ UNCHANGED vars PROVE StoppingInv'
  BY <1>2, <1>4 DEF Begin, End, vars, callers, goroutines
<1> QED
  BY <1>1, <1>3, <1>4 DEF Next, Proceed, Inner, Outer

-----------------------------------------------------------------------------
(* The initial states, and the theorems                                    *)

LEMMA InitType == Init => TypeOK
<1> SUFFICES ASSUME Init PROVE TypeOK
  OBVIOUS
<1>1. /\ cfg \in Configs /\ ctx = 0 /\ cancelled = {} /\ pending = 0 /\ conns = {}
      /\ appMu = Nobody /\ restartMu = Nobody /\ sysProxy = 0 /\ byHand \in BOOLEAN /\ scene \in Scenes /\ calls = 0
  BY ServerAssumption DEF Init, Configs
<1>2. /\ pc \in [Callers -> Labels] /\ op \in [Callers -> AllOps] /\ arg \in [Callers -> Configs]
      /\ was \in [Callers -> BOOLEAN] /\ ok \in [Callers -> BOOLEAN]
  BY <1>1 DEF Init, Labels, AllOps
<1>3. ASSUME NEW n \in Nat, sockets \in Seq(Socket), Len(sockets) = n, loops \in Seq(LoopState(n)),
             listener \in 0 .. n, running \in BOOLEAN, services \subseteq {"discovery", "quic"}
      PROVE  TypeOK
  <2>1. mine \in [Callers -> 0 .. Len(sockets)]
    BY <1>3 DEF Init
  <2> QED
    BY <1>1, <1>2, <1>3, <2>1, ServerAssumption DEF TypeOK, Socket, LoopState
<1>4. CASE sockets = <<>> /\ loops = <<>> /\ listener = 0 /\ services = {} /\ running = FALSE
  <2>1. sockets \in Seq(Socket) /\ Len(sockets) = 0 /\ loops \in Seq(LoopState(0))
    BY <1>4, EmptySeq
  <2>2. 0 \in Nat /\ listener \in 0 .. 0
    BY <1>4
  <2>3. running \in BOOLEAN /\ services \subseteq {"discovery", "quic"}
    BY <1>4, Zenon
  <2> QED
    BY <1>3, <2>1, <2>2, <2>3
<1>5. CASE /\ sockets = <<[port |-> Port0, open |-> TRUE]>> /\ loops = <<[at |-> "accept", on |-> 1]>>
           /\ listener = 1 /\ services = {"discovery", "quic"} /\ running = TRUE
  <2>1. [port |-> Port0, open |-> TRUE] \in Socket /\ [at |-> "accept", on |-> 1] \in LoopState(1)
    BY ServerAssumption DEF Socket, LoopState
  <2>2. sockets \in Seq(Socket) /\ Len(sockets) = 1 /\ loops \in Seq(LoopState(1))
    BY <1>5, <2>1
  <2>3. 1 \in Nat /\ listener \in 0 .. 1
    BY <1>5
  <2>4. running \in BOOLEAN /\ services \subseteq {"discovery", "quic"}
    BY <1>5, Zenon
  <2> QED
    BY <1>3, <2>2, <2>3, <2>4
<1> QED
  BY <1>4, <1>5 DEF Init

LEMMA InitUpOrDown == Init => Up \/ Down
<1> SUFFICES ASSUME Init PROVE Up \/ Down
  OBVIOUS
<1>1. CASE sockets = <<>> /\ loops = <<>> /\ services = {} /\ running = FALSE
  BY <1>1 DEF Down, OpenAre, LiveAre
<1>2. CASE /\ sockets = <<[port |-> Port0, open |-> TRUE]>> /\ loops = <<[at |-> "accept", on |-> 1]>>
           /\ listener = 1 /\ services = {"discovery", "quic"} /\ running = TRUE
  <2>1. /\ DOMAIN sockets = {1} /\ sockets[1] = [port |-> Port0, open |-> TRUE]
        /\ DOMAIN loops = {1} /\ loops[1] = [at |-> "accept", on |-> 1] /\ cfg.port = Port0
    BY <1>2 DEF Init
  <2>2. Bound /\ LiveAre({1})
    BY <1>2, <2>1 DEF Bound, OpenAre, LiveAre
  <2>3. OneLoop
    BY <1>2, <2>1, <2>2 DEF OneLoop
  <2> QED
    BY <1>2, <2>1, <2>2, <2>3 DEF Up
<1> QED
  BY <1>1, <1>2 DEF Init

LEMMA InitInv ==
  ASSUME Init, Serial(scene.ops)
  PROVE  ServerInv /\ ContextInv /\ SystemInv
<1>1. \A c \in Callers : pc[c] = "idle"
  BY DEF Init
<1>2. HolderInv
  BY <1>1 DEF HolderInv
<1>3. ServerInv
  BY <1>1, <1>2, InitUpOrDown DEF ServerInv, Working
<1>4. ContextInv
  BY <1>1 DEF Init, ContextInv, ContextStage, Clean
<1>5. SystemInv
  BY <1>1 DEF Init, SystemInv, Pointed
<1> QED
  BY <1>3, <1>4, <1>5

LEMMA InitStopping ==
  ASSUME Init, scene.ops \subseteq Stoppers PROVE StoppingInv
<1>1. sysProxy = 0 /\ ctx = 0 /\ \A c \in Callers : pc[c] = "idle" /\ op[c] \in Stoppers
  BY DEF Init, Stoppers
<1>2. (running => Up) /\ (~ running => Down)
  BY InitUpOrDown DEF Up, Down
<1> QED
  BY <1>1, <1>2 DEF StoppingInv, Closers

\* Where the scenes are kept apart a behaviour starts in one of the two invariants.
LEMMA InitApart ==
  ASSUME KeptApart, Init
  PROVE  TypeOK /\ ((ServerInv /\ ContextInv /\ SystemInv) \/ StoppingInv)
<1>1. scene \in Scenes
  BY DEF Init
<1> QED
  BY <1>1, InitType, InitInv, InitStopping DEF KeptApart

\* Whoever calls what, every variable of the server keeps its type: the listener
\* and what a loop accepts on are sockets that were bound, contexts were made.
THEOREM TypeCorrect == Spec => []TypeOK
BY InitType, TypeStep, PTL DEF Spec

\* Where the operations called exclude each other, the flag, the listener, the
\* sockets and the loops agree at every step of the operation that runs; where they
\* only stop the server, somebody is closing whatever the lowered flag leaves open.
THEOREM Invariance ==
  ASSUME KeptApart
  PROVE  Spec => [](TypeOK /\ (ServerInv \/ StoppingInv))
<1>1. Init => TypeOK /\ (ServerInv \/ StoppingInv)
  BY InitApart
<1>2. TypeOK /\ (ServerInv \/ StoppingInv) /\ [Next]_vars => (TypeOK /\ (ServerInv \/ StoppingInv))'
  BY TypeStep, ServerStep, StoppingStep
<1> QED
  BY <1>1, <1>2, PTL DEF Spec

\* The live loops are none or one, at every stage.
LEMMA LiveIsOne ==
  ASSUME TypeOK, ServerInv \/ StoppingInv
  PROVE  Live = {} \/ \E i \in DOMAIN loops : Live = {i}
<1>1. ASSUME LiveAre({}) PROVE Live = {}
  BY <1>1 DEF LiveAre, Live
<1>2. ASSUME OneLoop PROVE \E i \in DOMAIN loops : Live = {i}
  <2>1. PICK i \in DOMAIN loops : LiveAre({i})
    BY <1>2 DEF OneLoop
  <2> QED
    BY <2>1 DEF LiveAre, Live
<1>3. LiveAre({}) \/ OneLoop
  <2>1. CASE ServerInv /\ NoWorker
    BY <2>1 DEF ServerInv, Up, Down
  <2>2. CASE ServerInv /\ ~ NoWorker
    <3>1. PICK c \in Callers : pc[c] \in Working
      BY <2>2 DEF NoWorker
    <3>2. StageInv(c)
      BY <2>2, <3>1 DEF ServerInv
    <3> QED
      BY <3>1, <3>2 DEF StageInv, Working, Labels, Up, Down, Closing
  <2>3. CASE StoppingInv
    <3>1. Up \/ Down \/ Standing
      BY <2>3 DEF StoppingInv
    <3> QED
      BY <3>1 DEF Up, Down, Standing, Closing
  <2> QED
    BY <2>1, <2>2, <2>3
<1> QED
  BY <1>1, <1>2, <1>3

\* However starts, restarts and stops follow each other, and stops and exits
\* overlap, for any number of callers, one accept loop serves at most: acceptLoop of
\* pkg/proxy/server.go ends with its listener before Start makes the next.
THEOREM OneLoopAccepts ==
  ASSUME KeptApart
  PROVE  Spec => []OneAcceptLoop
<1>1. TypeOK /\ (ServerInv \/ StoppingInv) => OneAcceptLoop
  <2>1. Cardinality({}) = 0 /\ \A i : Cardinality({i}) = 1
    BY FS_EmptySet, FS_Singleton
  <2>2. TypeOK /\ (ServerInv \/ StoppingInv) => Live = {} \/ \E i : Live = {i}
    BY LiveIsOne
  <2>3. TypeOK /\ (ServerInv \/ StoppingInv) => Cardinality(Live) \in {0, 1}
    BY <2>1, <2>2, Zenon
  <2> QED
    BY <2>3 DEF OneAcceptLoop
<1> QED
  BY <1>1, Invariance, PTL

\* Between operations IsRunning tells the truth: the configured port is open and
\* served by one loop and announced, or no port is held and no loop is left, also
\* when several exits and StopProxy went through Stop at once.
THEOREM FlagIsRight ==
  ASSUME KeptApart
  PROVE  Spec => []FlagIsTruth
<1>1. ASSUME TypeOK, ServerInv \/ StoppingInv, Quiet PROVE FlagIsTruth
  <2>1. Up \/ Down
    <3>1. CASE ServerInv
      BY <1>1, <3>1 DEF ServerInv, Quiet, NoWorker, Working
    <3>2. CASE StoppingInv
      BY <1>1, <3>2 DEF StoppingInv, Quiet, Closers
    <3> QED
      BY <1>1, <3>1, <3>2
  <2>2. CASE Up
    <3>1. Open = {listener} /\ sockets[listener].port = cfg.port /\ running /\ "discovery" \in services
      BY <2>2 DEF Up, Bound, OpenAre, Open
    <3>2. \E i \in DOMAIN loops : Live = {i} /\ loops[i].on \in {0, listener}
      <4>1. PICK i \in DOMAIN loops : LiveAre({i}) /\ loops[i].on \in {0, listener}
        BY <2>2 DEF Up, OneLoop
      <4> QED
        BY <4>1 DEF LiveAre, Live
    <3> QED
      BY <3>1, <3>2 DEF FlagIsTruth
  <2>3. CASE Down
    <3>1. Open = {} /\ Live = {} /\ services = {} /\ ~ running
      BY <2>3 DEF Down, OpenAre, LiveAre, Open, Live
    <3> QED
      BY <3>1 DEF FlagIsTruth
  <2> QED
    BY <2>1, <2>2, <2>3
<1>2. TypeOK /\ (ServerInv \/ StoppingInv) => FlagIsTruth
  BY <1>1 DEF FlagIsTruth
<1> QED
  BY <1>2, Invariance, PTL

\* Every connection is under the current context or a cancelled one, so that a
\* stop reaches it: handleConnection never reads a context Restart has replaced
\* without cancelling.
THEOREM ConnectionsFollow ==
  ASSUME KeptApart
  PROVE  Spec => []ConnectionsFollowContext
<1> DEFINE Inv == TypeOK /\ ((ServerInv /\ ContextInv) \/ StoppingInv)
<1>1. Init => Inv
  BY InitApart
<1>2. Inv /\ [Next]_vars => Inv'
  BY TypeStep, ServerStep, ContextStep, StoppingStep
<1>3. Inv => ConnectionsFollowContext
  <2>1. ASSUME TypeOK, StoppingInv PROVE conns \subseteq {ctx}
    BY <2>1 DEF TypeOK, StoppingInv
  <2> QED
    BY <2>1 DEF ContextInv, ConnectionsFollowContext
<1> QED
  BY <1>1, <1>2, <1>3, PTL DEF Spec

\* Where every start is one of the window's button, the OS sends traffic to the
\* configured port of a running server, or to none, whenever no operation runs, unless
\* SetSystemProxy was the last to point it: StopProxy withdraws it first, SetProxyPort
\* moves it with the port, and what is switched by hand in between misleads neither.
THEOREM SystemIsServed ==
  ASSUME KeptApart, WithSystem
  PROVE  Spec => []SystemProxyIsServed
<1> DEFINE Inv == TypeOK /\ ((ServerInv /\ ContextInv /\ SystemInv) \/ StoppingInv)
<1>1. Init => Inv
  BY InitApart
<1>2. Inv /\ [Next]_vars => Inv'
  BY TypeStep, ServerStep, ContextStep, SystemStep, StoppingStep
<1>3. Inv => SystemProxyIsServed
  BY DEF SystemInv, Pointed, StoppingInv, SystemProxyIsServed, Quiet, NoWorker, Working
<1> QED
  BY <1>1, <1>2, <1>3, PTL DEF Spec
=============================================================================

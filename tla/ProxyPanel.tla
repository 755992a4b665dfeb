----------------------------- MODULE ProxyPanel -----------------------------
(***************************************************************************)
(* The controls of the proxy and of its certificate: desktop/Toolbar.tsx,  *)
(* mobile/MobileHome.tsx, desktop/SslWidget.tsx, PreferenceDialog.tsx,     *)
(* ssl/PCCertDialog.tsx, the start of App.tsx, and the one question that   *)
(* store/useConfirmDialog.tsx can ask at a time.                           *)
(*                                                                         *)
(* A handler keeps the status it was rendered with, calls the application  *)
(* once or more, and then stores that status with what it changed.  Such a *)
(* handler is a flow: a record of the calls still to make, the status it   *)
(* has, and the fields it will set.  Flows overlap, and what one stores may *)
(* undo what another has stored.                                           *)
(*                                                                         *)
(* Other pages start, stop or restart the server too, and store nothing:   *)
(* the launches and JAVA_TOOL_OPTIONS of interceptors/InterceptorsPage.tsx, *)
(* AndroidFridaModal.tsx, the pill of the toolbar and the dialog of the     *)
(* external proxy.  Their flows are quiet.                                  *)
(***************************************************************************)
EXTENDS Naturals, Sequences, FiniteSets

CONSTANTS
    AutoStartup,    \* values of the preference of this name looked at
    MaxClicks,      \* handlers started in one behaviour (bound)
    MaxFlows        \* handlers under way at a time (bound)

ASSUME PanelAssumption == AutoStartup \subseteq BOOLEAN /\ {MaxClicks, MaxFlows} \subseteq Nat

VARIABLES
    app,        \* the application: server running, its ssl and system proxy
                \* settings, the proxy of the system, the CA in the trust store
    status,     \* status of the store
    flows,      \* handlers under way
    badge,      \* togglingSystemProxy
    asked,      \* the question on display, or NoQuestion
    resolver,   \* the question that resolvePromise belongs to
    confirmed, performed,   \* questions answered with yes; what was done after
                            \* a question (history)
    clicks,     \* handlers started so far
    auto,       \* autoStartup
    pill,       \* the toolbar shows a running interceptor that is no device's
    unsure      \* the status may be wrong for a reason given below (history)

panelVars == <<app, status, flows, badge, asked, resolver, confirmed, performed,
               clicks, auto, pill, unsure>>

Status   == [running : BOOLEAN, ssl : BOOLEAN, sys : BOOLEAN, ca : BOOLEAN]
Verbs    == {"start", "stop", "ssl", "sslOff", "sys", "sysOff", "port", "status", "ca",
             "install", "uninstall", "launch", "java", "external"}
Question == [n : 1 .. MaxClicks, about : {"clear", "uninstall", "java", "environment", "newCA"},
             from : Status]
NoQuestion == [n |-> 0]

\* GetStatus and CheckCAInstalled.
Seen(a) == [running |-> a.running, ssl |-> a.ssl, sys |-> a.cfg \/ a.os, ca |-> a.ca]

PanelTypeOK ==
    /\ app \in [running : BOOLEAN, ssl : BOOLEAN, cfg : BOOLEAN, os : BOOLEAN, ca : BOOLEAN]
    /\ status \in Status
    /\ \A f \in flows :
          /\ f.n \in Nat /\ f.todo \in Seq(Verbs) /\ f.from \in Status
          /\ DOMAIN f.sets \subseteq DOMAIN f.from
          /\ {f.alone, f.failed, f.whole, f.badge, f.first, f.quiet} \subseteq BOOLEAN
    /\ badge \in BOOLEAN
    /\ {asked, resolver} \subseteq Question \cup {NoQuestion}
    /\ confirmed \subseteq 1 .. MaxClicks /\ performed \subseteq 1 .. MaxClicks
    /\ clicks \in 0 .. MaxClicks
    /\ auto \in AutoStartup /\ {pill, unsure} \subseteq BOOLEAN

-----------------------------------------------------------------------------
(* The handlers, each from the status it was rendered with                 *)

Nothing2Set == [k \in {} |-> TRUE]
Sets(k, v)  == [j \in {k} |-> v]
Flow(todo, from, sets) ==
    [n |-> 0, todo |-> todo, from |-> from, sets |-> sets, alone |-> TRUE, failed |-> FALSE,
     whole |-> FALSE, badge |-> FALSE, first |-> FALSE, quiet |-> FALSE]

\* initStatus: the first status, then a start if the preference asks for it.
InitStatus(s) == [Flow(<<"status", "ca">>, s, Nothing2Set) EXCEPT !.first = TRUE]
AutoStart(s)  == Flow(<<"start">>, s, Sets("running", TRUE))

\* Mutant: stopping says nothing to the store.
ToggleProxyQuiet(s) ==
    IF s.running THEN Flow(<<"stop">>, s, Nothing2Set)
    ELSE Flow(<<"start", "status">>, s, Sets("running", TRUE))

\* The button of the toolbar, of which the mobile one lacks the second call.
ToggleProxy(s)  == IF s.running THEN Flow(<<"stop">>, s, Sets("running", FALSE))
                   ELSE Flow(<<"start", "status">>, s, Sets("running", TRUE))
MobileToggle(s) == IF s.running THEN Flow(<<"stop">>, s, Sets("running", FALSE))
                   ELSE Flow(<<"start">>, s, Sets("running", TRUE))

\* The badge, which is disabled until the flow ends; it starts the server if need be.
SystemBadge(s) ==
    [IF s.sys THEN Flow(<<"sysOff">>, s, Sets("sys", FALSE))
     ELSE Flow(IF s.running THEN <<"sys">> ELSE <<"start", "sys">>, s,
               [k \in {"running", "sys"} |-> TRUE]) EXCEPT !.badge = TRUE]

\* The switches of the preferences and of the widget.
PreferSystem(s) == Flow(IF s.sys THEN <<"sysOff">> ELSE <<"sys">>, s, Sets("sys", ~ s.sys))
ToggleSsl(s)    == Flow(IF s.ssl THEN <<"sslOff">> ELSE <<"ssl">>, s, Sets("ssl", ~ s.ssl))
UpdatePort(s)   == Flow(<<"port">>, s, Nothing2Set)
RefreshCa(s)    == Flow(<<"ca">>, s, Nothing2Set)
InstallCa(s)    == Flow(<<"install", "ca">>, s, Nothing2Set)
UninstallCa(s)  == Flow(<<"uninstall", "ca">>, s, Nothing2Set)

\* The controls elsewhere, which leave the status as it is: a launch or a device that
\* is routed, the switch of JAVA_TOOL_OPTIONS, the external proxy, and
\* handleStopActiveInterceptor for what is no device's.
Quiet(verb, s) == [Flow(<<verb>>, s, Nothing2Set) EXCEPT !.quiet = TRUE]
StopPill(s)    == Quiet("stop", s)

Handlers(s) == {ToggleProxy(s), MobileToggle(s), PreferSystem(s), ToggleSsl(s), UpdatePort(s),
                RefreshCa(s), InstallCa(s)}
               \cup {Quiet(verb, s) : verb \in {"launch", "java", "external"}}

-----------------------------------------------------------------------------
(* The application                                                         *)

\* Stop and Start of the server: the port may be taken.
Restarted(a) == {[a EXCEPT !.running = TRUE], [a EXCEPT !.running = FALSE]}

\* startProxyForIsolatedCapture: a stopped server starts, and does not route the system.
Launched(a) == IF a.running THEN {a}
               ELSE {[b EXCEPT !.ssl = TRUE, !.cfg = FALSE] : b \in Restarted(a)}

\* What a call can make of the application.  Starting always decrypts and routes
\* the system; SetSSLEnabled keeps nothing while the server is stopped; a new port
\* or a new external proxy starts a stopped server.
Run(verb, a) ==
    CASE verb = "start" ->
            {[b EXCEPT !.ssl = TRUE, !.cfg = TRUE, !.os = @ \/ b.running] : b \in Restarted(a)}
      [] verb = "stop" -> {[a EXCEPT !.running = FALSE, !.os = FALSE]}
      [] verb \in {"ssl", "sslOff"} ->
            IF a.ssl = (verb = "ssl") \/ ~ a.running THEN {a}
            ELSE {[b EXCEPT !.ssl = ~ @] : b \in Restarted(a)}
      [] verb \in {"sys", "sysOff"} -> {[a EXCEPT !.os = (verb = "sys")], a}
      [] verb = "port" ->
            {[b EXCEPT !.os = @ \/ (a.running /\ b.running /\ a.cfg)] : b \in Restarted(a)}
      [] verb \in {"install", "uninstall"} -> {[a EXCEPT !.ca = (verb = "install")], a}
      [] verb = "launch" -> Launched(a)
      [] verb = "java" -> Launched(a) \cup {[b EXCEPT !.ca = TRUE] : b \in {c \in Launched(a) : c.running}}
      [] verb = "external" -> Restarted(a)
      [] OTHER -> {a}

\* Whether the call was answered with an error.
Fails(verb, a, b) ==
    CASE verb \in {"start", "port"} -> ~ b.running
      [] verb \in {"ssl", "sslOff"} -> a.running /\ ~ b.running
      [] verb \in {"sys", "sysOff"} -> b.os # (verb = "sys")
      [] verb \in {"install", "uninstall"} -> b.ca # (verb = "install")
      [] OTHER -> FALSE

-----------------------------------------------------------------------------
Company(S) == {[g EXCEPT !.alone = FALSE] : g \in S}

\* A handler starts.  The status is unsure when its flow overlaps another.
Begin(f) ==
    /\ clicks < MaxClicks /\ Cardinality(flows) < MaxFlows
    /\ clicks' = clicks + 1
    /\ flows' = Company(flows) \cup {[f EXCEPT !.n = clicks', !.alone = (flows = {})]}
    /\ badge' = (badge \/ f.badge)

PanelInit ==
    /\ app \in [running : {FALSE}, ssl : {TRUE}, cfg : {FALSE}, os : {FALSE}, ca : BOOLEAN]
    /\ status = [running |-> FALSE, ssl |-> TRUE, sys |-> FALSE, ca |-> FALSE]
    /\ flows = {[InitStatus(status) EXCEPT !.alone = FALSE],
                [RefreshCa(status) EXCEPT !.alone = FALSE]}
    /\ badge = FALSE
    /\ asked = NoQuestion /\ resolver = NoQuestion
    /\ confirmed = {} /\ performed = {}
    /\ clicks = 0
    /\ auto \in AutoStartup
    /\ pill = FALSE
    /\ unsure = TRUE

\* A question covers the window.
ClickControl(f) ==
    /\ asked = NoQuestion
    /\ f.badge => ~ badge
    /\ Begin(f)
    /\ UNCHANGED <<app, status, asked, resolver, confirmed, performed, auto, pill, unsure>>

\* The next call of a flow is answered.  What GetStatus and CheckCAInstalled return
\* takes the place of what the flow was rendered with; an error ends the flow.  A new
\* port, or a handler that stores nothing, may start or stop the server unseen.
CallAnswered(f) ==
    /\ f \in flows /\ f.todo # <<>>
    /\ \E b \in Run(Head(f.todo), app) :
          /\ app' = b
          /\ flows' = (flows \ {f}) \cup
                {[f EXCEPT !.todo   = IF Fails(Head(f.todo), app, b) THEN <<>> ELSE Tail(@),
                           !.failed = Fails(Head(f.todo), app, b),
                           !.whole  = @ \/ Head(f.todo) = "status",
                           !.from   = CASE Head(f.todo) = "status" -> Seen(b)
                                        [] Head(f.todo) = "ca" -> [@ EXCEPT !.ca = b.ca]
                                        [] OTHER -> @]}
          /\ unsure' = (unsure \/ (app.running # b.running /\ (f.quiet \/ Head(f.todo) = "port")))
    /\ UNCHANGED <<status, badge, asked, resolver, confirmed, performed, clicks, auto, pill>>

Merged(f) == [k \in DOMAIN f.from |-> IF k \in DOMAIN f.sets THEN f.sets[k] ELSE f.from[k]]

\* The flow stores its status, or tells of an error, and enables its button again.
\* The first one goes on to start the server; a quiet one stores nothing, and may leave
\* or take a pill.  A status read by a flow that nothing overlapped is sure.
FlowEnds(f) ==
    /\ f \in flows /\ f.todo = <<>>
    /\ status' = IF f.failed \/ f.quiet THEN status ELSE Merged(f)
    /\ pill' \in IF f.quiet THEN BOOLEAN ELSE {pill}
    /\ flows' = (flows \ {f}) \cup
          (IF f.first /\ auto /\ ~ f.from.running
             THEN {[AutoStart(f.from) EXCEPT !.alone = FALSE]} ELSE {})
    /\ badge' = (badge /\ ~ f.badge)
    /\ unsure' = ~ (f.alone /\ ~ f.failed /\ (f.whole \/ ~ unsure))
    /\ UNCHANGED <<app, asked, resolver, confirmed, performed, clicks, auto>>

-----------------------------------------------------------------------------
(* The question                                                            *)

\* Mutant: a question that is asked over another keeps the resolver of the first.
AskKeeping(about) ==
    /\ about = "clear" \/ asked = NoQuestion
    /\ clicks < MaxClicks
    /\ clicks' = clicks + 1
    /\ asked' = [n |-> clicks', about |-> about, from |-> status]
    /\ resolver' = IF resolver = NoQuestion THEN asked' ELSE resolver
    /\ UNCHANGED <<app, status, flows, badge, confirmed, performed, auto, pill, unsure>>

\* confirm(...): by a click, or by Ctrl+Shift+L over whatever is asked, whose promise
\* then never settles.
Ask(about) ==
    /\ about = "clear" \/ asked = NoQuestion
    /\ clicks < MaxClicks
    /\ clicks' = clicks + 1
    /\ asked' = [n |-> clicks', about |-> about, from |-> status]
    /\ resolver' = asked'
    /\ UNCHANGED <<app, status, flows, badge, confirmed, performed, auto, pill, unsure>>

\* handleConfirm: the handler goes on, with the status of before the question.
Confirm ==
    /\ asked # NoQuestion
    /\ confirmed' = confirmed \cup {asked.n}
    /\ performed' = performed \cup {resolver.n}
    /\ flows' = IF resolver.about = "uninstall"
                  THEN Company(flows) \cup
                       {[UninstallCa(resolver.from) EXCEPT !.n = resolver.n, !.alone = FALSE]}
                  ELSE flows
    /\ asked' = NoQuestion /\ resolver' = NoQuestion
    /\ UNCHANGED <<app, status, badge, clicks, auto, pill, unsure>>

\* handleCancel: the button, the cross, the overlay or Escape.
Dismiss ==
    /\ asked # NoQuestion
    /\ asked' = NoQuestion /\ resolver' = NoQuestion
    /\ UNCHANGED <<app, status, flows, badge, confirmed, performed, clicks, auto, pill, unsure>>

-----------------------------------------------------------------------------
PanelNext ==
    \/ \E f \in flows : CallAnswered(f) \/ FlowEnds(f)
    \/ \E f \in Handlers(status) : ClickControl(f)
    \/ ClickControl(SystemBadge(status))
    \/ pill /\ ClickControl(StopPill(status))
    \/ \E about \in {"clear", "uninstall", "java", "environment", "newCA"} : Ask(about)
    \/ Confirm \/ Dismiss

PanelSpec == PanelInit /\ [][PanelNext]_panelVars

-----------------------------------------------------------------------------
(* What the user may rely on                                               *)

\* Whatever waits for a yes (clearing the list, removing the CA from the system or
\* from a Java, deleting an environment) happens only after a yes to that very
\* question, though a later question takes the place of an earlier one.
ConfirmedFirst == performed \subseteq confirmed

\* With no handler under way the panel shows the server as running exactly when it
\* is: after a handler that nothing overlapped and that did not fail, until a new
\* port or a control that stores nothing starts or stops the server.
PanelTellsRunning == flows = {} /\ ~ unsure => status.running = app.running
=============================================================================

----------------------------- MODULE ApiAdapter -----------------------------
(***************************************************************************)
(* store/apiAdapter.ts: how the window reaches the application.  In the    *)
(* desktop program calls go through bindings and events through the        *)
(* runtime; in a browser calls are HTTP requests with a timeout, and the   *)
(* events come over one WebSocket that is opened again when it closes.     *)
(* The application's side is taken from what the adapter expects of it.    *)
(***************************************************************************)
EXTENDS Naturals, FiniteSets, Answers

CONSTANTS
    Platforms,  \* those looked at, of {"wails", "browser"}
    ApiCalls,   \* the calls looked at, by their names
    Topics,     \* the events App.tsx subscribes to: "wrapped" for those given a
                \* function made on the spot, "named" for the others
    MaxBreaks,  \* connections lost (bound)
    MaxMounts   \* times the window is mounted (bound)

ASSUME AdapterAssumption ==
    /\ Platforms \subseteq {"wails", "browser"}
    /\ IsFiniteSet(ApiCalls) /\ Topics \subseteq {"wrapped", "named"}
    /\ {MaxBreaks, MaxMounts} \subseteq Nat

VARIABLES
    platform,   \* isWails
    reachable,  \* the proxy answers on its port
    socket,     \* ws: "none", "connecting", "open" or "lost", which it has yet to notice
    delay,      \* reconnectDelay, in seconds
    timer,      \* what reconnectTimer was set to, 0 when it is not set
    failures,   \* times in a row that the socket closed, counted up to 7 (history)
    breaks,
    listeners,  \* per topic the mounts whose callback is registered
    mounted,    \* the mount that is on display, 0 for none
    mounts,
    promise,    \* per call: "none", "pending", "resolved" or "rejected"
    request,    \* per call: "none", "travelling" or "answered"
    executed    \* per call: how often the application has executed it (history)

link     == <<reachable, socket, delay, timer, failures, breaks>>
registry == <<listeners, mounted, mounts>>
callState == <<promise, request, executed>>
adapterVars == <<platform, link, registry, callState>>

MaxDelay == 30
Smaller(a, b) == IF a < b THEN a ELSE b

AdapterTypeOK ==
    /\ platform \in Platforms
    /\ reachable \in BOOLEAN
    /\ socket \in {"none", "connecting", "open", "lost"}
    /\ delay \in 1 .. MaxDelay /\ timer \in 0 .. MaxDelay
    /\ failures \in 0 .. 7 /\ breaks \in 0 .. MaxBreaks
    /\ listeners \in [Topics -> SUBSET (1 .. MaxMounts)]
    /\ mounted \in 0 .. MaxMounts /\ mounts \in 0 .. MaxMounts
    /\ promise \in [ApiCalls -> {"none", "pending", "resolved", "rejected"}]
    /\ request \in [ApiCalls -> {"none", "travelling", "answered"}]
    /\ executed \in [ApiCalls -> Nat]

\* The constructor opens the socket unless the bindings are there.
AdapterInit ==
    /\ platform \in Platforms
    /\ reachable \in BOOLEAN
    /\ socket = IF platform = "wails" THEN "none" ELSE "connecting"
    /\ delay = 1 /\ timer = 0 /\ failures = 0 /\ breaks = 0
    /\ listeners = [t \in Topics |-> {}] /\ mounted = 0 /\ mounts = 0
    /\ promise = [c \in ApiCalls |-> "none"]
    /\ request = [c \in ApiCalls |-> "none"]
    /\ executed = [c \in ApiCalls |-> 0]

-----------------------------------------------------------------------------
(* The socket                                                              *)

\* onopen
SocketOpens ==
    /\ socket = "connecting" /\ reachable
    /\ socket' = "open"
    /\ delay' = 1 /\ failures' = 0
    /\ UNCHANGED <<platform, reachable, timer, breaks, registry, callState>>

\* Mutant: the socket is opened again at once, and by the timer as well.
SocketClosesTwice ==
    /\ socket = "lost" \/ (socket = "connecting" /\ ~ reachable)
    /\ socket' = "connecting"
    /\ timer' = delay
    /\ failures' = Smaller(failures + 1, 7)
    /\ UNCHANGED <<platform, reachable, delay, breaks, registry, callState>>

\* onclose, after an error or a loss: the timer is set.
SocketCloses ==
    /\ socket = "lost" \/ (socket = "connecting" /\ ~ reachable)
    /\ socket' = "none"
    /\ timer' = delay
    /\ failures' = Smaller(failures + 1, 7)
    /\ UNCHANGED <<platform, reachable, delay, breaks, registry, callState>>

\* Mutants: the delay is not doubled; the timer is not set again.
TimerFiresFlat ==
    /\ timer # 0
    /\ timer' = 0 /\ socket' = "connecting"
    /\ UNCHANGED <<platform, reachable, delay, failures, breaks, registry, callState>>
TimerFiresOnce ==
    /\ timer # 0
    /\ timer' = 0
    /\ delay' = Smaller(delay * 2, MaxDelay)
    /\ socket' = IF delay > 2 THEN "none" ELSE "connecting"
    /\ UNCHANGED <<platform, reachable, failures, breaks, registry, callState>>

\* The timer of onclose: the next delay is doubled, and initMobileWebSocket called.
TimerFires ==
    /\ timer # 0
    /\ timer' = 0
    /\ delay' = Smaller(delay * 2, MaxDelay)
    /\ socket' = "connecting"
    /\ UNCHANGED <<platform, reachable, failures, breaks, registry, callState>>

\* The proxy stops or starts, or the network loses the connection.
ServerChanges ==
    /\ platform = "browser" /\ breaks < MaxBreaks
    /\ breaks' = breaks + 1
    /\ \/ reachable' = ~ reachable
       \/ socket = "open" /\ UNCHANGED reachable
    /\ socket' = IF socket = "open" THEN "lost" ELSE socket
    /\ UNCHANGED <<platform, delay, timer, failures, registry, callState>>

-----------------------------------------------------------------------------
(* Subscriptions                                                           *)

\* The effect of App.tsx subscribes.
Mount ==
    /\ mounted = 0 /\ mounts < MaxMounts
    /\ mounts' = mounts + 1 /\ mounted' = mounts'
    /\ listeners' = [t \in Topics |-> listeners[t] \cup {mounts'}]
    /\ UNCHANGED <<platform, link, callState>>

\* Mutant: the runtime, too, removes one callback.
UnmountOne ==
    /\ mounted # 0
    /\ mounted' = 0
    /\ listeners' = [t \in Topics |-> IF t = "named" THEN listeners[t] \ {mounted}
                                      ELSE listeners[t]]
    /\ UNCHANGED <<platform, mounts, link, callState>>

\* Its cleanup: off removes every callback of the topic through the runtime, and the
\* callback it is given from its own list: four are not the ones that on was given.
Unmount ==
    /\ mounted # 0
    /\ mounted' = 0
    /\ listeners' = [t \in Topics |-> IF platform = "wails" THEN {}
                                      ELSE IF t = "named" THEN listeners[t] \ {mounted}
                                      ELSE listeners[t]]
    /\ UNCHANGED <<platform, mounts, link, callState>>

-----------------------------------------------------------------------------
(* Calls                                                                   *)

\* Calls that have an HTTP request beside their binding, and reject when it fails.
ProxyCalls == {"getStatus", "start", "stop", "setPort", "setSslEnabled", "setSystemProxy",
               "checkCaInstalled", "getCADetails"}
RequestCalls    == {"repeatRequest", "sendWsFrame"}
BreakpointCalls == {"resumeBreakpoint", "abortBreakpoint"}
RuleCalls == {"setFilterConfig", "setHostsRules", "setBlockRules", "setRewriteRules", "setMockRules",
              "setCryptoRules", "setScripts", "setBreakpointRules", "setThrottleConfig",
              "setExternalProxy"}
ReportCalls  == {"exportRootCA", "getReportConfigs", "setReportConfigs"}
SessionCalls == {"getFavorites", "listSessions", "getSessionRequests", "deleteSession",
                 "createSession", "exportHAR", "importHAR"}
ExportCalls  == {"getAllRules", "exportRules", "importRules"}
LaunchCalls  == {"detectLaunchableApps", "launchAndIntercept", "launchCustomApp",
                 "setJavaGlobalProxy", "getJavaGlobalProxyStatus", "downloadADBIfMissing"}
HttpCalls == UNION {ProxyCalls, RequestCalls, BreakpointCalls, RuleCalls, ReportCalls,
                    SessionCalls, ExportCalls, LaunchCalls}

\* Those that resolve though the request failed, and those without one.
QuietCalls == {"toggleFavorite", "deleteFavorite", "resolveADBPath", "writeLog", "getLogFilePath",
               "getRecentLogs", "clearLogs"}
DesktopCalls == {"listJVMTargets", "attachJVM", "launchTerminal", "launchBrowserInterceptor",
                 "launchElectronApp", "listExternalRuns", "listADBDevices", "startADBInterception",
                 "stopADBInterception", "launchFrida", "launchFridaAttach", "stopFrida",
                 "listAndroidInstalledApps", "listAndroidRunningApps", "deployFridaServer"}
ToolCalls == {"installCA", "addBlockRule", "installAndroidRootCA", "getLaunchableAppCAs",
              "toolboxRSA", "toolboxAES", "toolboxEncode", "toolboxCertHash", "toolboxRunJS",
              "openLogFolder", "decodeGrpcPayload", "getBinaryToolsStatus", "downloadBinaryTool",
              "openBinariesFolder"}

Route(c) == IF platform = "wails" THEN "binding"
            ELSE IF c \in HttpCalls THEN "http"
            ELSE IF c \in QuietCalls THEN "quiet" ELSE "nothing"

CallApi(c) ==
    /\ promise[c] = "none"
    /\ promise' = [promise EXCEPT ![c] = IF Route(c) = "nothing" THEN "resolved" ELSE "pending"]
    /\ request' = [request EXCEPT ![c] = IF Route(c) = "nothing" THEN "none" ELSE "travelling"]
    /\ UNCHANGED <<platform, executed, link, registry>>

\* The application executes the call, whether or not anyone still waits.
ExecuteCall(c) ==
    /\ request[c] = "travelling"
    /\ reachable \/ platform = "wails"
    /\ request' = [request EXCEPT ![c] = "answered"]
    /\ executed' = [executed EXCEPT ![c] = @ + 1]
    /\ UNCHANGED <<platform, promise, link, registry>>

\* What a call that fails comes to.
Refused(c) == IF Route(c) = "quiet" THEN "resolved" ELSE "rejected"

\* The answer, or an error status.
Settle(c) ==
    /\ promise[c] = "pending" /\ request[c] = "answered"
    /\ \E p \in {"resolved", Refused(c)} : promise' = [promise EXCEPT ![c] = p]
    /\ UNCHANGED <<platform, request, executed, link, registry>>

\* Mutants: no timer; a call that timed out is made again.
NoTimeout(c) ==
    /\ promise[c] = "pending" /\ platform = "browser" /\ request[c] = "answered"
    /\ promise' = [promise EXCEPT ![c] = "rejected"]
    /\ UNCHANGED <<platform, request, executed, link, registry>>
TimeoutRetry(c) ==
    /\ promise[c] = "pending" /\ platform = "browser"
    /\ IF executed[c] < 1 THEN promise' = [promise EXCEPT ![c] = "rejected"] /\ UNCHANGED request
       ELSE request' = [request EXCEPT ![c] = "travelling"] /\ UNCHANGED promise
    /\ UNCHANGED <<platform, executed, link, registry>>

\* httpFetch: a network error, or the AbortController after 30 seconds.
TimeoutCall(c) ==
    /\ promise[c] = "pending" /\ platform = "browser"
    /\ promise' = [promise EXCEPT ![c] = Refused(c)]
    /\ UNCHANGED <<platform, request, executed, link, registry>>

-----------------------------------------------------------------------------
AdapterNext ==
    \/ SocketOpens \/ SocketCloses \/ TimerFires \/ ServerChanges
    \/ Mount \/ Unmount
    \/ \E c \in ApiCalls : CallApi(c) \/ ExecuteCall(c) \/ Settle(c) \/ TimeoutCall(c)

AdapterSpec == AdapterInit /\ [][AdapterNext]_adapterVars

-----------------------------------------------------------------------------
(* What the window may rely on                                             *)

\* There is one socket or one timer for the next one, never both, and the timer is
\* set to a delay that doubles with each close in a row, up to thirty seconds.
Backoff == <<1, 2, 4, 8, 16, 30, 30>>
OneAttemptAtATime == timer # 0 => socket = "none" /\ timer = Backoff[failures]

\* Once the proxy stays reachable, events come again.
Reconnects == <>[](platform = "browser" /\ reachable) ~> (socket = "open")

\* While the window is mounted each event has exactly one callback, and none after:
\* in the desktop program however often it is mounted, in a browser the first time.
HandledOnce ==
    platform = "wails" \/ (mounts <= 1 /\ mounted = mounts) =>
        \A t \in Topics : listeners[t] = IF mounted = 0 THEN {} ELSE {mounted}

\* A call is executed at most once, and exactly once if its promise resolved and it has
\* a route that tells failures; one that was rejected may still be executed.
ExecutedAtMostOnce ==
    \A c \in ApiCalls :
        /\ executed[c] <= 1
        /\ promise[c] = "resolved" /\ Route(c) \in {"binding", "http"} => executed[c] = 1

\* The adapter reconnects in order, has one callback for an event, and repeats no call.
AdapterIsExact == OneAttemptAtATime /\ HandledOnce /\ ExecutedAtMostOnce

\* Every promise settles: in a browser even if the proxy never answers, and in the
\* desktop program, whose calls have no deadline, if the application answers.
PromisesSettle ==
    \A c \in ApiCalls :
        promise[c] = "pending" /\ (platform = "browser" \/ answered) ~> promise[c] # "pending"
=============================================================================

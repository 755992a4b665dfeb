----------------------------- MODULE MCControls -----------------------------
(***************************************************************************)
(* The parts of the window that act on the application, on small instances *)
(* for TLC: the breakpoint editor, the adapter, the interceptors page and  *)
(* the dialogs of devices.                                                 *)
(*                                                                         *)
(* A behaviour looks at one scene: the variables of the others keep their  *)
(* initial values, so that one run covers every module without the product *)
(* of their states.  Fairness is that of the scene, and of the calls that  *)
(* are answered: the application gives none a deadline, so a behaviour may *)
(* be one in which some are left without an answer for ever.               *)
(***************************************************************************)
EXTENDS BreakpointDesk, ApiAdapter, InterceptorsPanel, DeviceDialogs

VARIABLE scene

-----------------------------------------------------------------------------
(* Instances                                                               *)

MCPauses     == {1, 2}
MCTargets    == {SpawnFrida, StartAdb, LaunchBrowser}

-----------------------------------------------------------------------------
(* One scene at a time                                                     *)

\* Only the adapter promises anything of calls that are not answered; the runs are
\* looked at without polls, and no poll is answered there.
ControlsInit ==
    /\ scene \in {"desk", "adapter", "runs", "polls", "java", "android", "phones"}
    /\ answered \in IF scene = "adapter" THEN BOOLEAN ELSE {scene # "runs"}
    /\ DeskInit
    /\ AdapterInit   /\ (scene = "adapter" \/ (platform = "wails" /\ reachable))
    /\ RunsInit      /\ (scene = "java" \/ ~ java)
    /\ DevicesInit   /\ (scene = "android" \/ plugged = {}) /\ (scene = "phones" \/ hub = {})

\* The modules but for m stand still.
But(m) ==
    /\ UNCHANGED <<scene, answered>>
    /\ IF m = "desk"     THEN TRUE ELSE UNCHANGED deskVars
    /\ IF m = "adapter"  THEN TRUE ELSE UNCHANGED adapterVars
    /\ IF m = "runs"     THEN TRUE ELSE UNCHANGED panelRunsVars
    /\ IF m = "devices"  THEN TRUE ELSE UNCHANGED deviceVars

\* The polls are looked at with launches of one kind.
AdbOnly == \A l \in launches' : l.what = StartAdb

ControlsNext ==
    \/ scene = "desk"    /\ DeskNext     /\ But("desk")
    \/ scene = "adapter" /\ AdapterNext  /\ But("adapter")
    \/ scene = "runs"    /\ RunSteps     /\ But("runs")
    \/ scene = "polls"   /\ (RunSteps \/ PollSteps) /\ AdbOnly /\ But("runs")
    \/ scene = "java"    /\ JavaSteps    /\ But("runs")
    \/ scene = "android" /\ AndroidSteps /\ But("devices")
    \/ scene = "phones"  /\ PhoneSteps   /\ But("devices")

controlsVars == <<scene, answered, deskVars, adapterVars, panelRunsVars, deviceVars>>

\* Nothing is assumed of the user, of the other end of a connection, or of what travels
\* over HTTP.  A select with a message in its channel is taken; timers and
\* intervals fire; an attempt to connect ends; what a call brings back is shown.  The
\* application's part of a call is done only where calls are answered.
ControlsFairness ==
    /\ \A p \in Pauses : WF_deskVars(scene = "desk" /\ Return(p))
    /\ WF_deskVars(scene = "desk" /\ answered /\ (\E c \in requestsUnderWay : Arrive(c)))
    /\ WF_adapterVars(scene = "adapter" /\ (SocketOpens \/ SocketCloses \/ TimerFires))
    /\ \A c \in ApiCalls : WF_adapterVars(scene = "adapter" /\ TimeoutCall(c))
    /\ \A c \in ApiCalls : WF_adapterVars(scene = "adapter" /\ platform = "wails" /\ Settle(c))
    /\ \A c \in ApiCalls : WF_adapterVars(scene = "adapter" /\ answered /\ platform = "wails"
                                          /\ ExecuteCall(c))
    /\ WF_panelRunsVars(scene = "polls" /\ PollAsks)
    /\ WF_panelRunsVars(scene = "polls" /\ (\E p \in polls : PollMerges(p)))
    /\ WF_panelRunsVars(scene = "polls" /\ answered /\ (\E p \in polls : PollReads(p)))
    /\ WF_panelRunsVars(scene = "java" /\ answered /\ JavaRead)
    /\ WF_panelRunsVars(scene = "java" /\ JavaShow)
    /\ WF_panelRunsVars(scene = "java" /\ JavaSaid)
    /\ WF_deviceVars(scene = "android" /\ ScanEnds)
    /\ WF_deviceVars(scene = "android" /\ answered /\ ScanRead)
    /\ WF_deviceVars(scene = "android" /\ answered /\ FetchSteps)
    /\ WF_deviceVars(scene = "android" /\ answered /\ InjectSteps)
    /\ WF_deviceVars(scene = "phones" /\ PhonesPolled)
    /\ WF_deviceVars(scene = "phones" /\ (\E l \in phoneEvents : PhonesTold(l)))
    /\ WF_deviceVars(scene = "phones" /\ answered /\ PhonesRead)

ControlsSpec == ControlsInit /\ [][ControlsNext]_controlsVars /\ ControlsFairness

-----------------------------------------------------------------------------
(* The properties by theme; each part is stated in its own module.         *)

ControlsTypeOK ==
    DeskTypeOK /\ AdapterTypeOK /\ RunsTypeOK /\ DevicesTypeOK

\* No pause is answered and no app injected but as the user clicked, and a device that is
\* routed here has a button to free it.
UserIsInControl == [](OnlyTheUserAnswers /\ RoutedHasPill) /\ InjectsWhereClicked

\* What is so comes to be shown: runs, the Java proxy, companions, the events of a proxy
\* that is reachable again; all but the last if the calls of polls are answered.
ShownComesTrue ==
    EveryRunIsShown /\ JavaIsShown /\ PhonesComeTrue /\ Reconnects

\* What was begun ends if calls are answered: buttons come back, promises settle, an
\* answered pause returns.  In a browser promises settle though none is answered.
NothingStaysBusy ==
    ButtonsComeBack /\ PromisesSettle /\ AnsweredPauseEnds
=============================================================================

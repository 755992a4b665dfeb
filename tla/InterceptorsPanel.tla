--------------------------- MODULE InterceptorsPanel ---------------------------
(***************************************************************************)
(* What is being intercepted: the cards of interceptors/InterceptorsPage,  *)
(* the pill of desktop/Toolbar.tsx, activeInterceptors of the store, the   *)
(* launches of AndroidFridaModal.tsx, and the runs that app_launcher.go    *)
(* keeps rows of in the table external_interceptor_runs.                   *)
(*                                                                         *)
(* A launch adds a card and a pill when its call is back.  A poll adds     *)
(* cards for rows it does not know, and never removes one.  So a card may  *)
(* be of a run that has ended, or be there twice.  Of the pills only the   *)
(* first is shown.  The pills are of the store; the cards are of the page, *)
(* and are gone with it, as is what its calls would have shown.            *)
(***************************************************************************)
EXTENDS Naturals, Sequences, FiniteSets, Subsequences, Answers

CONSTANTS
    Devices,    \* serial numbers
    Targets,    \* the launches looked at
    MaxRuns,    \* rows of one behaviour (bound)
    MaxCalls,   \* launches and stops under way (bound)
    MaxPolls,   \* answers of polls under way (bound)
    MaxFlips    \* changes of the Java proxy (bound)

ASSUME RunsAssumption == "none" \notin Devices /\ {MaxRuns, MaxCalls, MaxPolls, MaxFlips} \subseteq Nat

VARIABLES
    runs,       \* rows: their number, kind, device, and whether they are active
    latest,     \* activeDev of the ADB interceptor: the run to be stopped
    routed,     \* devices whose proxy setting is this program
    launches,   \* calls that launch, under way
    stops,      \* calls that stop, under way: of a pill, of a card, or of one of
                \* a page that was left
    cards,      \* activeRuns: the run and the type shown
    pills,      \* activeInterceptors
    polls,      \* listExternalRuns under way: the runs read, or not answered yet
    java,       \* JAVA_TOOL_OPTIONS is set
    javaShown,  \* javaGlobalEnabled
    javaCall,   \* setJavaGlobalProxy under way: what it sets and whether it is done
    javaAnswer, \* what the status call of a poll returned, or "none"
    javaLate,   \* what is still to be set for pages that were left
    flips,      \* changes of java so far
    page,       \* the page is mounted
    abandoned   \* devices that were routed and given up without a stop (history)

runVars    == <<runs, latest, routed, launches, stops, cards, pills, abandoned>>
javaVars   == <<java, javaShown, javaCall, javaAnswer, javaLate, flips, page>>
panelRunsVars == <<runVars, polls, javaVars>>

-----------------------------------------------------------------------------
(* What is launched, and what of it is kept: a row, a pill, the proxy      *)
(* setting of a device.  Every launch adds a card, of the given type.      *)

LaunchBrowser  == [type |-> "browser",  row |-> FALSE, pill |-> TRUE,  device |-> FALSE]
LaunchTerminal == [type |-> "terminal", row |-> TRUE,  pill |-> TRUE,  device |-> FALSE]
AttachJvm      == [type |-> "jvm",      row |-> TRUE,  pill |-> TRUE,  device |-> FALSE]
LaunchCustom   == [type |-> "custom",   row |-> FALSE, pill |-> FALSE, device |-> FALSE]
SpawnFrida     == [type |-> "frida",    row |-> TRUE,  pill |-> TRUE,  device |-> TRUE]
AttachFrida    == [type |-> "frida",    row |-> TRUE,  pill |-> TRUE,  device |-> FALSE]
StartAdb       == [type |-> "adb",      row |-> TRUE,  pill |-> TRUE,  device |-> TRUE]

ASSUME TargetsAssumption ==
    Targets \subseteq {LaunchBrowser, LaunchTerminal, AttachJvm, LaunchCustom,
                       SpawnFrida, AttachFrida, StartAdb}

Types == {"browser", "terminal", "jvm", "custom", "frida", "adb"}
Rows  == [n : 1 .. MaxRuns, type : Types, dev : Devices \cup {"none"}, on : BOOLEAN]
Pills == [n : 1 .. MaxRuns, type : Types, dev : Devices \cup {"none"}]

NoJavaCall == [to |-> "none", done |-> FALSE]

RunsTypeOK ==
    /\ runs \subseteq Rows /\ \A r, s \in runs : r.n = s.n => r = s
    /\ latest \in [Devices -> 0 .. MaxRuns]
    /\ routed \subseteq Devices /\ abandoned \subseteq Devices
    /\ launches \subseteq [what : Targets, dev : Devices \cup {"none"}, n : 0 .. MaxRuns,
                           state : {"called", "done", "failed"}, here : BOOLEAN]
    /\ stops \subseteq [of : Pills, done : BOOLEAN, by : {"pill", "card", "gone"}]
    /\ cards \subseteq [n : 1 .. MaxRuns, type : Types \cup {"app"}]
    /\ \A i \in DOMAIN pills : pills[i] \in Pills
    /\ polls \subseteq [answered : BOOLEAN, read : SUBSET (1 .. MaxRuns)]
    /\ {java, javaShown, page} \subseteq BOOLEAN /\ javaLate \subseteq {"set", "unset"}
    /\ javaCall \in {NoJavaCall} \cup [to : {"set", "unset"}, done : BOOLEAN]
    /\ javaAnswer \in {"none", "set", "unset"}
    /\ flips \in 0 .. MaxFlips

RunsInit ==
    /\ runs = {} /\ latest = [d \in Devices |-> 0] /\ routed = {} /\ abandoned = {}
    /\ launches = {} /\ stops = {} /\ cards = {} /\ pills = <<>> /\ polls = {}
    /\ java \in BOOLEAN /\ javaShown = FALSE
    /\ javaCall = NoJavaCall /\ javaAnswer = "none" /\ javaLate = {} /\ flips = 0
    /\ page = FALSE

Room == Cardinality(launches) + Cardinality(stops) < MaxCalls

IsActive(n) == \E r \in runs : r.n = n /\ r.on
NextRun     == Cardinality(runs) + 1
EndRuns(S)  == {IF r.n \in S THEN [r EXCEPT !.on = FALSE] ELSE r : r \in runs}
Row(n, type, d, on) == [n |-> n, type |-> type, dev |-> d, on |-> on]

-----------------------------------------------------------------------------
(* The page                                                                *)

OpenPage ==
    /\ ~ page
    /\ page' = TRUE
    /\ UNCHANGED <<runVars, polls, java, javaShown, javaCall, javaAnswer, javaLate, flips>>

\* Another tab: the calls go on, and set the state of a page that is gone.
LeavePage ==
    /\ page
    /\ page' = FALSE
    /\ cards' = {} /\ polls' = {}
    /\ launches' = {[l EXCEPT !.here = FALSE] : l \in launches}
    /\ stops' = {[s EXCEPT !.by = IF @ = "pill" THEN @ ELSE "gone"] : s \in stops}
    /\ javaLate' = IF javaCall = NoJavaCall \/ javaCall.done THEN javaLate
                   ELSE javaLate \cup {javaCall.to}
    /\ javaCall' = NoJavaCall /\ javaAnswer' = "none" /\ javaShown' = FALSE
    /\ UNCHANGED <<runs, latest, routed, pills, abandoned, java, flips>>

-----------------------------------------------------------------------------
(* Launches                                                                *)

\* A button.
Launch(what, d) ==
    /\ page /\ what \in Targets
    /\ what.type \in {"frida", "adb"} <=> d # "none"
    /\ Room /\ \A l \in launches : ~ (l.what = what /\ l.dev = d)
    /\ launches' = launches \cup {[what |-> what, dev |-> d, n |-> 0, state |-> "called", here |-> TRUE]}
    /\ UNCHANGED <<runs, latest, routed, stops, cards, pills, abandoned, polls, javaVars>>

\* The application launches it.  To spawn under Frida it first routes the device, as a
\* run of its own, and goes on if that fails (~ ok); if the injection fails the device
\* stays routed.
LaunchedWith(l, ok) ==
    LET adb   == NextRun
        first == ok /\ l.what = SpawnFrida
        mine  == IF first THEN NextRun + 1 ELSE NextRun
        route == IF ok /\ l.what.device
                   THEN /\ routed' = routed \cup {l.dev}
                        /\ latest' = [latest EXCEPT ![l.dev] = adb]
                   ELSE UNCHANGED <<routed, latest>>
        added == IF first THEN {Row(adb, "adb", l.dev, TRUE)} ELSE {}
    IN
    /\ l.state = "called" /\ mine <= MaxRuns
    /\ \/ /\ launches' = (launches \ {l}) \cup {[l EXCEPT !.n = mine, !.state = "done"]}
          /\ runs' = runs \cup added \cup {Row(mine, l.what.type, l.dev, l.what.row)}
          /\ route /\ abandoned' = abandoned \ {l.dev}
       \/ /\ launches' = (launches \ {l}) \cup {[l EXCEPT !.state = "failed"]}
          /\ runs' = runs \cup added
          /\ IF first THEN route /\ abandoned' = abandoned \cup {l.dev}
                      ELSE UNCHANGED <<routed, latest, abandoned>>
    /\ UNCHANGED <<stops, cards, pills, polls, javaVars>>

Launched(l) ==
    l \in launches /\ \E ok \in {TRUE, l.what # SpawnFrida} : LaunchedWith(l, ok)

\* The call is back: a card on its page and a pill, or a toast.
Begun(l) ==
    /\ l \in launches /\ l.state # "called"
    /\ launches' = launches \ {l}
    /\ IF l.state = "failed" THEN UNCHANGED <<cards, pills>>
       ELSE /\ cards' = IF l.here THEN cards \cup {[n |-> l.n, type |-> l.what.type]} ELSE cards
            /\ pills' = IF l.what.pill
                          THEN Append(pills, [n |-> l.n, type |-> l.what.type, dev |-> l.dev])
                          ELSE pills
    /\ UNCHANGED <<runs, latest, routed, stops, abandoned, polls, javaVars>>

\* A process ends by itself, and its row says so.
RunEnds(r) ==
    /\ r \in runs /\ r.on /\ r.type \in {"frida", "terminal"}
    /\ runs' = EndRuns({r.n})
    /\ UNCHANGED <<latest, routed, launches, stops, cards, pills, abandoned, polls, javaVars>>

-----------------------------------------------------------------------------
(* Stops                                                                   *)

Without(s, n) == Subsequence(s, {i \in DOMAIN s : s[i].n # n})

\* The cross of the pill: the first of activeInterceptors is the one shown.
StopPill ==
    /\ pills # <<>> /\ Room
    /\ stops' = stops \cup {[of |-> Head(pills), done |-> FALSE, by |-> "pill"]}
    /\ UNCHANGED <<runs, latest, routed, launches, cards, pills, abandoned, polls, javaVars>>

\* The cross of a card of the type frida, whose run is stopped first.
StopCard(c) ==
    /\ c \in cards /\ c.type = "frida" /\ Room
    /\ \E r \in runs :
          /\ r.n = c.n
          /\ stops' = stops \cup {[of |-> [n |-> c.n, type |-> "frida", dev |-> r.dev],
                                   done |-> FALSE, by |-> "card"]}
    /\ UNCHANGED <<runs, latest, routed, launches, cards, pills, abandoned, polls, javaVars>>

\* StopADBInterception frees the device, unless adb fails, which it ignores, and ends
\* the newest of its runs.  So does StopFrida for a script injected on the device;
\* a script of the host is killed, and the device is left as it is.  For other types
\* the proxy is stopped, and the run is left alone.
Stopped(s) ==
    LET device  == {s.of.dev} \cap Devices
        newest  == {latest[d] : d \in device}
        giveUp  == routed' = routed /\ abandoned' = abandoned \cup (routed \cap device)
        free    == /\ latest' = [latest EXCEPT ![s.of.dev] = 0]
                   /\ giveUp \/ (routed' = routed \ device /\ abandoned' = abandoned \ device)
    IN
    /\ s \in stops /\ ~ s.done
    /\ stops' = (stops \ {s}) \cup {[s EXCEPT !.done = TRUE]}
    /\ \/ s.of.type = "adb" /\ free /\ runs' = EndRuns(newest)
       \/ s.of.type = "frida" /\ free /\ runs' = EndRuns(newest \cup {s.of.n})
       \/ /\ s.of.type = "frida" /\ giveUp /\ runs' \in {runs, EndRuns({s.of.n})}
          /\ UNCHANGED latest
       \/ s.of.type \notin {"adb", "frida"} /\ UNCHANGED <<runs, routed, latest, abandoned>>
    /\ UNCHANGED <<launches, cards, pills, polls, javaVars>>

\* The pill is removed, and the card if its cross was clicked.
Removed(s) ==
    /\ stops' = stops \ {s}
    /\ pills' = Without(pills, s.of.n)
    /\ cards' = IF s.by = "card" THEN {c \in cards : c.n # s.of.n} ELSE cards

\* The call is back.
StopEnds(s) ==
    /\ s \in stops /\ s.done /\ Removed(s)
    /\ UNCHANGED <<runs, latest, routed, launches, abandoned, polls, javaVars>>

\* Mutant: the pill goes though the call failed.
StopFailsQuietly(s) ==
    /\ s \in stops /\ ~ s.done /\ Removed(s)
    /\ UNCHANGED <<runs, latest, routed, launches, abandoned, polls, javaVars>>

\* The call failed: the run is not one of the host any more, or its process cannot be
\* killed.  The pill stays after a toast; for a card the failure is swallowed.
StopFails(s) ==
    /\ s \in stops /\ ~ s.done
    /\ IF s.by = "pill"
         THEN stops' = stops \ {s} /\ UNCHANGED <<cards, pills, abandoned>>
         ELSE Removed(s) /\ abandoned' = abandoned \cup (routed \cap {s.of.dev})
    /\ UNCHANGED <<runs, latest, routed, launches, polls, javaVars>>

\* The cross of any other card removes the card and the pill: nothing is stopped, and
\* a device is given up as it is.
RemoveCard(c) ==
    /\ c \in cards /\ c.type # "frida"
    /\ cards' = {d \in cards : d.n # c.n}
    /\ pills' = Without(pills, c.n)
    /\ abandoned' = abandoned \cup ({r.dev : r \in {q \in runs : q.n = c.n}} \cap routed)
    /\ UNCHANGED <<runs, latest, routed, launches, stops, polls, javaVars>>

\* "Dismiss All" is of the cards only.
DismissAll ==
    /\ cards # {}
    /\ cards' = {}
    /\ UNCHANGED <<runs, latest, routed, launches, stops, pills, abandoned, polls, javaVars>>

-----------------------------------------------------------------------------
(* Polls, every 2.5 seconds                                                *)

PollAsks ==
    /\ page /\ Cardinality(polls) < MaxPolls
    /\ [answered |-> FALSE, read |-> {}] \notin polls
    /\ polls' = polls \cup {[answered |-> FALSE, read |-> {}]}
    /\ UNCHANGED <<runVars, javaVars>>

PollReads(p) ==
    /\ p \in polls /\ ~ p.answered
    /\ polls' = (polls \ {p}) \cup {[answered |-> TRUE, read |-> {r.n : r \in {q \in runs : q.on}}]}
    /\ UNCHANGED <<runVars, javaVars>>

\* The ID of the card that AttachJvm makes is not the one of its row.
KnownCards == {c.n : c \in {d \in cards : d.type # "jvm"}}

\* Mutant: only the first answer is taken.
PollMergesFirst(p) ==
    /\ p \in polls /\ p.answered
    /\ polls' = polls \ {p}
    /\ cards' = IF cards = {} THEN {[n |-> m, type |-> "app"] : m \in p.read} ELSE cards
    /\ UNCHANGED <<runs, latest, routed, launches, stops, pills, abandoned, javaVars>>

\* refreshActiveRuns: cards for the runs that have none.  The rows have no field that
\* tells the page their type.
PollMerges(p) ==
    /\ p \in polls /\ p.answered
    /\ polls' = polls \ {p}
    /\ cards' = cards \cup {[n |-> m, type |-> "app"] : m \in p.read \ KnownCards}
    /\ UNCHANGED <<runs, latest, routed, launches, stops, pills, abandoned, javaVars>>

-----------------------------------------------------------------------------
(* The Java proxy                                                          *)

\* handleToggleJavaGlobal, whose button is disabled until it ends.
JavaClick ==
    /\ page /\ javaCall = NoJavaCall /\ flips < MaxFlips
    /\ javaCall' = [to |-> IF javaShown THEN "unset" ELSE "set", done |-> FALSE]
    /\ flips' = flips + 1
    /\ UNCHANGED <<runVars, polls, java, javaShown, javaAnswer, javaLate, page>>

\* The call succeeds, or fails and has set it or not.
JavaSet ==
    /\ javaCall # NoJavaCall /\ ~ javaCall.done
    /\ \/ java' = (javaCall.to = "set") /\ javaCall' = [javaCall EXCEPT !.done = TRUE]
       \/ java' \in {java, javaCall.to = "set"} /\ javaCall' = NoJavaCall
    /\ UNCHANGED <<runVars, polls, javaShown, javaAnswer, javaLate, flips, page>>

\* So does one of a page that was left.
JavaSetLate(v) ==
    /\ v \in javaLate
    /\ javaLate' = javaLate \ {v}
    /\ java' \in {java, v = "set"}
    /\ UNCHANGED <<runVars, polls, javaShown, javaCall, javaAnswer, flips, page>>

\* The handler shows what it has set.
JavaSaid ==
    /\ javaCall.done
    /\ javaCall' = NoJavaCall
    /\ javaShown' = (javaCall.to = "set")
    /\ UNCHANGED <<runVars, polls, java, javaAnswer, javaLate, flips, page>>

\* refreshJavaStatus of a poll: read, and shown later.
JavaRead ==
    /\ page /\ javaAnswer = "none"
    /\ javaAnswer' = IF java THEN "set" ELSE "unset"
    /\ UNCHANGED <<runVars, polls, java, javaShown, javaCall, javaLate, flips, page>>

\* Mutant: a status is shown once, when the page is opened.
JavaShowOnce ==
    /\ javaAnswer # "none"
    /\ javaAnswer' = "none"
    /\ javaShown' = IF flips = 0 THEN javaAnswer = "set" ELSE javaShown
    /\ UNCHANGED <<runVars, polls, java, javaCall, javaLate, flips, page>>

JavaShow ==
    /\ javaAnswer # "none"
    /\ javaAnswer' = "none"
    /\ javaShown' = (javaAnswer = "set")
    /\ UNCHANGED <<runVars, polls, java, javaCall, javaLate, flips, page>>

-----------------------------------------------------------------------------
LaunchSteps == \E l \in launches : Launched(l) \/ Begun(l)
StopSteps   == \E s \in stops : Stopped(s) \/ StopEnds(s) \/ StopFails(s)
CardSteps   == \E c \in cards : StopCard(c) \/ RemoveCard(c)
PollSteps   == PollAsks \/ \E p \in polls : PollReads(p) \/ PollMerges(p)
PageSteps   == OpenPage \/ LeavePage

RunSteps ==
    \/ \E what \in Targets, d \in Devices \cup {"none"} : Launch(what, d)
    \/ \E r \in runs : RunEnds(r)
    \/ LaunchSteps \/ StopSteps \/ CardSteps \/ StopPill \/ DismissAll \/ PageSteps
JavaSteps ==
    \/ JavaClick \/ JavaSet \/ JavaSaid \/ JavaRead \/ JavaShow \/ PageSteps
    \/ \E v \in javaLate : JavaSetLate(v)

RunsNext == RunSteps \/ PollSteps \/ JavaSteps
RunsSpec == RunsInit /\ [][RunsNext]_panelRunsVars

-----------------------------------------------------------------------------
(* What the user may rely on                                               *)

\* A device whose traffic is routed here has a pill to stop it with, or a launch whose
\* pill is to come: unless its run was dismissed by the cross of a card that stopped
\* nothing or failed to, its Frida script failed or was one of the host, or the adb
\* commands of a stop failed.
RoutedHasPill ==
    \A d \in routed \ abandoned :
        \/ \E i \in DOMAIN pills : pills[i].dev = d
        \/ \E l \in launches : l.dev = d /\ l.state = "done"

\* Every run that is active gets a card, whoever launched it and whatever was dismissed,
\* once the user stays on the page; if the application answers the polls.
EveryRunIsShown ==
    answered /\ <>[]page =>
        \A n \in 1 .. MaxRuns : IsActive(n) ~> (\E c \in cards : c.n = n) \/ ~ IsActive(n)

\* The switch of the Java proxy comes to show what is set, whatever failed, was answered
\* late or never, or set for a page that was left; once the user stays on the
\* page, and if the application answers the polls.
JavaIsShown ==
    answered /\ <>[]page => (java # javaShown ~> java = javaShown)
=============================================================================

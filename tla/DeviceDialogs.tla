---------------------------- MODULE DeviceDialogs ----------------------------
(***************************************************************************)
(* Phones and their dialogs: interceptors/AndroidFridaModal.tsx, which     *)
(* injects into an app of an attached device, and the companions that are  *)
(* connected over the network, of DesktopHome.tsx and PhoneConnectDialog.  *)
(*                                                                         *)
(* What a dialog shows comes from calls whose answers may be late.  The    *)
(* modal keeps the list of apps beside the device that is selected, and    *)
(* nothing in the list says of which device it is.                         *)
(***************************************************************************)
EXTENDS Naturals, FiniteSets, Answers

CONSTANTS
    Serials,    \* attached devices
    Phones,     \* companions
    MaxPlugs,   \* times a device is attached or a companion comes or goes (bound)
    MaxPicks,   \* selections, openings, deployments and injections (bound)
    MaxFetches  \* calls of fetchApps under way (bound)

ASSUME DeviceAssumption ==
    /\ "" \notin Serials /\ {MaxPlugs, MaxPicks, MaxFetches} \subseteq Nat

VARIABLES
    plugged,    \* devices attached
    instance,   \* the how many-th time the Android dialog is open
    modal,      \* the Android dialog: "closed", "frida" or "adb"
    listed,     \* devices
    selected,   \* selectedSerial, "" for none
    scan,       \* refreshDevices under way: the selection it was called with, or NoScan
    fetches,    \* fetchApps under way: for which device, and the how many-th
    fetchCount,
    apps,       \* installedApps: the device they are of, "" for none
    loading,    \* loadingApps
    injecting,  \* injecting
    inject,     \* launches and deployments under way: the device, that of the app's list,
                \* and the dialog they are of
    sent,       \* all launches (history)
    mixed,      \* since the dialog was opened apps were fetched twice at a time, or for
                \* a device no longer selected (history)
    hub,        \* companions connected
    phonesShown,    \* connectedMobileDevices
    phoneEvents,    \* mobile:devices_changed under way: their lists, each sent by a
                    \* goroutine of its own
    phonePoll,      \* GetConnectedMobileDevices under way: its answer, or NoList
    disconnects,    \* handleDisconnectMobile under way, with the list it was rendered with
    changes, picks

androidVars == <<plugged, instance, modal, listed, selected, scan, fetches, fetchCount, apps, loading,
                 injecting, inject, sent, mixed, picks>>
phoneVars   == <<hub, phonesShown, phoneEvents, phonePoll, disconnects>>
deviceVars  == <<androidVars, phoneVars, changes>>

NoScan == [from |-> "none", devs |-> {}, done |-> FALSE]
NoList == [known |-> FALSE, list |-> {}]
List(S) == [known |-> TRUE, list |-> S]
Serial0 == Serials \cup {""}

DevicesTypeOK ==
    /\ plugged \subseteq Serials /\ listed \subseteq Serials
    /\ modal \in {"closed", "frida", "adb"}
    /\ selected \in Serial0 /\ apps \in Serial0
    /\ scan = NoScan \/ scan \in [from : Serial0, devs : SUBSET Serials, done : BOOLEAN]
    /\ fetches \subseteq [n : Nat, dev : Serials, done : BOOLEAN]
    /\ fetchCount \in Nat
    /\ {loading, injecting, mixed} \subseteq BOOLEAN
    /\ inject \subseteq sent
    /\ sent \subseteq [n : Nat, by : 0 .. MaxPicks, what : {"launch", "deploy"},
                       dev : Serial0, of : Serial0]
    /\ instance \in 0 .. MaxPicks
    /\ hub \subseteq Phones /\ phonesShown \subseteq Phones
    /\ phoneEvents \subseteq SUBSET Phones
    /\ phonePoll.known \in BOOLEAN /\ phonePoll.list \subseteq Phones
    /\ disconnects \subseteq [dev : Phones, list : SUBSET Phones, done : BOOLEAN]
    /\ changes \in 0 .. MaxPlugs /\ picks \in 0 .. MaxPicks

DevicesInit ==
    /\ plugged \in SUBSET Serials
    /\ instance = 0 /\ modal = "closed" /\ listed = {} /\ selected = "" /\ scan = NoScan
    /\ fetches = {} /\ fetchCount = 0 /\ apps = "" /\ loading = FALSE
    /\ injecting = FALSE /\ inject = {} /\ sent = {} /\ mixed = FALSE
    /\ hub \in SUBSET Phones /\ phonesShown = {}
    /\ phoneEvents = {} /\ phonePoll = NoList /\ disconnects = {}
    /\ changes = 0 /\ picks = 0

-----------------------------------------------------------------------------
(* The Android dialog                                                      *)

PlugOrUnplug(d) ==
    /\ changes < MaxPlugs
    /\ changes' = changes + 1
    /\ plugged' = IF d \in plugged THEN plugged \ {d} ELSE plugged \cup {d}
    /\ UNCHANGED <<instance, modal, listed, selected, scan, fetches, fetchCount, apps, loading,
                   injecting, inject, sent, mixed, picks, phoneVars>>

Pick == picks < MaxPicks /\ picks' = picks + 1

\* fetchApps is called for d: by the effect, or after a deployment.
Fetch(d, late) ==
    /\ fetchCount' = fetchCount + 1
    /\ fetches' = fetches \cup {[n |-> fetchCount', dev |-> d, done |-> FALSE]}
    /\ loading' = TRUE
    /\ mixed' = (mixed \/ late \/ fetches # {})

\* The effect on the selection and the mode: apps are fetched for a device that is
\* selected, under Frida; for none the list is left as it is.
Effect(d, m) ==
    IF d # "" /\ m = "frida" /\ (d # selected \/ m # modal)
      THEN Fetch(d, FALSE) ELSE UNCHANGED <<fetchCount, fetches, loading, mixed>>

\* The dialog is mounted with a state of its own, and scans at once.
OpenModal(m) ==
    /\ modal = "closed" /\ Pick
    /\ modal' = m /\ instance' = instance + 1
    /\ scan' = [NoScan EXCEPT !.from = ""]
    /\ listed' = {} /\ selected' = "" /\ apps' = "" /\ fetches' = {}
    /\ loading' = FALSE /\ injecting' = FALSE /\ mixed' = FALSE
    /\ UNCHANGED <<plugged, fetchCount, inject, sent, phoneVars, changes>>

\* The cross, Escape, or onClose of a launch, also one of an earlier dialog: what is
\* under way for this one is lost on it.
Unmounted ==
    /\ modal' = "closed"
    /\ scan' = NoScan
    /\ listed' = {} /\ selected' = "" /\ apps' = "" /\ fetches' = {}
    /\ loading' = FALSE /\ injecting' = FALSE /\ mixed' = FALSE

CloseModal ==
    /\ modal # "closed"
    /\ Unmounted
    /\ UNCHANGED <<plugged, instance, fetchCount, inject, sent, phoneVars, changes, picks>>

\* "Scan Devices", which is disabled while it scans or injects.
ScanClick ==
    /\ modal # "closed" /\ scan = NoScan /\ ~ injecting /\ Pick
    /\ scan' = [NoScan EXCEPT !.from = selected]
    /\ UNCHANGED <<plugged, instance, modal, listed, selected, fetches, fetchCount, apps, loading,
                   injecting, inject, sent, mixed, phoneVars, changes>>

\* listADBDevices is answered, or fails and changes nothing.
ScanRead ==
    /\ scan # NoScan /\ ~ scan.done
    /\ \/ scan' = [scan EXCEPT !.devs = plugged, !.done = TRUE]
       \/ scan' = NoScan
    /\ UNCHANGED <<plugged, instance, modal, listed, selected, fetches, fetchCount, apps, loading,
                   injecting, inject, sent, mixed, picks, phoneVars, changes>>

\* The first device is selected unless the one selected when the scan was asked for
\* is among them.
ScanEnds ==
    /\ scan.done
    /\ scan' = NoScan
    /\ listed' = scan.devs
    /\ \E d \in scan.devs \cup {""} :
          /\ selected' = IF scan.devs = {} THEN ""
                         ELSE IF scan.from \in scan.devs THEN selected ELSE d
          /\ d = "" <=> scan.devs = {} \/ scan.from \in scan.devs
    /\ Effect(selected', modal)
    /\ UNCHANGED <<plugged, instance, modal, apps, injecting, inject, sent, picks, phoneVars, changes>>

SelectDevice(d) ==
    /\ modal # "closed" /\ d \in listed /\ d # selected /\ Pick
    /\ selected' = d
    /\ Cardinality(fetches) < MaxFetches
    /\ Effect(d, modal)
    /\ UNCHANGED <<plugged, instance, modal, listed, scan, apps, injecting, inject, sent, phoneVars, changes>>

SetMode(m) ==
    /\ modal \notin {"closed", m} /\ Pick
    /\ modal' = m
    /\ Cardinality(fetches) < MaxFetches
    /\ Effect(selected, m)
    /\ UNCHANGED <<plugged, instance, listed, selected, scan, apps, injecting, inject, sent, phoneVars, changes>>

\* The two calls of fetchApps are answered, an error as no apps; the list is shown
\* whatever is selected by now, and whatever else is being fetched.
FetchEnds(f) ==
    /\ f \in fetches
    /\ fetches' = fetches \ {f}
    /\ apps' = f.dev /\ loading' = FALSE
    /\ UNCHANGED <<plugged, instance, modal, listed, selected, scan, fetchCount, injecting, inject, sent,
                   mixed, picks, phoneVars, changes>>

Launching(what, of) ==
    /\ injecting' = TRUE
    /\ sent' = sent \cup {[n |-> picks', by |-> instance, what |-> what,
                           dev |-> selected, of |-> of]}
    /\ inject' = inject \cup (sent' \ sent)

\* Mutant: the apps of before can be clicked while others are loaded.
SpawnAnyApp ==
    /\ modal = "frida" /\ ~ injecting /\ apps # "" /\ Pick
    /\ Launching("launch", apps)
    /\ UNCHANGED <<plugged, instance, modal, listed, selected, scan, fetches, fetchCount, apps, loading,
                   mixed, phoneVars, changes>>

\* handleSpawnApp and handleAttachApp of an app in the list, which is not shown while
\* it loads.  The device is the one selected at the click.
SpawnApp ==
    /\ modal = "frida" /\ ~ injecting /\ ~ loading /\ apps # "" /\ Pick
    /\ Launching("launch", apps)
    /\ UNCHANGED <<plugged, instance, modal, listed, selected, scan, fetches, fetchCount, apps, loading,
                   mixed, phoneVars, changes>>

\* "Connect & Intercept Device via ADB".
StartAdbClick ==
    /\ modal = "adb" /\ selected # "" /\ ~ injecting /\ Pick
    /\ Launching("launch", selected)
    /\ UNCHANGED <<plugged, instance, modal, listed, selected, scan, fetches, fetchCount, apps, loading,
                   mixed, phoneVars, changes>>

\* handleDeployFridaServer.
DeployFrida ==
    /\ modal = "frida" /\ selected # "" /\ ~ injecting /\ Pick
    /\ Launching("deploy", selected)
    /\ UNCHANGED <<plugged, instance, modal, listed, selected, scan, fetches, fetchCount, apps,
                   loading, mixed, phoneVars, changes>>

Shows(l) == modal # "closed" /\ l.by = instance

\* It is done, and the apps are fetched anew.
DeployEnds(l) ==
    /\ l \in inject /\ l.what = "deploy"
    /\ inject' = inject \ {l}
    /\ IF Shows(l) THEN injecting' = FALSE /\ Fetch(l.dev, l.dev # selected)
                   ELSE UNCHANGED <<injecting, fetchCount, fetches, loading, mixed>>
    /\ UNCHANGED <<plugged, instance, modal, listed, selected, scan, apps, sent, phoneVars,
                   changes, picks>>

\* The launch succeeds, and closes whatever dialog is open now.
InjectEnds(l) ==
    /\ l \in inject /\ l.what = "launch"
    /\ inject' = inject \ {l}
    /\ Unmounted
    /\ UNCHANGED <<plugged, instance, fetchCount, sent, phoneVars, changes, picks>>

\* Mutant: the buttons are enabled again only after success.
InjectFailsBusy(l) ==
    /\ l \in inject
    /\ inject' = inject \ {l}
    /\ UNCHANGED <<plugged, instance, modal, listed, selected, scan, fetches, fetchCount, apps,
                   loading, injecting, sent, mixed, phoneVars, changes, picks>>

\* A launch or deployment fails, and its dialog says so.
InjectFails(l) ==
    /\ l \in inject
    /\ inject' = inject \ {l}
    /\ injecting' = (injecting /\ ~ Shows(l))
    /\ UNCHANGED <<plugged, instance, modal, listed, selected, scan, fetches, fetchCount, apps,
                   loading, sent, mixed, phoneVars, changes, picks>>

-----------------------------------------------------------------------------
(* The companions                                                          *)

\* One connects or goes: the hub tells the window.
PhoneChanges(p) ==
    /\ changes < MaxPlugs
    /\ changes' = changes + 1
    /\ hub' = IF p \in hub THEN hub \ {p} ELSE hub \cup {p}
    /\ phoneEvents' = phoneEvents \cup {hub'}
    /\ UNCHANGED <<androidVars, phonesShown, phonePoll, disconnects>>

\* mobile:devices_changed
PhonesTold(l) ==
    /\ l \in phoneEvents
    /\ phonesShown' = l
    /\ phoneEvents' = phoneEvents \ {l}
    /\ UNCHANGED <<androidVars, hub, phonePoll, disconnects, changes>>

\* fetchMobileDevices, every five seconds: read now, shown later.
PhonesRead ==
    /\ phonePoll = NoList
    /\ phonePoll' = List(hub)
    /\ UNCHANGED <<androidVars, hub, phonesShown, phoneEvents, disconnects, changes>>

\* Mutant: an answer is shown only while there is no device.
PhonesPolledOnce ==
    /\ phonePoll # NoList
    /\ phonesShown' = IF phonesShown = {} THEN phonePoll.list ELSE phonesShown
    /\ phonePoll' = NoList
    /\ UNCHANGED <<androidVars, hub, phoneEvents, disconnects, changes>>

PhonesPolled ==
    /\ phonePoll # NoList
    /\ phonesShown' = phonePoll.list
    /\ phonePoll' = NoList
    /\ UNCHANGED <<androidVars, hub, phoneEvents, disconnects, changes>>

\* handleDisconnectMobile: the call, and then the list as it was rendered, without it.
DisconnectClick(p) ==
    /\ p \in phonesShown
    /\ \A c \in disconnects : c.dev # p
    /\ disconnects' = disconnects \cup {[dev |-> p, list |-> phonesShown, done |-> FALSE]}
    /\ UNCHANGED <<androidVars, hub, phonesShown, phoneEvents, phonePoll, changes>>

Disconnected(c) ==
    /\ c \in disconnects /\ ~ c.done
    /\ disconnects' = (disconnects \ {c}) \cup {[c EXCEPT !.done = TRUE]}
    /\ hub' = hub \ {c.dev}
    /\ phoneEvents' = phoneEvents \cup {hub'}
    /\ UNCHANGED <<androidVars, phonesShown, phonePoll, changes>>

DisconnectEnds(c) ==
    /\ c \in disconnects /\ c.done
    /\ disconnects' = disconnects \ {c}
    /\ phonesShown' = c.list \ {c.dev}
    /\ UNCHANGED <<androidVars, hub, phoneEvents, phonePoll, changes>>

-----------------------------------------------------------------------------
ScanSteps   == ScanRead \/ ScanEnds
FetchSteps  == \E f \in fetches : FetchEnds(f)
InjectSteps == \E l \in inject : InjectEnds(l) \/ DeployEnds(l) \/ InjectFails(l)
AndroidSteps ==
    \/ \E d \in Serials : PlugOrUnplug(d) \/ SelectDevice(d)
    \/ \E m \in {"frida", "adb"} : OpenModal(m) \/ SetMode(m)
    \/ CloseModal \/ ScanClick \/ ScanSteps \/ FetchSteps \/ InjectSteps
    \/ SpawnApp \/ StartAdbClick \/ DeployFrida
PhoneSteps ==
    \/ \E p \in Phones : PhoneChanges(p) \/ DisconnectClick(p)
    \/ \E c \in disconnects : Disconnected(c) \/ DisconnectEnds(c)
    \/ PhonesRead \/ PhonesPolled \/ \E l \in phoneEvents : PhonesTold(l)

DevicesNext == AndroidSteps \/ PhoneSteps
DevicesSpec == DevicesInit /\ [][DevicesNext]_deviceVars

-----------------------------------------------------------------------------
(* What the user may rely on                                               *)

\* An app that is clicked is injected into on the device whose list it was clicked in,
\* however the selection changed before or since: unless two lists were fetched at
\* a time, another device was selected during a deployment, or none is selected any more.
InjectsWhereClicked ==
    [][\A l \in sent' \ sent : l.dev = "" \/ l.of = l.dev \/ mixed]_deviceVars

\* The buttons of the dialog come back, whatever fails and is closed meanwhile, if adb
\* ends.
ButtonsComeBack ==
    answered /\ (injecting \/ loading \/ scan # NoScan)
        ~> ~ injecting /\ ~ loading /\ scan = NoScan

\* The companions shown come to be those connected, whatever lists are late or overtake
\* each other, if no broadcast keeps the hub locked.
PhonesComeTrue == answered /\ phonesShown # hub ~> phonesShown = hub
=============================================================================

------------------------------- MODULE MCPages -------------------------------
(***************************************************************************)
(* The parts of the window that keep data of their own, on small instances *)
(* for TLC: the traffic store and the list that shows it, the composer, the*)
(* toolbox, the history page, export and import, the decoded tabs of the  *)
(* inspector, the rule dialogs and the rule form, and the proxy panel.     *)
(*                                                                         *)
(* A behaviour looks at one scene: the variables of the others keep their  *)
(* initial values, so that one run covers every module without the product *)
(* of their states.                                                        *)
(***************************************************************************)
EXTENDS TrafficStore, TrafficView, Composer, Toolbox, HistoryDesk, Transfer, Inspector,
        RuleDialogs, RuleForm, ProxyPanel

VARIABLE scene

-----------------------------------------------------------------------------
(* Instances                                                               *)

NoExchanges  == {}
MCEarlier    == {1}
MCCaptured   == {2, 3}
MCStreams    == {2}
MCLimits     == {1}
MCBounds     == {[arrivals |-> 1, toggles |-> 2, files |-> {{1}}],
                 [arrivals |-> 1, toggles |-> 1, files |-> {{1}, {1, 2}}],
                 [arrivals |-> 2, toggles |-> 1, files |-> {{2}}],
                 [arrivals |-> 2, toggles |-> 0, files |-> {{2}, {1, 2}}]}

MCCaptures   == {[valid |-> TRUE, params |-> <<"encoded">>], [valid |-> FALSE, params |-> <<"plain">>]}
MCTexts      == {[valid |-> TRUE, params |-> <<"template">>]}

MCExchanges  == <<[domain |-> "a", method |-> "GET",  process |-> "p"],
                  [domain |-> "b", method |-> "POST", process |-> "q"]>>
MCFileSets   == {{1}}

MCPatterns   == {[i \in 0 .. 2 |-> IF i = 1 THEN {} ELSE {0}], [i \in 0 .. 2 |-> IF i = 2 THEN {} ELSE {1}]}
MCBunches    == {{"aes_tool"}, {"hash_tool"}, {"websocket_client"},
                 {"regexp", "json_viewer", "timestamp"}, {"curl_composer", "js_runner", "rsa_tool"},
                 {"cert_hash", "text_diff", "base64_encoder"}, {"text_editor"}}

MCShapes     == {[host |-> "a", own |-> TRUE, many |-> TRUE, commas |-> 0, status |-> 0,
                  body |-> "text", known |-> TRUE],
                 [host |-> "b", own |-> FALSE, many |-> FALSE, commas |-> 0, status |-> 404,
                  body |-> "binary", known |-> TRUE],
                 [host |-> "b", own |-> FALSE, many |-> FALSE, commas |-> 2, status |-> 200,
                  body |-> "text", known |-> TRUE]}

\* A gRPC call with both bodies, and a WebSocket that is one too and has no request body.
MCCalls      == <<[websocket |-> FALSE, grpc |-> TRUE, request |-> TRUE,  response |-> TRUE],
                  [websocket |-> TRUE,  grpc |-> TRUE, request |-> FALSE, response |-> TRUE]>>

MCRules      == {1, 2}
MCDefaults   == {NoRules, [r \in {1} |-> TRUE]}
MCDialogs    == {BreakpointDialog, RequestBlockDialog, ScriptDialog, WeakNetworkDialog,
                 ExternalProxyDialog, FilterDialog, QuickRuleDialog}

-----------------------------------------------------------------------------
(* One scene at a time                                                     *)

PagesInit ==
    /\ scene \in {"traffic", "view", "composer", "toolbox", "history", "transfer", "inspector",
                "rules", "form", "panel"}
    /\ TrafficInit   /\ (scene = "traffic" \/ (db = {} /\ bound = CHOOSE b \in Bounds : TRUE))
    /\ ViewInit      /\ (scene = "view" \/ collapseNew = CHOOSE b \in Collapses : TRUE)
    /\ ToolboxInit   /\ (scene = "toolbox" \/ wanted = CHOOSE b \in Bunches : TRUE)
    /\ RulesInit     /\ (scene = "rules" \/ (dialog = BreakpointDialog /\ inForce = dialog.initial))
    /\ PanelInit     /\ (scene = "panel" \/ (~ app.ca /\ auto = CHOOSE b \in AutoStartup : TRUE))
    /\ ComposerInit  /\ RuleFormInit /\ HistoryInit /\ TransferInit /\ InspectorInit

\* The scenes but for s stand still.
But(s) ==
    /\ UNCHANGED scene
    /\ IF s = "traffic"    THEN TRUE ELSE UNCHANGED trafficVars
    /\ IF s = "composer"   THEN TRUE ELSE UNCHANGED composerVars
    /\ IF s = "view"       THEN TRUE ELSE UNCHANGED viewVars
    /\ IF s = "toolbox"    THEN TRUE ELSE UNCHANGED toolboxVars
    /\ IF s = "form"       THEN TRUE ELSE UNCHANGED ruleFormVars
    /\ IF s = "history"    THEN TRUE ELSE UNCHANGED historyVars
    /\ IF s = "transfer"   THEN TRUE ELSE UNCHANGED transferVars
    /\ IF s = "inspector"  THEN TRUE ELSE UNCHANGED inspectorVars
    /\ IF s = "rules"      THEN TRUE ELSE UNCHANGED ruleVars
    /\ IF s = "panel"      THEN TRUE ELSE UNCHANGED panelVars

PagesNext ==
    \/ scene = "traffic"   /\ TrafficNext   /\ But("traffic")
    \/ scene = "composer"  /\ ComposerNext  /\ But("composer")
    \/ scene = "view"      /\ ViewNext      /\ But("view")
    \/ scene = "toolbox"   /\ ToolboxNext   /\ But("toolbox")
    \/ scene = "form"      /\ RuleFormNext  /\ But("form")
    \/ scene = "history"   /\ HistoryNext   /\ But("history")
    \/ scene = "transfer"  /\ TransferNext  /\ But("transfer")
    \/ scene = "inspector" /\ InspectorNext /\ But("inspector")
    \/ scene = "rules"     /\ RulesNext     /\ But("rules")
    \/ scene = "panel"     /\ PanelNext     /\ But("panel")

pagesVars == <<scene, trafficVars, composerVars, viewVars, toolboxVars, ruleFormVars, historyVars,
               transferVars, inspectorVars, ruleVars, panelVars>>

PagesSpec == PagesInit /\ [][PagesNext]_pagesVars

-----------------------------------------------------------------------------
(* The properties by theme; each part is stated in its own module.         *)

PagesTypeOK ==
    /\ TrafficTypeOK /\ ComposerTypeOK /\ ViewTypeOK /\ ToolboxTypeOK
    /\ HistoryTypeOK /\ TransferTypeOK /\ InspectorTypeOK
    /\ RulesTypeOK /\ RuleFormTypeOK /\ PanelTypeOK

\* The traffic list, in what it is made of, stored as and filtered by: the map holds what
\* the list shows, a heart is what the database keeps, the rows are those the filters let
\* through; a cut of the list takes its end, and an arrival folds nothing the user opened.
ListsAreTrue ==
    /\ [](MapCoversList /\ FavoritesAreStored /\ ListMatchesFilters)
    /\ CutsKeepNewest /\ OpenedStaysOpen

\* The composer sends what it shows, shows what it sent.
ComposerIsTrue == SendsWhatIsShown /\ ShowsOwnAnswers

\* The pages that keep a state of their own show what became of it: the tools of the
\* toolbox, the rule form, the session list, an exported file, a decoded body.
PagesAreTrue == ToolboxIsTrue /\ FormIsKept /\ HistoryIsTrue /\ TransferIsTrue /\ DecodedIsShown

\* The settings: a list of the store is the one in force, the panel tells that the proxy
\* runs, data is cleared and certificates made only when confirmed, and Cancel changes no
\* rule.
SettingsAreTrue ==
    /\ [](StoreMatchesApplication /\ PanelTellsRunning /\ ConfirmedFirst)
    /\ CancelChangesNothing
=============================================================================

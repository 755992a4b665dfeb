----------------------------- MODULE Inspector -----------------------------
(***************************************************************************)
(* The panel of the selected exchange: components/panel/                   *)
(* NetworkTabController.tsx with GrpcTab.tsx and WebSocketTab.tsx.         *)
(*                                                                         *)
(* The panel stays mounted while the selection moves, and so does the tab  *)
(* that is open, even for an exchange whose kind has no such tab.  What a  *)
(* tab keeps of one exchange meets the next one there: messages decoded by *)
(* the application after an await, and the text of a frame to be sent.     *)
(*                                                                         *)
(* Tabs that only draw the exchange keep nothing and are left out.         *)
(***************************************************************************)
EXTENDS Naturals, FiniteSets

CONSTANTS
    Calls,         \* exchanges, as [websocket, grpc, request, response]: the kinds,
                   \* and whether the bodies are not empty
    MaxEffects,    \* runs of the decoding effect (bound)
    MaxLinesSent,  \* frames sent (bound)
    MaxLines       \* texts typed (bound)

ASSUME InspectorAssumption ==
    /\ \A c \in DOMAIN Calls : c \in Nat \ {0}
          /\ Calls[c] \in [websocket : BOOLEAN, grpc : BOOLEAN, request : BOOLEAN, response : BOOLEAN]
    /\ {MaxEffects, MaxLinesSent, MaxLines} \subseteq Nat

CallIds   == DOMAIN Calls
Sides == {"request", "response"}
Tabs  == {"general", "grpc", "websocket"}

VARIABLES
    responded,      \* the exchanges that were answered
    panelRequest,   \* the request given to the panel, 0 for null
    activeTab,
    grpcLoading,
    messages,       \* of each side, what is drawn: the exchange it was decoded from
    decodings,      \* decoding runs that still await
    effects,
    spoiled,        \* sides the last run did not decode: empty, or an error (history)
    messageInput,   \* the number of the text typed, 0 if empty
    lines, linesSent, \* texts typed; frames under way, and whether their tab is still there
    sendCount

grpcVars      == <<grpcLoading, messages, decodings, effects, spoiled>>
frameVars     == <<messageInput, lines, linesSent, sendCount>>
inspectorVars == <<responded, panelRequest, activeTab, grpcVars, frameVars>>

NoMessages == [s \in Sides |-> 0]

InspectorTypeOK ==
    /\ responded \subseteq CallIds /\ panelRequest \in {0} \cup CallIds
    /\ activeTab \in Tabs /\ grpcLoading \in BOOLEAN
    /\ messages \in [Sides -> {0} \cup CallIds]
    /\ decodings \subseteq [nth : 1 .. MaxEffects, of : CallIds, bodies : SUBSET Sides, side : Sides,
                       isMounted : BOOLEAN]
    /\ effects \in 0 .. MaxEffects /\ spoiled \subseteq Sides
    /\ messageInput \in 0 .. MaxLines /\ lines \in 0 .. MaxLines
    /\ linesSent \subseteq [nth : 1 .. MaxLinesSent, isMounted : BOOLEAN]
    /\ sendCount \in 0 .. MaxLinesSent

InspectorInit ==
    /\ responded = {} /\ panelRequest = 0 /\ activeTab = "general"
    /\ grpcLoading = TRUE /\ messages = NoMessages /\ decodings = {} /\ effects = 0 /\ spoiled = {}
    /\ messageInput = 0 /\ lines = 0 /\ linesSent = {} /\ sendCount = 0

-----------------------------------------------------------------------------
(* What is mounted                                                         *)

GrpcMounted(c, tab)  == c # 0 /\ tab = "grpc"
FrameMounted(c, tab) == c # 0 /\ tab = "websocket"

\* The bodies to decode of the exchange as it is given.
Bodies(c, answered) ==
    {s \in Sides : Calls[c][s] /\ (s = "response" => c \in answered)}

Dropped == {[r EXCEPT !.isMounted = FALSE] : r \in decodings}

\* The effect on the request, whose cleanup stops the run before.  The request's
\* body is decoded first; an empty one is passed over and leaves its messages.
DecodeEffect(c, answered) ==
    LET B    == Bodies(c, answered)
        next == IF "request" \in B THEN "request" ELSE "response"
    IN  /\ effects < MaxEffects
        /\ effects' = effects + 1
        /\ grpcLoading' = (B # {})
        /\ decodings' = Dropped \cup
              (IF B = {} THEN {} ELSE {[nth |-> effects', of |-> c, bodies |-> B, side |-> next,
                                        isMounted |-> TRUE]})
        /\ spoiled' = Sides \ B

\* The panel as it is drawn next: c is the request, tab the tab.  A gRPC tab that
\* is mounted anew has nothing yet, one that stays mounted runs its effect if the
\* request is another object; an unmounted one stops its run.
Redraw(c, tab, anew, answered) ==
    /\ panelRequest' = c /\ activeTab' = tab
    /\ IF ~ GrpcMounted(c, tab)
         THEN /\ grpcLoading' = TRUE /\ messages' = NoMessages /\ decodings' = Dropped /\ spoiled' = {}
              /\ UNCHANGED effects
         ELSE IF ~ GrpcMounted(panelRequest, activeTab)
                THEN DecodeEffect(c, answered) /\ messages' = NoMessages
                ELSE IF anew THEN DecodeEffect(c, answered) /\ UNCHANGED messages
                             ELSE UNCHANGED grpcVars
    /\ IF FrameMounted(c, tab) /\ FrameMounted(panelRequest, activeTab)
         THEN UNCHANGED <<messageInput, linesSent>>
         ELSE messageInput' = 0 /\ linesSent' = {[s EXCEPT !.isMounted = FALSE] : s \in linesSent}
    /\ UNCHANGED <<lines, sendCount>>

-----------------------------------------------------------------------------
(* The panel                                                               *)

\* Another row is selected, or none: the tab stays.
Select(c) ==
    /\ c \in {0} \cup CallIds /\ c # panelRequest
    /\ Redraw(c, activeTab, TRUE, responded)
    /\ UNCHANGED responded

\* The tabs there are for the kind of the exchange.
TabsOf(c) == {"general"} \cup (IF Calls[c].grpc THEN {"grpc"} ELSE {})
                         \cup (IF Calls[c].websocket THEN {"websocket"} ELSE {})

ClickTab(tab) ==
    /\ panelRequest # 0 /\ tab \in TabsOf(panelRequest) /\ tab # activeTab
    /\ Redraw(panelRequest, tab, FALSE, responded)
    /\ UNCHANGED responded

\* updateResponse makes another object of the request, and the panel is given it.
PanelResponds(c) ==
    /\ c \in CallIds \ responded
    /\ responded' = responded \cup {c}
    /\ Redraw(panelRequest, activeTab, c = panelRequest, responded')

-----------------------------------------------------------------------------
(* gRPC                                                                    *)

\* Mutant: a run does not look whether it is still mounted.
DecodedAnyway(r) ==
    LET more == r.side = "request" /\ "response" \in r.bodies IN
    /\ r \in decodings
    /\ messages' = [messages EXCEPT ![r.side] = r.of]
    /\ decodings' = (decodings \ {r}) \cup (IF more THEN {[r EXCEPT !.side = "response"]} ELSE {})
    /\ grpcLoading' = (more /\ grpcLoading)
    /\ UNCHANGED <<responded, panelRequest, activeTab, effects, spoiled, frameVars>>

\* The application has decoded a body; after the response's the run is over.
SideDecoded(r) ==
    LET more == r.side = "request" /\ "response" \in r.bodies IN
    /\ r \in decodings
    /\ messages' = IF r.isMounted THEN [messages EXCEPT ![r.side] = r.of] ELSE messages
    /\ decodings' = (decodings \ {r}) \cup (IF more THEN {[r EXCEPT !.side = "response"]} ELSE {})
    /\ grpcLoading' = IF r.isMounted THEN more ELSE grpcLoading
    /\ UNCHANGED <<responded, panelRequest, activeTab, effects, spoiled, frameVars>>

\* An error ends the run, and leaves what it has not decoded as it was.
DecodeFails(r) ==
    /\ r \in decodings
    /\ decodings' = decodings \ {r}
    /\ grpcLoading' = (grpcLoading /\ ~ r.isMounted)
    /\ spoiled' = IF r.isMounted THEN spoiled \cup {r.side, "response"} ELSE spoiled
    /\ UNCHANGED <<responded, panelRequest, activeTab, messages, effects, frameVars>>

-----------------------------------------------------------------------------
(* WebSocket                                                               *)

TypeLine ==
    /\ FrameMounted(panelRequest, activeTab) /\ lines < MaxLines
    /\ lines' = lines + 1 /\ messageInput' = lines'
    /\ UNCHANGED <<responded, panelRequest, activeTab, grpcVars, linesSent, sendCount>>

\* handleSendFrame, to the exchange shown; the button is never disabled.
SendLine ==
    /\ FrameMounted(panelRequest, activeTab) /\ messageInput # 0 /\ sendCount < MaxLinesSent
    /\ sendCount' = sendCount + 1
    /\ linesSent' = linesSent \cup {[nth |-> sendCount', isMounted |-> TRUE]}
    /\ UNCHANGED <<responded, panelRequest, activeTab, grpcVars, messageInput, lines>>

\* The field is cleared, whatever was typed since.
LineSent(s) ==
    /\ s \in linesSent
    /\ linesSent' = linesSent \ {s}
    /\ messageInput' = IF s.isMounted THEN 0 ELSE messageInput
    /\ UNCHANGED <<responded, panelRequest, activeTab, grpcVars, lines, sendCount>>

LineFails(s) ==
    /\ s \in linesSent
    /\ linesSent' = linesSent \ {s}
    /\ UNCHANGED <<responded, panelRequest, activeTab, grpcVars, messageInput, lines, sendCount>>

-----------------------------------------------------------------------------
InspectorNext ==
    \/ \E c \in {0} \cup CallIds : Select(c)
    \/ \E tab \in Tabs : ClickTab(tab)
    \/ \E c \in CallIds : PanelResponds(c)
    \/ \E r \in decodings : SideDecoded(r) \/ DecodeFails(r)
    \/ TypeLine \/ SendLine
    \/ \E s \in linesSent : LineSent(s) \/ LineFails(s)

InspectorSpec == InspectorInit /\ [][InspectorNext]_inspectorVars

-----------------------------------------------------------------------------
(* What the user may rely on                                               *)

\* When the gRPC tab is not loading, the messages of a side are those of the
\* exchange that is shown, however fast the selection moved: but for a side that
\* was empty or not decodable, which keeps the messages of an exchange before.
DecodedIsShown ==
    GrpcMounted(panelRequest, activeTab) /\ ~ grpcLoading =>
        \A s \in Sides \ spoiled : messages[s] = panelRequest
=============================================================================

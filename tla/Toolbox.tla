------------------------------ MODULE Toolbox ------------------------------
(***************************************************************************)
(* components/toolbox/Toolbox.tsx: seventeen tools in one component.       *)
(*                                                                         *)
(* All inputs and outputs live in that one component, so opening another   *)
(* tool keeps them and leaving the page loses them.  Some results are      *)
(* drawn anew with every change of their input; some are made by a button, *)
(* at once or after an await, and stay until the button is clicked again.  *)
(* The WebSocket client outlives the page: nobody closes its sockets.      *)
(*                                                                         *)
(* A text is the number of the edit that made it and whether it is odd:    *)
(* one that the tool's own parser or encoder refuses.  What the tools      *)
(* compute, search and layout of the grid are left out.                    *)
(***************************************************************************)
EXTENDS Naturals, FiniteSets

CONSTANTS
    Bunches,     \* sets of tools, one of which a behaviour opens (bound)
    Patterns,    \* regular expressions, as what they match at each position
    MaxTyped,    \* edits of the inputs (bound)
    MaxDigests,  \* clicks on buttons that await (bound)
    MaxSockets,  \* sockets (bound)
    MaxListed    \* frames listed (bound)

-----------------------------------------------------------------------------
(* The tools: the inputs that are typed, the one whose drawing throws when *)
(* it is odd, and the results that a button makes                          *)

Tool(fields, made)  == [fields |-> fields, made |-> made, brittle |-> {}]
Brittle(tool, f)    == [tool EXCEPT !.brittle = {f}]

CurlTool      == Tool({"curlInput"}, {"parsedCurl"})
JsonTool      == Tool({"jsonInput"}, {"jsonPathResult"})
DiffTool      == Tool({"diffTextA", "diffTextB"}, {})
EditorTool    == Tool({"editorText"}, {})
XmlTool       == Tool({"xmlInput"}, {})
\* Action, mode, key, IV and input are one text: the call takes them all at once.
AesTool       == Tool({"aesInput"}, {"aesOutput"})
\* btoa takes no character beyond Latin-1, and is called while drawing.
RsaTool       == Brittle(Tool({"rsaData"}, {"rsaKeys"}), "rsaData")
QrTool        == Tool({"qrText"}, {})
TimestampTool == Tool({"timestampInput"}, {"timeResult"})
UrlEncoder     == Tool({"urlInput"}, {})
Base64Encoder  == Brittle(Tool({"base64Input"}, {}), "base64Input")
UnicodeEncoder == Tool({"unicodeInput"}, {})
HashTool      == Tool({"hashInput"}, {"hashSha256", "hashSha1"})
CertTool      == Tool({"certSubject"}, {"certHashResult"})
RegexTool     == Tool({"regexText"}, {"regexMatches"})
SocketTool    == Tool({"wsUrl"}, {})
ScriptTool    == Tool({"jsCode"}, {"jsOutput"})

Tools == [curl_composer |-> CurlTool, json_viewer |-> JsonTool, text_diff |-> DiffTool,
          text_editor |-> EditorTool, xml_viewer |-> XmlTool, aes_tool |-> AesTool,
          rsa_tool |-> RsaTool, hash_tool |-> HashTool, cert_hash |-> CertTool,
          qr_code |-> QrTool, timestamp |-> TimestampTool, url_encoder |-> UrlEncoder,
          base64_encoder |-> Base64Encoder, unicode_encoder |-> UnicodeEncoder,
          regexp |-> RegexTool, websocket_client |-> SocketTool, js_runner |-> ScriptTool]

ASSUME ToolboxAssumption ==
    /\ \A b \in Bunches : b \subseteq DOMAIN Tools
    /\ \A re \in Patterns : IsFiniteSet(DOMAIN re) /\ \A i \in DOMAIN re : i \in Nat /\ re[i] \subseteq Nat
    /\ {MaxTyped, MaxDigests, MaxSockets, MaxListed} \subseteq Nat

Used    == UNION Bunches
Fields  == UNION {Tools[t].fields : t \in Used}
Results == UNION {Tools[t].made : t \in Used}
Hashes  == {"hashSha256", "hashSha1"}

VARIABLES
    place,      \* the tool that is open, "grid", "away" on another page, or
                \* "crashed" into the window's error boundary
    text,       \* the inputs
    result,     \* the results a button made
    digests,    \* calls under way, of the AES and the hash tool
    aesLoading,
    sockets,    \* every socket made so far, by number
    mine,       \* those whose handlers still find the component
    wsInstanceRef, wsConnected,
    wsListed,   \* frames in wsMessages
    passed,     \* frames that went over a socket (history)
    wanted,     \* the tools this behaviour opens
    askedFor,   \* the text each awaited result was last asked for (history)
    overtaken   \* an answer may be overtaken: hashes were asked for while some were
                \* under way, a socket was made while another lived (history)

toolVars  == <<place, text, result, digests, aesLoading, askedFor>>
wsVars    == <<sockets, mine, wsInstanceRef, wsConnected, wsListed, passed>>
toolboxVars == <<toolVars, wsVars, overtaken, wanted>>

NoText   == [nth |-> 0, odd |-> FALSE]
NoValue == [of |-> 0, kind |-> "none"]
SocketStates == {"connecting", "open", "closing", "closed"}

ToolboxTypeOK ==
    /\ place \in Used \cup {"grid", "away", "crashed"}
    /\ text \in [Fields -> [nth : 0 .. MaxTyped, odd : BOOLEAN]]
    /\ result \in [Results -> [of : 0 .. MaxTyped, kind : {"none", "value", "error", "hangs"}]]
    /\ digests \subseteq [id : 1 .. MaxDigests, makes : Results, of : 0 .. MaxTyped]
    /\ aesLoading \in BOOLEAN
    /\ DOMAIN sockets \subseteq 1 .. MaxSockets
    /\ \A s \in DOMAIN sockets : sockets[s] \in SocketStates
    /\ mine \subseteq DOMAIN sockets
    /\ wsInstanceRef \in {0} \cup mine
    /\ wsConnected \in BOOLEAN
    /\ wsListed \in 0 .. MaxListed /\ passed \in 0 .. MaxListed
    /\ askedFor \in [Results -> 0 .. MaxTyped]
    /\ overtaken \subseteq {"hash", "socket"}
    /\ wanted \in Bunches

ToolsFresh ==
    /\ text   = [f \in Fields |-> NoText]
    /\ result = [r \in Results |-> NoValue]
    /\ digests = {} /\ aesLoading = FALSE
    /\ askedFor  = [r \in Results |-> 0]

ToolboxInit ==
    /\ place = "grid" /\ ToolsFresh
    /\ sockets = [s \in {} |-> "closed"] /\ mine = {}
    /\ wsInstanceRef = 0 /\ wsConnected = FALSE
    /\ wsListed = 0 /\ passed = 0
    /\ overtaken = {}
    /\ wanted \in Bunches

Typed == Cardinality({n \in 1 .. MaxTyped : \E f \in Fields : text[f].nth >= n})
Taken == {d.id : d \in digests}

-----------------------------------------------------------------------------
(* The page                                                                *)

\* A card of the grid.
OpenTool(t) ==
    /\ place = "grid" /\ t \in wanted
    /\ place' = t
    /\ UNCHANGED <<text, result, digests, aesLoading, askedFor, wsVars, overtaken>>

\* The arrow and the cross of a tool's head.
CloseTool ==
    /\ place \in Used
    /\ place' = "grid"
    /\ UNCHANGED <<text, result, digests, aesLoading, askedFor, wsVars, overtaken>>

\* Another page is shown: the state is gone, the sockets are not.
LeaveToolbox ==
    /\ place \in Used \cup {"grid"}
    /\ place' = "away"
    /\ text'   = [f \in Fields |-> NoText]
    /\ result' = [r \in Results |-> NoValue]
    /\ digests' = {} /\ aesLoading' = FALSE
    /\ askedFor'  = [r \in Results |-> 0]
    /\ mine' = {} /\ wsInstanceRef' = 0 /\ wsConnected' = FALSE
    /\ wsListed' = 0 /\ passed' = 0
    /\ UNCHANGED <<sockets, overtaken>>

EnterToolbox ==
    /\ place = "away"
    /\ place' = "grid"
    /\ UNCHANGED <<text, result, digests, aesLoading, askedFor, wsVars, overtaken>>

\* A text is typed.  One that cannot be drawn takes the whole window with it; a
\* timestamp is converted at once, and one that is no number leaves the last result.
Type(f, odd) ==
    LET now == [nth |-> Typed + 1, odd |-> odd] IN
    /\ place \in Used /\ f \in Tools[place].fields /\ Typed < MaxTyped
    /\ text' = [text EXCEPT ![f] = now]
    /\ place' = IF odd /\ f \in Tools[place].brittle THEN "crashed" ELSE place
    /\ result' = IF f = "timestampInput" /\ ~ odd
                   THEN [result EXCEPT !["timeResult"] = [of |-> now.nth, kind |-> "value"]]
                   ELSE result
    /\ UNCHANGED <<digests, aesLoading, askedFor, wsVars, overtaken>>

\* "Swap Sides" of the diff.
SwapSides ==
    /\ place = "text_diff"
    /\ text' = [text EXCEPT !["diffTextA"] = text["diffTextB"], !["diffTextB"] = text["diffTextA"]]
    /\ UNCHANGED <<place, result, digests, aesLoading, askedFor, wsVars, overtaken>>

\* "Clear" of the text editor.
ClearEditor ==
    /\ place = "text_editor"
    /\ text' = [text EXCEPT !["editorText"] = NoText]
    /\ UNCHANGED <<place, result, digests, aesLoading, askedFor, wsVars, overtaken>>

-----------------------------------------------------------------------------
(* Results made at once                                                    *)

Make(r, f, kind) ==
    /\ result' = [result EXCEPT ![r] = [of |-> text[f].nth, kind |-> kind]]
    /\ UNCHANGED <<place, text, digests, aesLoading, askedFor, wsVars, overtaken>>

\* handleParseCurl: a command that does not parse leaves the last one shown.
ParseCurl ==
    /\ place = "curl_composer" /\ ~ text["curlInput"].odd
    /\ Make("parsedCurl", "curlInput", "value")

\* handleEvaluateJsonPath: the error is the result; an empty path clears it.
EvaluateJsonPath ==
    /\ place = "json_viewer"
    /\ \/ Make("jsonPathResult", "jsonInput", IF text["jsonInput"].odd THEN "error" ELSE "value")
       \/ Make("jsonPathResult", "jsonInput", "none")

\* handleRunJs
RunJs ==
    /\ place = "js_runner"
    /\ Make("jsOutput", "jsCode", IF text["jsCode"].odd THEN "error" ELSE "value")

\* The keys are made of the time of day.
GenerateKeypair ==
    /\ place = "rsa_tool"
    /\ Make("rsaKeys", "rsaData", "value")

\* handleComputeCertHash: the window reads a field that the application does not
\* send, so any certificate has the same hash; a refused one keeps the last.
ComputeCertHash ==
    /\ place = "cert_hash" /\ ~ text["certSubject"].odd
    /\ Make("certHashResult", "certSubject", "value")

\* The lengths of the matches of a global expression, found by exec from
\* lastIndex on.  A position has at most one match.
HitsFrom(re, at) == {i \in DOMAIN re : i >= at /\ re[i] # {}}
Least(S)       == CHOOSE i \in S : \A j \in S : i <= j
\* Mutant: an empty match is found again and again.
NextIndexStays(i, length) == i + length
NextIndex(i, length) == IF length = 0 THEN i + 1 ELSE i + length
\* The rounds of the loop, at most `fuel`.
Rounds(re, fuel) ==
    LET index[n \in 0 .. fuel] ==
            IF n = 0 THEN 0
            ELSE LET hits == HitsFrom(re, index[n - 1])
                 IN  IF hits = {} THEN index[n - 1]
                     ELSE NextIndex(Least(hits), CHOOSE l \in re[Least(hits)] : TRUE)
    IN  {n \in 0 .. fuel : HitsFrom(re, index[n]) = {}}

\* handleRunRegex: the loop runs to its end before anything else does.
RunRegex(re) ==
    /\ place = "regexp" /\ ~ text["regexText"].odd
    /\ Make("regexMatches", "regexText",
            IF Rounds(re, Cardinality(DOMAIN re)) = {} THEN "hangs" ELSE "value")

-----------------------------------------------------------------------------
(* Results that are awaited                                                *)

Await(field, rs) ==
    LET id == Least((1 .. MaxDigests) \ Taken) IN
    /\ Taken # 1 .. MaxDigests
    /\ digests' = digests \cup {[id |-> id, makes |-> r, of |-> text[field].nth] : r \in rs}
    /\ askedFor' = [r \in Results |-> IF r \in rs THEN text[field].nth ELSE askedFor[r]]
    /\ UNCHANGED <<place, text, result, wsVars>>

\* Mutant: the button is not disabled while a run is under way.
RunAesAgain ==
    /\ place = "aes_tool"
    /\ aesLoading' = TRUE
    /\ Await("aesInput", {"aesOutput"})
    /\ UNCHANGED overtaken

\* handleRunAes
RunAes ==
    /\ place = "aes_tool" /\ ~ aesLoading
    /\ aesLoading' = TRUE
    /\ Await("aesInput", {"aesOutput"})
    /\ UNCHANGED overtaken

\* The application's answer, or its refusal; either way the button comes back.
AesAnswered(d, kind) ==
    /\ d \in digests /\ d.makes = "aesOutput"
    /\ digests' = digests \ {d}
    /\ result' = [result EXCEPT !["aesOutput"] = [of |-> d.of, kind |-> kind]]
    /\ aesLoading' = FALSE
    /\ UNCHANGED <<place, text, askedFor, wsVars, overtaken>>

\* handleComputeHashes, whose button is never disabled
ComputeHashes ==
    /\ place = "hash_tool"
    /\ overtaken' = IF \E d \in digests : d.makes \in Hashes THEN overtaken \cup {"hash"} ELSE overtaken
    /\ Await("hashInput", Hashes)
    /\ UNCHANGED aesLoading

\* A digest is ready: of each run SHA-256 first, then SHA-1.
DigestReady(d) ==
    /\ d \in digests /\ d.makes \in Hashes
    /\ d.makes = "hashSha1" => ~ \E e \in digests : e.id = d.id /\ e.makes = "hashSha256"
    /\ digests' = digests \ {d}
    /\ result' = [result EXCEPT ![d.makes] = [of |-> d.of, kind |-> "value"]]
    /\ UNCHANGED <<place, text, aesLoading, askedFor, wsVars, overtaken>>

-----------------------------------------------------------------------------
(* The WebSocket client                                                    *)

Living == {s \in DOMAIN sockets : sockets[s] # "closed"}

\* handleToggleWs while not connected, which it also is while connecting.  An odd
\* address makes the constructor throw.
Connect ==
    LET s == Cardinality(DOMAIN sockets) + 1 IN
    /\ place = "websocket_client" /\ ~ wsConnected
    /\ ~ text["wsUrl"].odd /\ s <= MaxSockets
    /\ sockets' = [k \in DOMAIN sockets \cup {s} |-> IF k = s THEN "connecting" ELSE sockets[k]]
    /\ mine' = mine \cup {s} /\ wsInstanceRef' = s
    /\ overtaken' = IF Living # {} THEN overtaken \cup {"socket"} ELSE overtaken
    /\ UNCHANGED <<toolVars, wsConnected, wsListed, passed>>

\* handleToggleWs while connected
Disconnect ==
    /\ place = "websocket_client" /\ wsConnected
    /\ sockets' = [sockets EXCEPT ![wsInstanceRef] = IF @ = "closed" THEN @ ELSE "closing"]
    /\ wsConnected' = FALSE
    /\ UNCHANGED <<toolVars, mine, wsInstanceRef, wsListed, passed, overtaken>>

WsOpens(s) ==
    /\ s \in DOMAIN sockets /\ sockets[s] = "connecting"
    /\ sockets' = [sockets EXCEPT ![s] = "open"]
    /\ wsConnected' = (wsConnected \/ s \in mine)
    /\ UNCHANGED <<toolVars, mine, wsInstanceRef, wsListed, passed, overtaken>>

\* The server's close has arrived, and no event tells of it yet.
ServerCloses(s) ==
    /\ s \in DOMAIN sockets /\ sockets[s] = "open"
    /\ sockets' = [sockets EXCEPT ![s] = "closing"]
    /\ UNCHANGED <<toolVars, mine, wsInstanceRef, wsConnected, wsListed, passed, overtaken>>

\* Mutant: only a clean close is handled.
SocketDiesCleanly(s) ==
    /\ s \in Living
    /\ sockets' = [sockets EXCEPT ![s] = "closed"]
    /\ wsConnected' = (wsConnected /\ (s \notin mine \/ sockets[s] = "open"))
    /\ UNCHANGED <<toolVars, mine, wsInstanceRef, wsListed, passed, overtaken>>

\* onclose, of whichever socket: closed, failed to open, or cut.
SocketDies(s) ==
    /\ s \in Living
    /\ sockets' = [sockets EXCEPT ![s] = "closed"]
    /\ wsConnected' = (wsConnected /\ s \notin mine)
    /\ UNCHANGED <<toolVars, mine, wsInstanceRef, wsListed, passed, overtaken>>

\* onmessage
FrameComes(s) ==
    /\ s \in mine /\ sockets[s] = "open" /\ wsListed < MaxListed
    /\ wsListed' = wsListed + 1 /\ passed' = passed + 1
    /\ UNCHANGED <<toolVars, sockets, mine, wsInstanceRef, wsConnected, overtaken>>

\* handleSendWs: a socket that is still connecting throws, one that is closing or
\* closed swallows the frame.
SendWs ==
    /\ place = "websocket_client" /\ wsConnected /\ wsInstanceRef # 0
    /\ sockets[wsInstanceRef] # "connecting" /\ wsListed < MaxListed
    /\ wsListed' = wsListed + 1
    /\ passed' = IF sockets[wsInstanceRef] = "open" THEN passed + 1 ELSE passed
    /\ UNCHANGED <<toolVars, sockets, mine, wsInstanceRef, wsConnected, overtaken>>

-----------------------------------------------------------------------------
ToolboxPage ==
    \/ \E t \in Used : OpenTool(t)
    \/ CloseTool \/ LeaveToolbox \/ EnterToolbox
    \/ \E f \in Fields, odd \in BOOLEAN : Type(f, odd)
    \/ SwapSides \/ ClearEditor

ToolboxAtOnce ==
    \/ ParseCurl \/ EvaluateJsonPath \/ RunJs \/ GenerateKeypair \/ ComputeCertHash
    \/ \E re \in Patterns : RunRegex(re)

ToolboxAwaited ==
    \/ RunAes \/ ComputeHashes
    \/ \E d \in digests : DigestReady(d) \/ \E k \in {"value", "error"} : AesAnswered(d, k)

ToolboxSocket ==
    \/ Connect \/ Disconnect \/ SendWs
    \/ \E s \in DOMAIN sockets :
          WsOpens(s) \/ ServerCloses(s) \/ SocketDies(s) \/ FrameComes(s)

ToolboxNext ==
    /\ ToolboxPage \/ ToolboxAtOnce \/ ToolboxAwaited \/ ToolboxSocket
    /\ UNCHANGED wanted

ToolboxSpec == ToolboxInit /\ [][ToolboxNext]_toolboxVars

-----------------------------------------------------------------------------
(* What the user may rely on                                               *)

\* When nothing is under way, an awaited result is that of the last click, though
\* the text was edited meanwhile: the AES button is disabled while it waits.  The
\* hash button is not, and hashes asked for while others are under way may be mixed.
LastRunIsShown ==
    \A r \in Results \cap ({"aesOutput"} \cup (IF "hash" \in overtaken THEN {} ELSE Hashes)) :
        (~ \E d \in digests : d.makes = r) => result[r].of = askedFor[r]

\* While there has been one socket at a time, the button that says "Disconnect"
\* belongs to an open socket, and an open socket has that button.  Only the moment
\* between the server's close and its event is excepted.
ConnectedIsOpen ==
    "socket" \notin overtaken =>
        /\ wsConnected => wsInstanceRef # 0 /\ sockets[wsInstanceRef] \in {"open", "closing"}
        /\ wsInstanceRef # 0 /\ sockets[wsInstanceRef] = "open" => wsConnected

\* The loop over the matches ends, for expressions that match the empty text too.
RegexEnds == "regexMatches" \in Results => result["regexMatches"].kind # "hangs"

\* What the tools show is what they did.
ToolboxIsTrue == LastRunIsShown /\ ConnectedIsOpen /\ RegexEnds
=============================================================================

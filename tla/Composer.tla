------------------------------ MODULE Composer ------------------------------
(***************************************************************************)
(* composer/RequestComposerModal.tsx, which edits a request and sends it,  *)
(* and the environments whose variables it fills in, of                    *)
(* environment/EnvironmentModal.tsx, desktop/EnvironmentSwitcher.tsx and   *)
(* the store.                                                              *)
(*                                                                         *)
(* The query is shown twice: in the text of the URL and in a table of      *)
(* rows.  Changing a row makes the URL anew from all rows, and nothing     *)
(* makes the rows anew from a URL that is typed or pasted.  In a URL made  *)
(* from rows a template is percent-encoded, and found no more.             *)
(***************************************************************************)
EXTENDS Naturals, Sequences, FiniteSets, Subsequences

CONSTANTS
    Captures,   \* URLs of captured requests that are opened
    Texts,      \* URLs that are typed or pasted
    MaxRows,    \* rows of the table (bound)
    MaxEnvs,    \* environments ever made (bound)
    MaxOpenings, MaxSends   \* (bounds)

Values == {"plain", "template", "encoded", "value"}
Url    == [valid : BOOLEAN, params : UNION {[1 .. n -> Values] : n \in 0 .. MaxRows}]
Blank  == [named |-> FALSE, val |-> "plain"]

ASSUME ComposerAssumption ==
    /\ Captures \subseteq Url /\ Texts \subseteq Url
    /\ {MaxRows, MaxEnvs, MaxOpenings, MaxSends} \subseteq Nat /\ MaxEnvs >= 2

VARIABLES
    envs,       \* environments: whether each has the variable, enabled
    activeEnv,  \* activeEnvironmentId, 0 for none
    envShown,   \* selectedEnvId while the dialog of environments is open, else 0
    envCount,
    opening,    \* the composer is open for the how many-th time, 0 when it is closed
    openings,
    url, rows,
    adrift,      \* the URL was typed, pasted or did not parse since it was last made
                \* from the rows, or they from it (history)
    busy,       \* loading
    response,   \* the opening that sent what the answer shown is to, 0 for none
    underWay,   \* requests sent: what was sent, by which opening, and what its table showed,
                \* or its URL if they are adrift
    sends

envVars      == <<envs, activeEnv, envShown, envCount>>
editVars     == <<url, rows, adrift>>
composerVars == <<envVars, opening, openings, editVars, busy, response, underWay, sends>>

RowSeqs == UNION {[1 .. n -> [named : BOOLEAN, val : Values \ {"encoded"}]] : n \in 0 .. MaxRows}
NoUrl   == [valid |-> TRUE, params |-> <<>>]

ComposerTypeOK ==
    /\ DOMAIN envs \subseteq 1 .. MaxEnvs /\ envs \in [DOMAIN envs -> BOOLEAN]
    /\ activeEnv \in 0 .. MaxEnvs /\ envShown \in 0 .. MaxEnvs /\ envCount \in 2 .. MaxEnvs
    /\ opening \in 0 .. MaxOpenings /\ openings \in 0 .. MaxOpenings
    /\ url \in Url /\ rows \in RowSeqs /\ {adrift, busy} \subseteq BOOLEAN
    /\ response \in 0 .. MaxOpenings /\ sends \in 0 .. MaxSends
    /\ \A s \in underWay : s.n \in 1 .. sends /\ s.by \in 1 .. openings

ComposerInit ==
    /\ envs = [e \in {1, 2} |-> TRUE] /\ activeEnv = 0 /\ envShown = 0 /\ envCount = 2
    /\ opening = 0 /\ openings = 0
    /\ url = NoUrl /\ rows = <<>> /\ adrift = FALSE
    /\ busy = FALSE /\ response = 0 /\ underWay = {} /\ sends = 0

-----------------------------------------------------------------------------
(* Environments                                                            *)

\* The switcher of the toolbar, or a button of the dialog.
SetActiveEnvironment(e) ==
    /\ opening = 0
    /\ e \in DOMAIN envs \cup {0}
    /\ activeEnv' = e
    /\ UNCHANGED <<envs, envShown, envCount, opening, openings, editVars, busy, response, underWay, sends>>

First(S) == IF S = {} THEN 0 ELSE CHOOSE e \in S : \A f \in S : e <= f

OpenEnvironments ==
    /\ opening = 0 /\ envShown = 0 /\ envs # <<>>
    /\ envShown' = IF activeEnv # 0 THEN activeEnv ELSE First(DOMAIN envs)
    /\ UNCHANGED <<envs, activeEnv, envCount, opening, openings, editVars, busy, response, underWay, sends>>

CloseEnvironments ==
    /\ envShown # 0
    /\ envShown' = 0
    /\ UNCHANGED <<envs, activeEnv, envCount, opening, openings, editVars, busy, response, underWay, sends>>

\* handleCreateEnv and handleAddEnv.
CreateEnv ==
    /\ envShown # 0 /\ envCount < MaxEnvs
    /\ envCount' = envCount + 1
    /\ envs' = [e \in DOMAIN envs \cup {envCount'} |-> IF e = envCount' THEN FALSE ELSE envs[e]]
    /\ envShown' = envCount'
    /\ UNCHANGED <<activeEnv, opening, openings, editVars, busy, response, underWay, sends>>

\* Mutant: the environment that is deleted stays the active one.
DeleteEnvOnly(e) ==
    /\ envShown # 0 /\ e \in DOMAIN envs
    /\ envs' = [f \in DOMAIN envs \ {e} |-> envs[f]]
    /\ envShown' = IF envShown = e THEN First(DOMAIN envs') ELSE envShown
    /\ UNCHANGED <<activeEnv, envCount, opening, openings, editVars, busy, response, underWay, sends>>

\* handleDeleteEnv, after a question that module ProxyPanel models.
DeleteEnv(e) ==
    /\ envShown # 0 /\ e \in DOMAIN envs
    /\ envs' = [f \in DOMAIN envs \ {e} |-> envs[f]]
    /\ envShown' = IF envShown = e THEN First(DOMAIN envs') ELSE envShown
    /\ activeEnv' = IF activeEnv = e THEN 0 ELSE activeEnv
    /\ UNCHANGED <<envCount, opening, openings, editVars, busy, response, underWay, sends>>

\* A variable is added, renamed, enabled, disabled or deleted.
EditVariables(b) ==
    /\ envShown \in DOMAIN envs
    /\ envs' = [envs EXCEPT ![envShown] = b]
    /\ UNCHANGED <<activeEnv, envShown, envCount, opening, openings, editVars, busy, response,
                   underWay, sends>>

-----------------------------------------------------------------------------
(* The composer                                                            *)

Encoded(v) == IF v = "template" THEN "encoded" ELSE v
Decoded(v) == IF v = "encoded" THEN "template" ELSE v

\* The parameters of the table: rows without a key are left out.
Shown(rs) ==
    LET named == Subsequence(rs, {i \in DOMAIN rs : rs[i].named})
    IN [i \in DOMAIN named |-> named[i].val]

\* updateUrlWithParams
UrlOf(u, rs) == [u EXCEPT !.params = [i \in DOMAIN Shown(rs) |-> Encoded(Shown(rs)[i])]]

\* searchParams, of a URL that parses.
RowsOf(u) == IF u.valid THEN [i \in DOMAIN u.params |-> [named |-> TRUE, val |-> Decoded(u.params[i])]]
                        ELSE <<>>

\* The composer is mounted, empty or with a captured request.
OpenComposer(u) ==
    /\ opening = 0 /\ envShown = 0 /\ openings < MaxOpenings
    /\ openings' = openings + 1 /\ opening' = openings'
    /\ url' = u /\ rows' = RowsOf(u) /\ adrift' = ~ u.valid
    /\ busy' = FALSE /\ response' = 0
    /\ UNCHANGED <<envVars, underWay, sends>>

CloseComposer ==
    /\ opening # 0
    /\ opening' = 0
    /\ url' = NoUrl /\ rows' = <<>> /\ adrift' = FALSE /\ busy' = FALSE /\ response' = 0
    /\ UNCHANGED <<envVars, openings, underWay, sends>>

\* The text of the URL is typed, or taken from a pasted curl command by
\* handleApplyCurl, which ignores the parameters it parsed.
SetUrl(u) ==
    /\ opening # 0
    /\ url' = u /\ adrift' = TRUE
    /\ UNCHANGED <<envVars, opening, openings, rows, busy, response, underWay, sends>>

\* "Add Param" leaves the URL: the row has no key yet.
AddRow ==
    /\ opening # 0 /\ Len(rows) < MaxRows
    /\ rows' = Append(rows, Blank)
    /\ UNCHANGED <<envVars, opening, openings, url, adrift, busy, response, underWay, sends>>

Rebuild ==
    /\ url' = IF url.valid THEN UrlOf(url, rows') ELSE url
    /\ adrift' = ~ url.valid

EditRow(i, r) ==
    /\ opening # 0 /\ i \in DOMAIN rows
    /\ rows' = [rows EXCEPT ![i] = r]
    /\ Rebuild
    /\ UNCHANGED <<envVars, opening, openings, busy, response, underWay, sends>>

RemoveAt(s, i) == SubSeq(s, 1, i - 1) \o SubSeq(s, i + 1, Len(s))

\* Mutant: the URL keeps the parameter of a row that is deleted.
DeleteRowOnly(i) ==
    /\ opening # 0 /\ i \in DOMAIN rows
    /\ rows' = RemoveAt(rows, i)
    /\ UNCHANGED <<envVars, opening, openings, url, adrift, busy, response, underWay, sends>>

DeleteRow(i) ==
    /\ opening # 0 /\ i \in DOMAIN rows
    /\ rows' = RemoveAt(rows, i)
    /\ Rebuild
    /\ UNCHANGED <<envVars, opening, openings, busy, response, underWay, sends>>

\* renderTemplate, for what is not encoded.
Rendered(v) == IF v = "template" /\ activeEnv # 0 /\ envs[activeEnv] THEN "value" ELSE v

\* handleSend, whose button is disabled until the answer is there.
Send ==
    /\ opening # 0 /\ ~ busy /\ sends < MaxSends
    /\ sends' = sends + 1
    /\ busy' = TRUE
    /\ underWay' = underWay \cup
          {[n |-> sends', by |-> opening,
            shown |-> IF adrift THEN url.params ELSE Shown(rows),
            params |-> [i \in DOMAIN url.params |-> Rendered(url.params[i])]]}
    /\ UNCHANGED <<envVars, opening, openings, editVars, response>>

\* Mutant: the composer that is open takes every answer.
AnsweredAny(s) ==
    /\ s \in underWay
    /\ underWay' = underWay \ {s}
    /\ busy' = (busy /\ s.by # opening)
    /\ response' \in IF opening # 0 THEN {response, s.by} ELSE {response}
    /\ UNCHANGED <<envVars, opening, openings, editVars, sends>>

\* The answer is shown, or an error is told of; on a composer that was closed since,
\* neither is.
Answered(s) ==
    /\ s \in underWay
    /\ underWay' = underWay \ {s}
    /\ busy' = (busy /\ s.by # opening)
    /\ response' \in IF s.by = opening THEN {response, s.by} ELSE {response}
    /\ UNCHANGED <<envVars, opening, openings, editVars, sends>>

-----------------------------------------------------------------------------
EnvSteps ==
    \/ \E e \in 0 .. MaxEnvs : SetActiveEnvironment(e) \/ DeleteEnv(e)
    \/ \E b \in BOOLEAN : EditVariables(b)
    \/ OpenEnvironments \/ CloseEnvironments \/ CreateEnv
EditSteps ==
    \/ \E u \in Texts : SetUrl(u)
    \/ \E i \in 1 .. MaxRows :
          \/ DeleteRow(i)
          \/ \E r \in [named : {TRUE}, val : {"plain", "template"}] : EditRow(i, r)
    \/ AddRow

ComposerNext ==
    \/ EnvSteps \/ EditSteps
    \/ \E s \in underWay : Answered(s)
    \/ \E u \in Captures \cup {NoUrl} : OpenComposer(u)
    \/ CloseComposer \/ Send

ComposerSpec == ComposerInit /\ [][ComposerNext]_composerVars

-----------------------------------------------------------------------------
(* What the user may rely on                                               *)

\* A parameter, but for what became of its template.
Plain(v) == IF v = "plain" THEN v ELSE "template"

\* What is sent has the parameters that the table showed at the click, and no others:
\* but for a URL that was typed, pasted or does not parse.  No template of a variable
\* of a deleted environment is filled in.
SendsWhatIsShown ==
    /\ \A s \in underWay :
          [i \in DOMAIN s.params |-> Plain(s.params[i])] = [i \in DOMAIN s.shown |-> Plain(s.shown[i])]
    /\ activeEnv \in DOMAIN envs \cup {0}

\* The response that is shown is of a request that this composer has sent.
ShowsOwnAnswers ==
    /\ busy <=> \E s \in underWay : s.by = opening
    /\ response \in {0, opening}
=============================================================================
